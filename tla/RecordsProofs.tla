--------------------------- MODULE RecordsProofs ---------------------------
(***************************************************************************)
(* What the manager's records promise, as they are put together in         *)
(* MCRecords: the invariants of AccessProofs and ModelProofs hold while    *)
(* their component is in focus, and what the run checks follows.           *)
(***************************************************************************)
EXTENDS MCRecords, AccessProofs, ModelProofs

-----------------------------------------------------------------------------
(* API keys.                                                               *)

\* The keys keep their invariant, whatever component is in focus.
LEMMA KeysStep == KeyInv /\ [MCNext]_allVars => KeyInv'
<1>1. [MCNext]_allVars => [KeyNext]_keyVars
  BY DEF MCNext, allVars
<1> QED BY <1>1, KeyGo

\* No entry of the cache and no grant is older than the changes that were
\* answered before (auth/api_keys_cache.go), as the run checks it.
THEOREM KeysStayFresh == RecordsSpec => []KeysFresh
<1>1. Init => KeyInv
  BY KeyBegin DEF Init
<1> QED BY <1>1, KeysStep, FreshThen, PTL DEF RecordsSpec

-----------------------------------------------------------------------------
(* Settings.                                                               *)

\* The invariant of the settings, while they are in focus.
SettingsHeld == focus = "settings" => Set!SetInv

\* A step of the records is one of the settings when those are in focus, or none.
LEMMA SettingsStep == SettingsHeld /\ [MCNext]_allVars => SettingsHeld'
<1> SUFFICES ASSUME SettingsHeld, [MCNext]_allVars, focus' = "settings"
             PROVE  Set!SetInv'
  BY DEF SettingsHeld
<1>1. focus = "settings" /\ (Set!SetNext \/ UNCHANGED allVars)
  BY DEF MCNext, Component, allVars
<1>2. Set!SetInv
  BY <1>1 DEF SettingsHeld
<1>3. UNCHANGED allVars => UNCHANGED Set!setVars
  BY DEF allVars, shared, Set!setVars, rest5
<1> QED BY <1>1, <1>2, <1>3, SettingsGo

\* Sessions get the lifetime the settings resolve to once nobody is about to tell
\* the auth service of one, through failing writes and restarts, as long as no
\* request stored a lifetime between another's store and its telling: after that
\* the older one may stay in use (api/admin.go, settings/service.go).  The run
\* checks it.
THEOREM SettingsTold == RecordsSpec => []SettingsRight
<1>1. Init => SettingsHeld
  BY SettingsBegin DEF Init, SettingsHeld
<1>2. SettingsHeld => SettingsRight
  BY DEF SettingsHeld, SettingsRight, Set!SetInv
<1> QED BY <1>1, <1>2, SettingsStep, PTL DEF RecordsSpec

\* A key changes only to a value of a request all of whose keys were vetted, and
\* which asked for nothing its caller may not change; a request that fails midway
\* leaves what it has stored (api/admin.go, settings/service.go).  It is the
\* settings' part of what the run checks of steps.
THEOREM SettingsWhole == RecordsSpec => [][focus = "settings" => Set!VettedAsWhole]_allVars
<1>1. [MCNext]_allVars /\ focus = "settings" => [Set!SetNext]_(Set!setVars)
  BY DEF MCNext, Component, allVars, shared, Set!setVars, rest5
<1>2. SettingsHeld /\ [MCNext]_allVars => [focus = "settings" => Set!VettedAsWhole]_allVars
  BY <1>1, WholeKept DEF SettingsHeld
<1>3. Init => SettingsHeld
  BY SettingsBegin DEF Init, SettingsHeld
<1> QED BY <1>2, <1>3, SettingsStep, PTL DEF RecordsSpec

-----------------------------------------------------------------------------
(* Tickets.                                                                *)

\* The invariant of the tickets, while they are in focus.
TicketsHeld == focus = "tickets" => Tkt!TicketInv

\* A step of the records is one of the tickets when those are in focus, or none.
LEMMA TicketsStep == TicketsHeld /\ [MCNext]_allVars => TicketsHeld'
<1> SUFFICES ASSUME TicketsHeld, [MCNext]_allVars, focus' = "tickets"
             PROVE  Tkt!TicketInv'
  BY DEF TicketsHeld
<1>1. focus = "tickets" /\ (Tkt!TicketNext \/ UNCHANGED allVars)
  BY DEF MCNext, Component, allVars
<1>2. Tkt!TicketInv
  BY <1>1 DEF TicketsHeld
<1>3. UNCHANGED allVars => UNCHANGED Tkt!ticketVars
  BY DEF allVars, shared, Tkt!ticketVars, rest5
<1> QED BY <1>1, <1>2, <1>3, TicketGo

\* A ticket opens one socket, however many requests present it, and neither
\* limit on tickets is passed (auth/bearer.go), as the run checks it.
THEOREM TicketsOnce == RecordsSpec => []TicketsSafe
<1>1. Init => TicketsHeld
  BY TicketBegin DEF Init, TicketsHeld
<1>2. TicketsHeld => TicketsSafe
  BY DEF TicketsHeld, TicketsSafe, Tkt!TicketInv
<1> QED BY <1>1, <1>2, TicketsStep, PTL DEF RecordsSpec

\* A session at its own limit pays for a new ticket itself (auth/bearer.go), the
\* tickets' part of what the run checks of steps.
THEOREM TicketsPay == RecordsSpec => [][focus = "tickets" => Tkt!PaysItself]_allVars
<1>1. [MCNext]_allVars /\ focus = "tickets" => [Tkt!TicketNext]_(Tkt!ticketVars)
  BY DEF MCNext, Component, allVars, shared, Tkt!ticketVars, rest5
<1>2. TicketsHeld /\ [MCNext]_allVars => [focus = "tickets" => Tkt!PaysItself]_allVars
  BY <1>1, PaysKept DEF TicketsHeld
<1>3. Init => TicketsHeld
  BY TicketBegin DEF Init, TicketsHeld
<1> QED BY <1>2, <1>3, TicketsStep, PTL DEF RecordsSpec

-----------------------------------------------------------------------------
(* Identity providers.                                                     *)

\* The invariant of the providers, while they are in focus.
ProvidersHeld == focus = "providers" => Prov!ProviderInv

LEMMA ProvidersStart == Init => ProvidersHeld
  BY ProviderBegin DEF Init, ProvidersHeld

\* A step of the records is one of the providers when those are in focus, or none.
LEMMA ProvidersStep == ProvidersHeld /\ [MCNext]_allVars => ProvidersHeld'
<1> SUFFICES ASSUME ProvidersHeld, [MCNext]_allVars, focus' = "providers"
             PROVE  Prov!ProviderInv'
  BY DEF ProvidersHeld
<1>1. focus = "providers" /\ (Prov!ProviderNext \/ UNCHANGED allVars)
  BY DEF MCNext, Component, allVars
<1>2. Prov!ProviderInv
  BY <1>1 DEF ProvidersHeld
<1>3. UNCHANGED allVars => UNCHANGED Prov!providerVars
  BY DEF allVars, shared, Prov!providerVars, rest5
<1> QED BY <1>1, <1>2, <1>3, ProviderGo

\* Only a test locks local sign-in out (api/oidc.go): a step after which no
\* provider that works is left and local sign-in is off is the end of a test,
\* the providers' part of what the run checks of steps.
THEOREM TestsLockOut == RecordsSpec => [][focus = "providers" => Prov!OnlyTestsLockOut]_allVars
<1>1. [MCNext]_allVars /\ focus = "providers" => [Prov!ProviderNext]_(Prov!providerVars)
  BY DEF MCNext, Component, allVars, shared, Prov!providerVars, rest5
<1>2. ProvidersHeld /\ [MCNext]_allVars => [focus = "providers" => Prov!OnlyTestsLockOut]_allVars
  BY <1>1, LocksOut DEF ProvidersHeld
<1> QED BY <1>2, ProvidersStart, ProvidersStep, PTL DEF RecordsSpec

-----------------------------------------------------------------------------
(* Sign-in through a provider.                                             *)

\* The invariant of a sign-in, while it is in focus.
SsoHeld == focus = "sso" => Sso!SsoInv

LEMMA SsoStart == Init => SsoHeld
  BY SsoBegin DEF Init, SsoHeld

\* A step of the records is one of the sign-in when that is in focus, or none.
LEMMA SsoStep == SsoHeld /\ [MCNext]_allVars => SsoHeld'
<1> SUFFICES ASSUME SsoHeld, [MCNext]_allVars, focus' = "sso"
             PROVE  Sso!SsoInv'
  BY DEF SsoHeld
<1>1. focus = "sso" /\ (Sso!SsoNext \/ UNCHANGED allVars)
  BY DEF MCNext, Component, allVars
<1>2. Sso!SsoInv
  BY <1>1 DEF SsoHeld
<1>3. UNCHANGED allVars => UNCHANGED Sso!ssoVars
  BY DEF allVars, shared, Sso!ssoVars, rest5
<1> QED BY <1>1, <1>2, <1>3, SsoGo

\* Local sign-in is off only while a provider passed its test as configured now,
\* a state or a code signs in once, and no user is left over from a sign-in that
\* failed (auth/oidc.go, api/oidc.go), as the run checks it.
THEOREM SignOnHeld == RecordsSpec => []SignOnSafe
<1>1. ProvidersHeld /\ SsoHeld => SignOnSafe
  BY DEF ProvidersHeld, SsoHeld, SignOnSafe, Prov!ProviderInv, Sso!SsoInv
<1> QED BY <1>1, ProvidersStart, ProvidersStep, SsoStart, SsoStep, PTL DEF RecordsSpec

-----------------------------------------------------------------------------
(* Accounts.                                                               *)

\* The invariant of the accounts, while they are in focus.
AccountsHeld == focus = "accounts" => Acc!AccInv

LEMMA AccountsStart == Init => AccountsHeld
  BY AccountsBegin DEF Init, AccountsHeld

\* A step of the records is one of the accounts when those are in focus, or none.
LEMMA AccountsStep == AccountsHeld /\ [MCNext]_allVars => AccountsHeld'
<1> SUFFICES ASSUME AccountsHeld, [MCNext]_allVars, focus' = "accounts"
             PROVE  Acc!AccInv'
  BY DEF AccountsHeld
<1>1. focus = "accounts" /\ (Acc!AccNext \/ UNCHANGED allVars)
  BY DEF MCNext, Component, allVars
<1>2. Acc!AccInv
  BY <1>1 DEF AccountsHeld
<1>3. UNCHANGED allVars => UNCHANGED Acc!accVars
  BY DEF allVars, shared, Acc!accVars, rest5
<1> QED BY <1>1, <1>2, <1>3, AccountsGo

-----------------------------------------------------------------------------
(* The login protector.                                                    *)

\* The invariant of the login protector, while it is in focus.
LimitHeld == focus = "limit" => Limit!LimitInv

LEMMA LimitStart == Init => LimitHeld
  BY LimitBegin DEF Init, LimitHeld

\* A step of the records is one of the protector when it is in focus, or none.
LEMMA LimitMoves == [MCNext]_allVars /\ focus = "limit" => Limit!LimitNext \/ UNCHANGED Limit!limitVars
  BY DEF MCNext, Component, allVars, shared, Limit!limitVars, rest5

LEMMA LimitStep == LimitHeld /\ [MCNext]_allVars => LimitHeld'
<1> SUFFICES ASSUME LimitHeld, [MCNext]_allVars, focus' = "limit"
             PROVE  Limit!LimitInv'
  BY DEF LimitHeld
<1>1. focus = "limit"
  BY DEF MCNext, allVars
<1> QED BY <1>1, LimitMoves, LimitGo DEF LimitHeld

\* Some user stays enabled, the first user is made alone, a password never goes
\* back, a session is one of an enabled user, the gate counts exactly, and the
\* lockout's tables stay within their bounds (auth/users.go,
\* auth/password_work.go, security.go), as the run checks it.
THEOREM AccountsKept == RecordsSpec => []AccountsSafe
<1>1. AccountsHeld /\ LimitHeld => AccountsSafe
  BY DEF AccountsHeld, LimitHeld, AccountsSafe, Acc!AccInv, Limit!LimitInv
<1> QED BY <1>1, AccountsStart, AccountsStep, LimitStart, LimitStep, PTL DEF RecordsSpec

\* No flood of other names ends a lockout, nor an address's delay
\* (security/security.go), the protector's part of what the run checks of steps.
THEOREM LockoutsLast == RecordsSpec => [][focus = "limit" => (Limit!LockHolds /\ Limit!SlowHolds)]_allVars
<1>1. LimitHeld /\ [MCNext]_allVars => [focus = "limit" => (Limit!LockHolds /\ Limit!SlowHolds)]_allVars
  BY LimitMoves, LimitKeeps DEF LimitHeld
<1> QED BY <1>1, LimitStart, LimitStep, PTL DEF RecordsSpec

-----------------------------------------------------------------------------
(* Instances and their cache.                                              *)

\* The invariant of the instances, while in focus.
InstancesHeld == focus = "instances" => Inst!InstInv

LEMMA InstancesStart == Init => InstancesHeld
  BY InstBegin DEF Init, InstancesHeld

\* A step of the records is one of the instances when that is in focus, or none.
LEMMA InstancesStep == InstancesHeld /\ [MCNext]_allVars => InstancesHeld'
<1> SUFFICES ASSUME InstancesHeld, [MCNext]_allVars, focus' = "instances"
             PROVE  Inst!InstInv'
  BY DEF InstancesHeld
<1>1. focus = "instances" /\ (Inst!InstNext \/ UNCHANGED allVars)
  BY DEF MCNext, Component, allVars
<1>2. Inst!InstInv
  BY <1>1 DEF InstancesHeld
<1>3. UNCHANGED allVars => UNCHANGED Inst!instVars
  BY DEF allVars, shared, Inst!instVars, rest5
<1> QED BY <1>1, <1>2, <1>3, InstGo

\* A field that an update leaves out keeps the value it has in the table, unless
\* two writers meet (instances/service.go), the instances' part of what the run
\* checks of steps.
THEOREM InstancesKept == RecordsSpec => [][focus = "instances" => Inst!LeftOutKept]_allVars
<1>1. [MCNext]_allVars /\ focus = "instances" => [Inst!InstNext]_(Inst!instVars)
  BY DEF MCNext, Component, allVars, shared, Inst!instVars, rest5
<1>2. InstancesHeld /\ [MCNext]_allVars => [focus = "instances" => Inst!LeftOutKept]_allVars
  BY <1>1, FieldsKept DEF InstancesHeld
<1> QED BY <1>2, InstancesStart, InstancesStep, PTL DEF RecordsSpec

-----------------------------------------------------------------------------
(* Files that are found, and their index.                                  *)

\* The invariant of the discovery, while in focus.
DiscoveryHeld == focus = "discovery" => Disc!DiscInv

LEMMA DiscoveryStart == Init => DiscoveryHeld
  BY DiscBegin DEF Init, DiscoveryHeld

\* A step of the records is one of the discovery when that is in focus, or none.
LEMMA DiscoveryStep == DiscoveryHeld /\ [MCNext]_allVars => DiscoveryHeld'
<1> SUFFICES ASSUME DiscoveryHeld, [MCNext]_allVars, focus' = "discovery"
             PROVE  Disc!DiscInv'
  BY DEF DiscoveryHeld
<1>1. focus = "discovery" /\ (Disc!DiscNext \/ UNCHANGED allVars)
  BY DEF MCNext, Component, allVars
<1>2. Disc!DiscInv
  BY <1>1 DEF DiscoveryHeld
<1>3. UNCHANGED allVars => UNCHANGED Disc!discVars
  BY DEF allVars, shared, Disc!discVars, rest5
<1> QED BY <1>1, <1>2, <1>3, DiscGo

\* A context given by hand stays, whatever a pass read meanwhile
\* (models/metadata.go), the discovery's part of what the run checks of steps.
THEOREM ContextKept == RecordsSpec => [][focus = "discovery" => Disc!GivenKept]_allVars
<1>1. [MCNext]_allVars /\ focus = "discovery" => [Disc!DiscNext]_(Disc!discVars)
  BY DEF MCNext, Component, allVars, shared, Disc!discVars, rest5
<1>2. DiscoveryHeld /\ [MCNext]_allVars => [focus = "discovery" => Disc!GivenKept]_allVars
  BY <1>1, GivenStays DEF DiscoveryHeld
<1> QED BY <1>2, DiscoveryStart, DiscoveryStep, PTL DEF RecordsSpec

-----------------------------------------------------------------------------
(* Deleting a model with its files.                                        *)

\* The invariant of the model files, while in focus.
FilesHeld == focus = "files" => Files!FilesInv

LEMMA FilesStart == Init => FilesHeld
  BY FilesBegin DEF Init, FilesHeld

\* A step of the records is one of the model files when that is in focus, or none.
LEMMA FilesStep == FilesHeld /\ [MCNext]_allVars => FilesHeld'
<1> SUFFICES ASSUME FilesHeld, [MCNext]_allVars, focus' = "files"
             PROVE  Files!FilesInv'
  BY DEF FilesHeld
<1>1. focus = "files" /\ (Files!FilesNext \/ UNCHANGED allVars)
  BY DEF MCNext, Component, allVars
<1>2. Files!FilesInv
  BY <1>1 DEF FilesHeld
<1>3. UNCHANGED allVars => UNCHANGED Files!fileVars
  BY DEF allVars, shared, Files!fileVars, rest5
<1> QED BY <1>1, <1>2, <1>3, FilesGo

\* A file that goes is nobody else's, and a row goes after its files
\* (models/delete_files.go), the files' part of what the run checks of steps.
THEOREM FilesSpared == RecordsSpec => [][focus = "files" => (Files!OthersFilesKept /\ Files!RowLast)]_allVars
<1>1. [MCNext]_allVars /\ focus = "files" => [Files!FilesNext]_(Files!fileVars)
  BY DEF MCNext, Component, allVars, shared, Files!fileVars, rest5
<1>2. FilesHeld /\ [MCNext]_allVars => [focus = "files" => (Files!OthersFilesKept /\ Files!RowLast)]_allVars
  BY <1>1, OnlyOwnFiles DEF FilesHeld
<1> QED BY <1>2, FilesStart, FilesStep, PTL DEF RecordsSpec

\* An entry of the instance cache is its row when no writer is under way, except
\* that it may show disabled what the import reconciler has enabled in the table
\* since, and that nothing is said of rows deleted with their model and of those
\* two writers were at together; the index of GGUFs agrees with the files, and a
\* directory is not pruned under a file (instances/hot_cache.go,
\* modelimports/service.go, models/gguf_index.go, models/delete_files.go), as the
\* run checks it.
THEOREM CachesAgree == RecordsSpec => []InstancesRight
<1>1. InstancesHeld /\ DiscoveryHeld /\ FilesHeld => InstancesRight
  BY InstTold, OffersRight, FilesHaveDirs DEF InstancesHeld, DiscoveryHeld, FilesHeld, InstancesRight
<1> QED BY <1>1, InstancesStart, InstancesStep, DiscoveryStart, DiscoveryStep, FilesStart, FilesStep, PTL DEF RecordsSpec

-----------------------------------------------------------------------------
(* The LiteLLM catalog.                                                    *)

USE DEF CatInsts, Names, Entries, Foreign, CatCallers, inst, remote, accounts, stored, conf, sync, holder, due, call, secrets, mixed, edits, asks, slips

-----------------------------------------------------------------------------
(* What a step of a caller of the catalog leaves as it is.                                *)

\* The other callers stand where they stood.
RestStands(c) == \A d \in CatCallers : d # c => call'[d] = call[d]

LEMMA Going ==
    ASSUME Cat!OursInv, NEW c \in CatCallers, NEW pc, Cat!Goto(c, pc)
    PROVE  /\ RestStands(c) /\ call'[c].pc = pc /\ call'[c].op = call[c].op /\ call'[c].secret = call[c].secret
           /\ call'[c].acct = call[c].acct
<1>1. call \in [CatCallers -> Cat!Caller] /\ call' = [call EXCEPT ![c] = [call[c] EXCEPT !.pc = pc]]
  BY DEF Cat!OursInv, Cat!Goto
<1>2. call'[c] = [call[c] EXCEPT !.pc = pc] /\ RestStands(c)
  BY <1>1 DEF RestStands
<1>3. \A x \in Cat!Caller : LET y == [x EXCEPT !.pc = pc] IN y.pc = pc /\ y.op = x.op /\ y.secret = x.secret /\ y.acct = x.acct
  BY DEF Cat!Caller
<1> QED BY <1>1, <1>2, <1>3

LEMMA GoingTo ==
    ASSUME Cat!OursInv, NEW c \in CatCallers, NEW pc, NEW a, call' = [call EXCEPT ![c].pc = pc, ![c].acct = a]
    PROVE  RestStands(c) /\ call'[c].pc = pc /\ call'[c].op = call[c].op /\ call'[c].secret = call[c].secret /\ call'[c].acct = a
<1>1. call \in [CatCallers -> Cat!Caller] /\ call' = [call EXCEPT ![c] = [call[c] EXCEPT !.pc = pc, !.acct = a]]
  BY DEF Cat!OursInv
<1>2. call'[c] = [call[c] EXCEPT !.pc = pc, !.acct = a] /\ RestStands(c)
  BY <1>1 DEF RestStands
<1>3. \A x \in Cat!Caller : LET y == [x EXCEPT !.pc = pc, !.acct = a] IN y.pc = pc /\ y.op = x.op /\ y.secret = x.secret /\ y.acct = a
  BY DEF Cat!Caller
<1> QED BY <1>1, <1>2, <1>3

LEMMA GoingWith ==
    ASSUME Cat!OursInv, NEW c \in CatCallers, NEW pc, NEW s, call' = [call EXCEPT ![c].pc = pc, ![c].secret = s]
    PROVE  RestStands(c) /\ call'[c].pc = pc /\ call'[c].op = call[c].op /\ call'[c].secret = s
<1>1. call \in [CatCallers -> Cat!Caller] /\ call' = [call EXCEPT ![c] = [call[c] EXCEPT !.pc = pc, !.secret = s]]
  BY DEF Cat!OursInv
<1>2. call'[c] = [call[c] EXCEPT !.pc = pc, !.secret = s] /\ RestStands(c)
  BY <1>1 DEF RestStands
<1>3. \A x \in Cat!Caller : LET y == [x EXCEPT !.pc = pc, !.secret = s] IN y.pc = pc /\ y.op = x.op /\ y.secret = s
  BY DEF Cat!Caller
<1> QED BY <1>1, <1>2, <1>3

LEMMA Ending ==
    ASSUME Cat!OursInv, NEW c \in CatCallers, call' = [call EXCEPT ![c] = Cat!Resting]
    PROVE  RestStands(c) /\ call'[c].pc = "idle" /\ call'[c].op = "none" /\ call'[c].secret = 0
<1>1. call'[c] = Cat!Resting /\ RestStands(c)
  BY DEF Cat!OursInv, RestStands
<1> QED BY <1>1 DEF Cat!Resting

LEMMA SameRows == ASSUME UNCHANGED <<inst, remote, stored>> PROVE Cat!RowsRight' <=> Cat!RowsRight
<1>1. Cat!EnabledNow' = Cat!EnabledNow
  BY DEF Cat!EnabledNow
<1> QED BY <1>1 DEF Cat!RowsRight, Cat!RowFor

LEMMA SamePass == ASSUME NEW d, call'[d] = call[d], UNCHANGED remote PROVE Cat!PassRight(call[d])' <=> Cat!PassRight(call[d])
  BY DEF Cat!PassRight, Cat!Alien, Cat!RowFor

LEMMA SameCurrent == ASSUME NEW d, call'[d] = call[d], UNCHANGED <<inst, stored>> PROVE Cat!Current(call[d])' <=> Cat!Current(call[d])
<1>1. Cat!EnabledNow' = Cat!EnabledNow
  BY DEF Cat!EnabledNow
<1> QED BY <1>1 DEF Cat!Current

LEMMA SameKeys == ASSUME UNCHANGED accounts PROVE Cat!Exist' = Cat!Exist /\ Cat!Live' = Cat!Live
  BY DEF Cat!Exist, Cat!Live

LEMMA SameOwners == ASSUME UNCHANGED remote PROVE Cat!OwnersRight' <=> Cat!OwnersRight
  BY DEF Cat!OwnersRight

-----------------------------------------------------------------------------
(* Steps that leave the proxy, the accounts and the secrets alone.         *)

\* From stage to stage of a pass, up to the principal.
LEMMA CallMovesOn ==
    ASSUME Cat!CatalogInv, NEW c \in CatCallers, RestStands(c),
           call[c].pc \in {"client", "account", "key", "check"}, call[c].pc = "client" => conf,
           call'[c].pc \in {"account", "newaccount", "key", "newkey", "check", "rotate", "ready"}, call'[c].op = call[c].op,
           UNCHANGED <<inst, remote, accounts, stored, conf, sync, holder, due, mixed, slips>>
    PROVE  Cat!CatalogInv'
<1>1. Cat!CallsRight'
  BY DEF Cat!CatalogInv, Cat!CallsRight, RestStands, Cat!Working, Cat!Leaving
<1>2. Cat!OwnersRight'
  BY SameOwners DEF Cat!CatalogInv
<1>3. ASSUME ~mixed' PROVE Cat!Alone' /\ Cat!AccountsRight' /\ Cat!SecretsRight' /\ Cat!Fresh' /\ Cat!Passes' /\ Cat!Reached'
  <2>1. Cat!CallsRight /\ Cat!Alone /\ Cat!AccountsRight /\ Cat!SecretsRight /\ Cat!Fresh /\ Cat!Passes /\ Cat!Reached
    BY <1>3 DEF Cat!CatalogInv
  <2>2. Cat!Alone'
    BY <2>1 DEF Cat!Alone, RestStands
  <2>3. Cat!AccountsRight'
    BY <2>1, SameKeys DEF Cat!AccountsRight, Cat!At, RestStands, Cat!Working
  <2>4. Cat!SecretsRight'
    BY <2>1, SameKeys DEF Cat!SecretsRight, Cat!At, RestStands
  <2>5. Cat!Fresh'
    BY <2>1, SameCurrent DEF Cat!Fresh, Cat!At, RestStands
  <2>6. Cat!Passes'
    BY <2>1, SamePass DEF Cat!Passes, RestStands
  <2>7. Cat!Reached'
    <3>1. ~Cat!Behind' => ~Cat!Behind
      BY <2>1 DEF Cat!Behind, Cat!At, RestStands, Cat!CallsRight, Cat!Working, Cat!Leaving
    <3>2. Cat!At(Cat!Leaving \ {"unlist"}) => Cat!At(Cat!Leaving \ {"unlist"})'
      BY DEF Cat!At, RestStands, Cat!Leaving
    <3> QED BY SMTT(60), <2>1, <3>1, <3>2, SameRows DEF Cat!Reached
  <2> QED BY <2>2, <2>3, <2>4, <2>5, <2>6, <2>7
<1> QED BY <1>1, <1>2, <1>3 DEF Cat!CatalogInv

\* A caller that ends with an error: what it leaves written down of itself, and
\* of a secret that it has not stored.
LEMMA GivesUp ==
    ASSUME Cat!CatalogInv, NEW c \in CatCallers, RestStands(c), call[c].pc \in Cat!Working \cup {"client"},
           call'[c].pc = "idle", call'[c].op = "none", holder' = (IF holder = c THEN None ELSE holder),
           sync' = "failed" \/ (sync' = sync /\ (sync = "ok" => "unwritten" \in slips')), slips \ {"unwritten"} \subseteq slips',
           ~mixed' => ~mixed /\ (call[c].pc = "store" => \A d \in CatCallers \ {c} : call[d].pc # "store"),
           call[c].pc = "store" /\ stored # 0 => "torn" \in slips',
           UNCHANGED <<inst, remote, accounts, stored, conf, due>>
    PROVE  Cat!CatalogInv'
<1>1. Cat!CallsRight'
  BY CatalogAssumed DEF Cat!CatalogInv, Cat!CallsRight, RestStands, Cat!Working, Cat!Leaving, Cat!CatalogAssumption
<1>2. Cat!OwnersRight'
  BY SameOwners DEF Cat!CatalogInv
<1>3. ASSUME ~mixed' PROVE Cat!Alone' /\ Cat!AccountsRight' /\ Cat!SecretsRight' /\ Cat!Fresh' /\ Cat!Passes' /\ Cat!Reached'
  <2>1. Cat!CallsRight /\ Cat!Alone /\ Cat!AccountsRight /\ Cat!SecretsRight /\ Cat!Fresh /\ Cat!Passes /\ Cat!Reached
    BY <1>3 DEF Cat!CatalogInv
  <2>2. Cat!Alone'
    BY <2>1 DEF Cat!Alone, RestStands
  <2>3. Cat!AccountsRight'
    BY <2>1, SameKeys DEF Cat!AccountsRight, Cat!At, RestStands, Cat!Working
  <2>4. Cat!SecretsRight'
    <3>1. call[c].pc \notin {"proxykey", "secret"} /\ ("torn" \notin slips' => "torn" \notin slips)
      BY DEF Cat!Working
    <3>2. stored' # 0 /\ "torn" \notin slips' => call[c].pc # "store"
      OBVIOUS
    <3>3. ~Cat!At({"store", "proxykey", "secret"})' /\ "torn" \notin slips' /\ stored' # 0 => ~Cat!At({"store", "proxykey", "secret"})
      BY <3>1, <3>2 DEF Cat!At, RestStands
    <3>4. ASSUME NEW d \in CatCallers, call'[d].pc = "store" PROVE d # c /\ call[c].pc # "store" /\ call[d] = call'[d]
      BY <1>3, <3>4 DEF RestStands
    <3>5. ASSUME NEW d \in CatCallers, call'[d].pc = "store", \A b \in CatCallers \ {d} : call'[b].pc # "store"
          PROVE  call'[d].secret \in Cat!Live
      <4>1. \A b \in CatCallers \ {d} : call[b].pc # "store"
        BY <3>4, <3>5 DEF RestStands
      <4> QED BY <2>1, <3>4, <3>5, <4>1 DEF Cat!SecretsRight
    <3> QED BY <2>1, <3>1, <3>3, <3>5, SameKeys DEF Cat!SecretsRight
  <2>5. Cat!Fresh'
    <3>1. \A d \in CatCallers : holder' = d => d # c /\ holder = d
      BY CatalogAssumed DEF Cat!CatalogAssumption
    <3>2. ~Cat!At({"lock"})' => ~Cat!At({"lock"})
      BY DEF Cat!At, RestStands, Cat!Working
    <3> QED BY <2>1, <3>1, <3>2, SameCurrent DEF Cat!Fresh, RestStands
  <2>6. Cat!Passes'
    BY <2>1, SamePass DEF Cat!Passes, RestStands
  <2>7. Cat!Reached'
    BY DEF Cat!Reached
  <2> QED BY <2>2, <2>3, <2>4, <2>5, <2>6, <2>7
<1> QED BY <1>1, <1>2, <1>3 DEF Cat!CatalogInv

\* A disconnect that fails before it has changed anything.
LEMMA LeavesBefore ==
    ASSUME Cat!CatalogInv, NEW c \in CatCallers, RestStands(c), holder # c, call[c].pc = "unlist", call'[c].pc = "idle", call'[c].op = "none",
           ~mixed' => ~mixed, UNCHANGED <<inst, remote, accounts, stored, conf, sync, holder, due, slips>>
    PROVE  Cat!CatalogInv'
<1>1. Cat!CallsRight'
  BY DEF Cat!CatalogInv, Cat!CallsRight, RestStands, Cat!Working, Cat!Leaving
<1>2. Cat!OwnersRight'
  BY SameOwners DEF Cat!CatalogInv
<1>3. ASSUME ~mixed' PROVE Cat!Alone' /\ Cat!AccountsRight' /\ Cat!SecretsRight' /\ Cat!Fresh' /\ Cat!Passes' /\ Cat!Reached'
  <2>1. Cat!CallsRight /\ Cat!Alone /\ Cat!AccountsRight /\ Cat!SecretsRight /\ Cat!Fresh /\ Cat!Passes /\ Cat!Reached
    BY <1>3 DEF Cat!CatalogInv
  <2>2. Cat!Alone'
    BY <2>1 DEF Cat!Alone, RestStands
  <2>3. Cat!AccountsRight'
    BY <2>1, SameKeys DEF Cat!AccountsRight, Cat!At, RestStands, Cat!Working
  <2>4. Cat!SecretsRight'
    BY <2>1, SameKeys DEF Cat!SecretsRight, Cat!At, RestStands
  <2>5. Cat!Fresh'
    BY <2>1, SameCurrent DEF Cat!Fresh, Cat!At, RestStands
  <2>6. Cat!Passes'
    BY <2>1, SamePass DEF Cat!Passes, RestStands
  <2>7. Cat!Reached'
    <3>1. ~Cat!Behind' => ~Cat!Behind
      BY DEF Cat!Behind, Cat!At, RestStands
    <3>2. Cat!At(Cat!Leaving \ {"unlist"}) => Cat!At(Cat!Leaving \ {"unlist"})'
      BY DEF Cat!At, RestStands, Cat!Leaving
    <3> QED BY <2>1, <3>1, <3>2, SameRows DEF Cat!Reached
  <2> QED BY <2>2, <2>3, <2>4, <2>5, <2>6, <2>7
<1> QED BY <1>1, <1>2, <1>3 DEF Cat!CatalogInv

LEMMA MovingOn ==
    ASSUME Cat!OursInv, Cat!CatalogInv, NEW c \in CatCallers,
           Cat!EnsureAccount(c) \/ Cat!EnsureKey(c) \/ Cat!CheckStored(c) \/ Cat!NewProxyClient(c)
    PROVE  Cat!CatalogInv'
<1>1. UNCHANGED <<inst, remote, accounts, stored, conf, sync, holder, due, mixed, slips>>
  BY DEF Cat!EnsureAccount, Cat!EnsureKey, Cat!CheckStored, Cat!NewProxyClient, Cat!store
<1>2. call[c].pc \in {"client", "account", "key", "check"} /\ (call[c].pc = "client" => conf)
  BY DEF Cat!EnsureAccount, Cat!EnsureKey, Cat!CheckStored, Cat!NewProxyClient
<1>3. \/ \E pc \in {"account", "newaccount", "newkey", "check", "rotate", "ready"} : Cat!Goto(c, pc)
      \/ call' = [call EXCEPT ![c].pc = "key", ![c].acct = Cat!First]
  BY DEF Cat!EnsureAccount, Cat!EnsureKey, Cat!CheckStored, Cat!NewProxyClient, Cat!Goto
<1>4. /\ RestStands(c) /\ call'[c].op = call[c].op
      /\ call'[c].pc \in {"account", "newaccount", "key", "newkey", "check", "rotate", "ready"}
  BY SMTT(60), <1>3, Going, GoingTo
<1> QED BY <1>1, <1>2, <1>4, CallMovesOn

\* An error in a pass, or before one.
LEMMA Failing ==
    ASSUME Cat!OursInv, Cat!CatalogInv, NEW c \in CatCallers, Cat!Fails(c)
    PROVE  Cat!CatalogInv'
<1>1. /\ call' = [call EXCEPT ![c] = Cat!Resting] /\ call[c].pc \in (Cat!Working \ {"store"}) \cup {"client"}
      /\ UNCHANGED <<inst, remote, accounts, stored, conf, due, mixed>> /\ holder' = (IF holder = c THEN None ELSE holder)
  BY DEF Cat!Fails, Cat!Failed, Cat!Ends
<1>2. (sync' = "failed" /\ slips' = slips \ {"unwritten"}) \/ (sync' = sync /\ slips' = slips \cup Cat!Unwritten)
  BY DEF Cat!Fails, Cat!Failed, Cat!WritesDown, Cat!LeavesNoResult
<1>3. RestStands(c) /\ call'[c].pc = "idle" /\ call'[c].op = "none"
  BY <1>1, Ending
<1>4. (sync' = "failed" \/ (sync' = sync /\ (sync = "ok" => "unwritten" \in slips'))) /\ slips \ {"unwritten"} \subseteq slips'
  BY <1>2 DEF Cat!Unwritten
<1>5. call[c].pc \in Cat!Working \cup {"client"} /\ call[c].pc # "store"
  BY <1>1
<1> QED BY <1>1, <1>3, <1>4, <1>5, GivesUp

\* A new secret that cannot be stored: no other is to be.
LEMMA StoreFailing ==
    ASSUME Cat!OursInv, Cat!CatalogInv, NEW c \in CatCallers, Cat!StoreFails(c)
    PROVE  Cat!CatalogInv'
<1>1. /\ call' = [call EXCEPT ![c] = Cat!Resting] /\ call[c].pc = "store" /\ holder' = (IF holder = c THEN None ELSE holder)
      /\ UNCHANGED <<inst, remote, accounts, stored, conf, due>>
      /\ ~mixed' => ~mixed /\ \A d \in CatCallers \ {c} : call[d].pc # "store"
  BY DEF Cat!StoreFails, Cat!MixedByStore
<1>2. \/ sync' = "failed" /\ slips' = (slips \ {"unwritten"}) \cup Cat!Tears
      \/ sync' = sync /\ slips' = slips \cup Cat!Unwritten \cup Cat!Tears
  BY DEF Cat!StoreFails
<1>3. RestStands(c) /\ call'[c].pc = "idle" /\ call'[c].op = "none"
  BY <1>1, Ending
<1>4. (sync' = "failed" \/ (sync' = sync /\ (sync = "ok" => "unwritten" \in slips'))) /\ slips \ {"unwritten"} \subseteq slips'
  BY <1>2 DEF Cat!Unwritten
<1>5. stored # 0 => "torn" \in slips'
  BY <1>2 DEF Cat!Tears
<1>6. call[c].pc \in Cat!Working
  BY <1>1 DEF Cat!Working
<1> QED BY <1>1, <1>3, <1>4, <1>5, <1>6, GivesUp

\* The lock is free, or its holder is in a pass.
LEMMA Locking ==
    ASSUME Cat!OursInv, Cat!CatalogInv, NEW c \in CatCallers, Cat!Lock(c)
    PROVE  Cat!CatalogInv'
<1>1. /\ call[c].pc = "lock" /\ call'[c].pc = "client" /\ call'[c].op = call[c].op /\ RestStands(c)
      /\ holder = None /\ holder' = c /\ UNCHANGED <<inst, remote, accounts, stored, conf, sync, due, mixed, slips>>
  BY Going DEF Cat!Lock, Cat!store
<1>2. \A d \in CatCallers : holder # d
  BY <1>1, CatalogAssumed DEF Cat!CatalogAssumption
<1>3. Cat!CallsRight'
  BY <1>1, <1>2 DEF Cat!CatalogInv, Cat!CallsRight, RestStands, Cat!Working, Cat!Leaving
<1>4. Cat!OwnersRight'
  BY <1>1, SameOwners DEF Cat!CatalogInv
<1>5. ASSUME ~mixed' PROVE Cat!Alone' /\ Cat!AccountsRight' /\ Cat!SecretsRight' /\ Cat!Fresh' /\ Cat!Passes' /\ Cat!Reached'
  <2>1. Cat!CallsRight /\ Cat!Alone /\ Cat!AccountsRight /\ Cat!SecretsRight /\ Cat!Fresh /\ Cat!Passes /\ Cat!Reached
    BY <1>1, <1>5 DEF Cat!CatalogInv
  <2>2. Cat!Alone'
    BY <1>1, <2>1 DEF Cat!Alone, RestStands
  <2>3. Cat!AccountsRight'
    BY <1>1, <2>1, SameKeys DEF Cat!AccountsRight, Cat!At, RestStands, Cat!Working
  <2>4. Cat!SecretsRight'
    BY <1>1, <2>1, SameKeys DEF Cat!SecretsRight, Cat!At, RestStands
  <2>5. Cat!Fresh'
    BY <1>1 DEF Cat!Fresh
  <2>6. Cat!Passes'
    BY <1>1, <2>1, SamePass DEF Cat!Passes, RestStands
  <2>7. Cat!Reached'
    BY <1>1, <1>2 DEF Cat!Reached
  <2> QED BY <2>2, <2>3, <2>4, <2>5, <2>6, <2>7
<1> QED BY <1>3, <1>4, <1>5 DEF Cat!CatalogInv

-----------------------------------------------------------------------------
(* Accounts and secrets.                                                   *)

\* A sequence of keys is no account that is not there.
LEMMA KeysAreSome == \A s \in Seq(Nat) : s # None
  BY CatalogAssumed DEF Cat!CatalogAssumption

LEMMA CatCounts == \A S : Cat!Cardinality(S) = Cardinality(S)
  BY DEF Cat!Cardinality, Cardinality

LEMMA MakesAccount ==
    ASSUME Cat!OursInv, Cat!SizesRight, Cat!CatalogInv, NEW c \in CatCallers, Cat!CreateAccount(c)
    PROVE  Cat!CatalogInv'
<1>1. PICK a \in 1..CatAccounts :
         a = 1 + Cat!Cardinality(Cat!Exist) /\ a \notin Cat!Exist /\ accounts' = [accounts EXCEPT ![a] = <<>>]
         /\ call' = [call EXCEPT ![c].pc = "key", ![c].acct = a]
  BY DEF Cat!CreateAccount
<1>2. /\ call[c].pc = "newaccount" /\ call'[c].pc = "key" /\ call'[c].op = call[c].op /\ RestStands(c)
      /\ (~mixed' => ~mixed /\ Cat!Exist = {}) /\ UNCHANGED <<inst, remote, stored, conf, sync, holder, due, slips>>
  BY <1>1, GoingTo DEF Cat!CreateAccount
<1>3. Cat!CallsRight'
  BY <1>2 DEF Cat!CatalogInv, Cat!CallsRight, RestStands, Cat!Working, Cat!Leaving
<1>4. Cat!OwnersRight'
  BY <1>2, SameOwners DEF Cat!CatalogInv
<1>5. ASSUME ~mixed' PROVE Cat!Alone' /\ Cat!AccountsRight' /\ Cat!SecretsRight' /\ Cat!Fresh' /\ Cat!Passes' /\ Cat!Reached'
  <2>1. Cat!CallsRight /\ Cat!Alone /\ Cat!AccountsRight /\ Cat!SecretsRight /\ Cat!Fresh /\ Cat!Passes /\ Cat!Reached /\ Cat!Exist = {}
    BY <1>2, <1>5 DEF Cat!CatalogInv
  <2>2. Cat!Alone'
    BY <1>2, <2>1 DEF Cat!Alone, RestStands
  <2>3. Cat!AccountsRight'
    <3>1. a = 1
      BY <1>1, <2>1, CatCounts, FS_EmptySet
    <3>2. Cat!Exist' \subseteq {1}
      <4>1. \A b \in 1..CatAccounts : b # a => accounts'[b] = accounts[b]
        BY <1>1 DEF Cat!SizesRight
      <4> QED BY <2>1, <3>1, <4>1 DEF Cat!Exist
    <3>3. conf /\ call[c].op # "disconnect"
      BY <1>2, <2>1 DEF Cat!AccountsRight, Cat!At, Cat!Working, Cat!CallsRight, Cat!Leaving
    <3>4. ~Cat!At({"proxykey", "secret", "settings"})'
      BY <1>2, <2>1 DEF Cat!Alone, Cat!At, Cat!CallsRight, Cat!Leaving, RestStands
    <3> QED BY <1>2, <3>2, <3>3, <3>4 DEF Cat!AccountsRight
  <2>4. Cat!SecretsRight'
    <3>1. Cat!Live = {}
      BY <2>1 DEF Cat!Live
    <3> QED BY <1>2, <2>1, <3>1 DEF Cat!SecretsRight, Cat!At, RestStands
  <2>5. Cat!Fresh'
    BY <1>2, <2>1, SameCurrent DEF Cat!Fresh, Cat!At, RestStands
  <2>6. Cat!Passes'
    BY <1>2, <2>1, SamePass DEF Cat!Passes, RestStands
  <2>7. Cat!Reached'
    <3>1. ~Cat!Behind' => ~Cat!Behind
      BY <1>2, <2>1 DEF Cat!Behind, Cat!At, RestStands, Cat!CallsRight
    <3>2. Cat!At(Cat!Leaving \ {"unlist"}) => Cat!At(Cat!Leaving \ {"unlist"})'
      BY <1>2 DEF Cat!At, RestStands, Cat!Leaving
    <3> QED BY <1>2, <2>1, <3>1, <3>2, SameRows DEF Cat!Reached
  <2> QED BY <2>2, <2>3, <2>4, <2>5, <2>6, <2>7
<1> QED BY <1>3, <1>4, <1>5 DEF Cat!CatalogInv

\* A new secret waits to be stored: one that works.
LEMMA NewSecretWaits ==
    ASSUME Cat!CatalogInv, NEW c \in CatCallers, RestStands(c), call[c].pc \in {"newkey", "rotate"}, call'[c].pc = "store",
           call'[c].op = call[c].op, ~mixed => call'[c].secret \in Cat!Live' /\ Cat!Exist' = Cat!Exist,
           UNCHANGED <<inst, remote, stored, conf, sync, holder, due, mixed, slips>>
    PROVE  Cat!CatalogInv'
<1>1. Cat!CallsRight'
  BY DEF Cat!CatalogInv, Cat!CallsRight, RestStands, Cat!Working, Cat!Leaving
<1>2. Cat!OwnersRight'
  BY SameOwners DEF Cat!CatalogInv
<1>3. ASSUME ~mixed' PROVE Cat!Alone' /\ Cat!AccountsRight' /\ Cat!SecretsRight' /\ Cat!Fresh' /\ Cat!Passes' /\ Cat!Reached'
  <2>1. Cat!CallsRight /\ Cat!Alone /\ Cat!AccountsRight /\ Cat!SecretsRight /\ Cat!Fresh /\ Cat!Passes /\ Cat!Reached
    BY <1>3 DEF Cat!CatalogInv
  <2>2. Cat!Alone'
    BY <2>1 DEF Cat!Alone, RestStands
  <2>3. Cat!AccountsRight'
    BY <1>3, <2>1 DEF Cat!AccountsRight, Cat!At, RestStands, Cat!Working
  <2>4. Cat!SecretsRight'
    BY <1>3, <2>1 DEF Cat!SecretsRight, Cat!At, RestStands
  <2>5. Cat!Fresh'
    BY <2>1, SameCurrent DEF Cat!Fresh, Cat!At, RestStands
  <2>6. Cat!Passes'
    BY <2>1, SamePass DEF Cat!Passes, RestStands
  <2>7. Cat!Reached'
    <3>1. ~Cat!Behind' => ~Cat!Behind
      BY <2>1 DEF Cat!Behind, Cat!At, RestStands, Cat!CallsRight, Cat!Working, Cat!Leaving
    <3>2. Cat!At(Cat!Leaving \ {"unlist"}) => Cat!At(Cat!Leaving \ {"unlist"})'
      BY DEF Cat!At, RestStands, Cat!Leaving
    <3> QED BY <2>1, <3>1, <3>2, SameRows DEF Cat!Reached
  <2> QED BY <2>2, <2>3, <2>4, <2>5, <2>6, <2>7
<1> QED BY <1>1, <1>2, <1>3 DEF Cat!CatalogInv

\* An account whose keys are replaced by others that have the new secret.
LEMMA SecretLives ==
    ASSUME Cat!SizesRight, NEW a \in Cat!Exist, NEW s \in Nat, NEW t \in Seq(Nat), s \in Cat!Range(t), accounts' = [accounts EXCEPT ![a] = t]
    PROVE  Cat!Exist' = Cat!Exist /\ s \in Cat!Live'
<1>1. accounts'[a] = t /\ \A b \in 1..CatAccounts : b # a => accounts'[b] = accounts[b]
  BY DEF Cat!SizesRight, Cat!Exist
<1>2. Cat!Exist' = Cat!Exist
  BY <1>1, KeysAreSome DEF Cat!Exist
<1> QED BY <1>1, <1>2 DEF Cat!Live

LEMMA SomeKeys ==
    ASSUME Cat!SizesRight, NEW a \in Cat!Exist
    PROVE  accounts[a] \in Seq(Nat) /\ accounts[a] \in Seq(1..secrets)
<1>1. accounts[a] \in Seq(1..secrets)
  BY DEF Cat!SizesRight, Cat!Exist
<1>2. secrets \in Nat
  BY DEF Cat!SizesRight
<1> QED BY <1>1, <1>2

LEMMA GivesSecret ==
    ASSUME Cat!OursInv, Cat!SizesRight, Cat!CatalogInv, NEW c \in CatCallers, Cat!CreateKey(c) \/ Cat!RotateSecret(c)
    PROVE  Cat!CatalogInv'
<1>1. UNCHANGED <<inst, remote, stored, conf, sync, holder, due, mixed, slips>> /\ call[c].pc \in {"newkey", "rotate"} /\ secrets \in Nat
  BY DEF Cat!CreateKey, Cat!RotateSecret, Cat!SizesRight
<1>2. ASSUME NEW a \in Cat!Exist, NEW t \in Seq(Nat), secrets' \in Cat!Range(t), accounts' = [accounts EXCEPT ![a] = t], Cat!NewSecret(c)
      PROVE  Cat!CatalogInv'
  <2>1. secrets' \in Nat
    BY <1>1, <1>2 DEF Cat!NewSecret
  <2>2. Cat!Exist' = Cat!Exist /\ secrets' \in Cat!Live'
    BY <1>2, <2>1, SecretLives
  <2>3. RestStands(c) /\ call'[c].pc = "store" /\ call'[c].op = call[c].op /\ call'[c].secret = secrets'
    BY ZenonT(60), <1>2, GoingWith DEF Cat!NewSecret
  <2> QED BY <1>1, <1>2, <2>2, <2>3, NewSecretWaits
<1>3. CASE Cat!CreateKey(c)
  <2> DEFINE a == call[c].acct
             t == <<secrets'>> \o accounts[a]
  <2>1. accounts' = [accounts EXCEPT ![a] = t] /\ Cat!NewSecret(c) /\ a \in Cat!Exist
    BY <1>3 DEF Cat!CreateKey, Cat!SizesRight
  <2>2. accounts[a] \in Seq(Nat) /\ secrets' \in Nat
    BY <1>1, <2>1, SomeKeys DEF Cat!NewSecret
  <2>3. t \in Seq(Nat) /\ Len(t) = 1 + Len(accounts[a]) /\ t[1] = secrets'
    BY <2>2
  <2>4. secrets' \in Cat!Range(t)
    BY <2>2, <2>3 DEF Cat!Range
  <2> QED BY <1>2, <2>1, <2>3, <2>4
<1>4. CASE Cat!RotateSecret(c)
  <2>1. PICK a : Cat!HasKey(a) /\ Cat!NewSecret(c) /\ accounts' = [accounts EXCEPT ![a][1] = secrets']
    BY <1>4 DEF Cat!RotateSecret
  <2> DEFINE t == [accounts[a] EXCEPT ![1] = secrets']
  <2>2. a \in Cat!Exist /\ accounts[a] \in Seq(Nat) /\ accounts[a] # <<>> /\ secrets' \in Nat
    BY <1>1, <2>1, SomeKeys DEF Cat!NewSecret, Cat!HasKey
  <2>3. accounts' = [accounts EXCEPT ![a] = t]
    BY <2>1
  <2>4. t \in Seq(Nat) /\ 1 \in DOMAIN t /\ t[1] = secrets'
    BY <2>2
  <2>5. secrets' \in Cat!Range(t)
    BY <2>4 DEF Cat!Range
  <2> QED BY <1>2, <2>1, <2>2, <2>3, <2>4, <2>5
<1> QED BY <1>3, <1>4

\* What is stored was to be stored by this caller alone.
LEMMA StoresSecret ==
    ASSUME Cat!OursInv, Cat!CatalogInv, NEW c \in CatCallers, Cat!StoreSecret(c)
    PROVE  Cat!CatalogInv'
<1>1. /\ call[c].pc = "store" /\ stored' = call[c].secret /\ RestStands(c) /\ call'[c].op = call[c].op
      /\ call'[c].pc = IF call[c].op = "rotate" /\ holder # c THEN "lock" ELSE "ready"
      /\ UNCHANGED <<inst, remote, accounts, conf, sync, holder, due>>
  BY Going DEF Cat!StoreSecret
<1>2. ~mixed' => ~mixed /\ (\A d \in CatCallers \ {c} : call[d].pc # "store") /\ (call[c].op = "save" => holder = None)
  BY DEF Cat!StoreSecret, Cat!MixedByStore
<1>3. Cat!CallsRight'
  BY <1>1 DEF Cat!CatalogInv, Cat!CallsRight, RestStands, Cat!Working, Cat!Leaving
<1>4. Cat!OwnersRight'
  BY <1>1, SameOwners DEF Cat!CatalogInv
<1>5. ASSUME ~mixed' PROVE Cat!Alone' /\ Cat!AccountsRight' /\ Cat!SecretsRight' /\ Cat!Fresh' /\ Cat!Passes' /\ Cat!Reached'
  <2>1. Cat!CallsRight /\ Cat!Alone /\ Cat!AccountsRight /\ Cat!SecretsRight /\ Cat!Fresh /\ Cat!Passes /\ Cat!Reached
    BY <1>2, <1>5 DEF Cat!CatalogInv
  <2>2. Cat!Alone'
    BY <1>1, <2>1 DEF Cat!Alone, RestStands
  <2>3. Cat!AccountsRight'
    BY <1>1, <2>1, SameKeys DEF Cat!AccountsRight, Cat!At, RestStands, Cat!Working
  <2>4. Cat!SecretsRight'
    <3>1. stored' \in Cat!Live
      BY <1>1, <1>2, <1>5, <2>1 DEF Cat!SecretsRight
    <3>2. \A d \in CatCallers : call'[d].pc # "store"
      BY <1>1, <1>2, <1>5 DEF RestStands
    <3> QED BY <1>1, <3>1, <3>2, SameKeys DEF Cat!SecretsRight
  <2>5. Cat!Fresh'
    <3>1. ASSUME NEW d \in CatCallers, holder' = d, call'[d].pc \in {"list", "publish"}, ~Cat!At({"lock"})' PROVE FALSE
      <4>1. d # c /\ holder = d /\ holder # c
        BY <1>1, <3>1
      <4>2. call'[c].pc = "ready"
        BY <1>1, <3>1 DEF Cat!At
      <4>3. call[c].op \notin {"sync", "none", "disconnect", "rotate"}
        BY <1>1, <2>1, <4>1, <4>2 DEF Cat!CallsRight, Cat!Leaving
      <4>4. call[c].op = "save"
        BY <4>3 DEF Cat!OursInv, Cat!Caller, Cat!Ops
      <4> QED BY <1>2, <1>5, <4>1, <4>4, CatalogAssumed DEF Cat!CatalogAssumption
    <3> QED BY <3>1 DEF Cat!Fresh
  <2>6. Cat!Passes'
    BY <1>1, <2>1, SamePass DEF Cat!Passes, RestStands
  <2>7. Cat!Reached'
    <3>1. call[c].op \notin {"none", "disconnect"} /\ (call[c].op = "sync" => holder = c)
      BY <1>1, <2>1 DEF Cat!CallsRight, Cat!Leaving
    <3>2. call[c].op \in {"sync", "rotate", "save"}
      BY <3>1 DEF Cat!OursInv, Cat!Caller, Cat!Ops
    <3>3. Cat!Behind'
      BY <1>1, <3>1, <3>2 DEF Cat!Behind, Cat!At
    <3> QED BY <3>3 DEF Cat!Reached
  <2> QED BY <2>2, <2>3, <2>4, <2>5, <2>6, <2>7
<1> QED BY <1>3, <1>4, <1>5 DEF Cat!CatalogInv

-----------------------------------------------------------------------------
(* The pass over the rows.                                                 *)

\* The principal is in place: a save goes on to its pass.
LEMMA SaveGoesOn ==
    ASSUME Cat!OursInv, Cat!CatalogInv, NEW c \in CatCallers, call[c].pc = "ready", holder # c, RestStands(c),
           call'[c].pc = "lock", call'[c].op = call[c].op,
           UNCHANGED <<inst, remote, accounts, stored, conf, sync, holder, due, mixed, slips>>
    PROVE  Cat!CatalogInv'
<1>1. Cat!CallsRight'
  BY DEF Cat!CatalogInv, Cat!CallsRight, RestStands, Cat!Working, Cat!Leaving
<1>2. Cat!OwnersRight'
  BY SameOwners DEF Cat!CatalogInv
<1>3. ASSUME ~mixed' PROVE Cat!Alone' /\ Cat!AccountsRight' /\ Cat!SecretsRight' /\ Cat!Fresh' /\ Cat!Passes' /\ Cat!Reached'
  <2>1. Cat!CallsRight /\ Cat!Alone /\ Cat!AccountsRight /\ Cat!SecretsRight /\ Cat!Fresh /\ Cat!Passes /\ Cat!Reached
    BY <1>3 DEF Cat!CatalogInv
  <2>2. Cat!Alone'
    BY <2>1 DEF Cat!Alone, RestStands
  <2>3. Cat!AccountsRight'
    BY <2>1, SameKeys DEF Cat!AccountsRight, Cat!At, RestStands, Cat!Working
  <2>4. Cat!SecretsRight'
    BY <2>1, SameKeys DEF Cat!SecretsRight, Cat!At, RestStands
  <2>5. Cat!Fresh' /\ Cat!Reached'
    BY DEF Cat!Fresh, Cat!Reached, Cat!Behind, Cat!At
  <2>6. Cat!Passes'
    BY <2>1, SamePass DEF Cat!Passes, RestStands
  <2> QED BY <2>2, <2>3, <2>4, <2>5, <2>6
<1> QED BY <1>1, <1>2, <1>3 DEF Cat!CatalogInv

\* A pass reads what it will work with, which is what there is.
LEMMA ReadsAll ==
    ASSUME Cat!CatalogInv, NEW c \in CatCallers, call[c].pc = "ready", holder = c, RestStands(c), call'[c].pc = "list",
           call'[c].op = call[c].op, call'[c].secret = stored, call'[c].want = Cat!EnabledNow, slips' = slips \ {"unheard"},
           UNCHANGED <<inst, remote, accounts, stored, conf, sync, holder, due, mixed>>
    PROVE  Cat!CatalogInv'
<1>1. Cat!CallsRight'
  BY DEF Cat!CatalogInv, Cat!CallsRight, RestStands, Cat!Working, Cat!Leaving
<1>2. Cat!OwnersRight'
  BY SameOwners DEF Cat!CatalogInv
<1>3. ASSUME ~mixed' PROVE Cat!Alone' /\ Cat!AccountsRight' /\ Cat!SecretsRight' /\ Cat!Fresh' /\ Cat!Passes' /\ Cat!Reached'
  <2>1. Cat!CallsRight /\ Cat!Alone /\ Cat!AccountsRight /\ Cat!SecretsRight /\ Cat!Fresh /\ Cat!Passes /\ Cat!Reached
    BY <1>3 DEF Cat!CatalogInv
  <2>2. Cat!Alone'
    BY <2>1 DEF Cat!Alone, RestStands
  <2>3. Cat!AccountsRight'
    BY <2>1, SameKeys DEF Cat!AccountsRight, Cat!At, RestStands, Cat!Working
  <2>4. Cat!SecretsRight'
    BY <2>1, SameKeys DEF Cat!SecretsRight, Cat!At, RestStands
  <2>5. Cat!Fresh'
    <3>1. Cat!EnabledNow' = Cat!EnabledNow
      BY DEF Cat!EnabledNow
    <3>2. Cat!Current(call[c])'
      BY <3>1 DEF Cat!Current
    <3> QED BY <3>2 DEF Cat!Fresh
  <2>6. Cat!Passes'
    BY <2>1, SamePass DEF Cat!Passes, RestStands
  <2>7. Cat!Reached'
    BY CatalogAssumed DEF Cat!Reached, Cat!CatalogAssumption
  <2> QED BY <2>2, <2>3, <2>4, <2>5, <2>6, <2>7
<1> QED BY <1>1, <1>2, <1>3 DEF Cat!CatalogInv

LEMMA Principals ==
    ASSUME Cat!OursInv, Cat!CatalogInv, NEW c \in CatCallers, Cat!Principal(c)
    PROVE  Cat!CatalogInv'
<1>1. call[c].pc = "ready" /\ UNCHANGED <<inst, remote, accounts, stored, conf, holder, due, mixed>>
  BY DEF Cat!Principal
<1>2. CASE holder # c /\ Cat!Goto(c, "lock") /\ UNCHANGED <<sync, slips>>
  BY <1>1, <1>2, Going, SaveGoesOn
<1>3. CASE holder # c /\ call' = [call EXCEPT ![c] = Cat!Resting] /\ Cat!WritesDown("failed")
  <2>1. RestStands(c) /\ call'[c].pc = "idle" /\ call'[c].op = "none"
    BY <1>3, Ending
  <2>2. sync' = "failed" /\ slips \ {"unwritten"} \subseteq slips' /\ call[c].pc \in Cat!Working
    BY <1>1, <1>3 DEF Cat!WritesDown, Cat!Working
  <2> QED BY <1>1, <1>3, <2>1, <2>2, GivesUp
<1>4. CASE holder = c /\ slips' = slips \ {"unheard"} /\ sync' = sync
           /\ call' = [call EXCEPT ![c].pc = "list", ![c].secret = stored, ![c].want = Cat!EnabledNow]
  <2>1. RestStands(c) /\ call'[c].pc = "list" /\ call'[c].op = call[c].op /\ call'[c].secret = stored /\ call'[c].want = Cat!EnabledNow
    <3>1. call \in [CatCallers -> Cat!Caller] /\ call' = [call EXCEPT ![c] = [call[c] EXCEPT !.pc = "list", !.secret = stored, !.want = Cat!EnabledNow]]
      BY <1>4 DEF Cat!OursInv
    <3>2. call'[c] = [call[c] EXCEPT !.pc = "list", !.secret = stored, !.want = Cat!EnabledNow] /\ RestStands(c)
      BY <3>1 DEF RestStands
    <3>3. \A w : \A x \in Cat!Caller : LET y == [x EXCEPT !.pc = "list", !.secret = stored, !.want = w]
                               IN y.pc = "list" /\ y.op = x.op /\ y.secret = stored /\ y.want = w
      BY DEF Cat!Caller
    <3> QED BY <3>1, <3>2, <3>3
  <2> QED BY <1>1, <1>4, <2>1, ReadsAll
<1> QED BY <1>2, <1>3, <1>4 DEF Cat!Principal

\* A pass at its rows: what the rest of the invariant needs of a step of it.
LEMMA AtItsRows ==
    ASSUME Cat!CatalogInv, NEW c \in CatCallers, RestStands(c), call[c].pc \in {"list", "publish"}, holder = c,
           call'[c].pc = "publish", call'[c].op = call[c].op, call'[c].want = call[c].want, call'[c].secret = call[c].secret,
           Cat!OwnersRight', ~mixed => Cat!PassRight(call[c])',
           UNCHANGED <<inst, accounts, stored, conf, sync, holder, due, mixed, slips>>
    PROVE  Cat!CatalogInv'
<1>1. Cat!CallsRight'
  BY DEF Cat!CatalogInv, Cat!CallsRight, RestStands, Cat!Working, Cat!Leaving
<1>2. ASSUME ~mixed' PROVE Cat!Alone' /\ Cat!AccountsRight' /\ Cat!SecretsRight' /\ Cat!Fresh' /\ Cat!Passes' /\ Cat!Reached'
  <2>1. Cat!CallsRight /\ Cat!Alone /\ Cat!AccountsRight /\ Cat!SecretsRight /\ Cat!Fresh /\ Cat!Passes /\ Cat!Reached
    BY <1>2 DEF Cat!CatalogInv
  <2>2. Cat!Alone'
    BY <2>1 DEF Cat!Alone, RestStands
  <2>3. Cat!AccountsRight'
    BY <2>1, SameKeys DEF Cat!AccountsRight, Cat!At, RestStands, Cat!Working
  <2>4. Cat!SecretsRight'
    BY <2>1, SameKeys DEF Cat!SecretsRight, Cat!At, RestStands
  <2>5. Cat!Fresh'
    <3>1. Cat!EnabledNow' = Cat!EnabledNow
      BY DEF Cat!EnabledNow
    <3>2. ~Cat!At({"lock"})' => ~Cat!At({"lock"})
      BY DEF Cat!At, RestStands
    <3>3. Cat!Current(call[c]) => Cat!Current(call[c])'
      BY <3>1 DEF Cat!Current
    <3> QED BY <2>1, <3>2, <3>3 DEF Cat!Fresh
  <2>6. Cat!Passes'
    <3>1. \A d \in CatCallers : d # c => call'[d].pc # "publish"
      BY <2>1 DEF Cat!CallsRight, RestStands
    <3> QED BY <1>2, <3>1 DEF Cat!Passes
  <2>7. Cat!Reached'
    BY CatalogAssumed DEF Cat!Reached, Cat!CatalogAssumption
  <2> QED BY <2>2, <2>3, <2>4, <2>5, <2>6, <2>7
<1> QED BY <1>1, <1>2 DEF Cat!CatalogInv

\* Whom a row stands for depends on the instances as the pass has read them.
LEMMA SameStands == ASSUME NEW x, NEW y, x.want = y.want PROVE \A r : Cat!StandsFor(x, r) = Cat!StandsFor(y, r)
  BY DEF Cat!StandsFor, Cat!ByName

\* The list is what there is.
LEMMA ListStarts ==
    ASSUME NEW x, NEW y, x.want = y.want, x.seen = remote, x.todo = {i \in CatInsts : y.want[i] # None},
           x.drop = {e \in Entries : Cat!IsManaged(remote[e]) /\ Cat!StandsFor(y, remote[e]) = {}}
    PROVE  Cat!PassRight(x)
  BY SameStands DEF Cat!PassRight, Cat!Alien

\* A row that is published belongs to an instance.
LEMMA PublishedIs ==
    ASSUME Cat!OursInv, NEW c \in CatCallers, NEW i \in CatInsts
    PROVE  LET r == Cat!Published(call[c], i) IN r # None /\ r.owner = i /\ Cat!RowFor(r, i, call[c].want[i], call[c].secret)
<1>1. call[c] \in Cat!Caller
  BY DEF Cat!OursInv
<1>2. call[c].want[i] \in Names \cup {None} /\ call[c].secret \in Nat
  BY <1>1 DEF Cat!Caller
<1>3. Cat!Published(call[c], i) \in Cat!Row
  BY <1>2 DEF Cat!Published, Cat!Row
<1>4. Cat!Published(call[c], i) # None
  BY <1>3, CatalogAssumed DEF Cat!CatalogAssumption
<1>5. LET r == Cat!Published(call[c], i) IN r.managed /\ r.owner = i /\ r.name = call[c].want[i] /\ r.key = call[c].secret
  BY DEF Cat!Published
<1> QED BY <1>4, <1>5 DEF Cat!RowFor, Cat!IsManaged

\* A row is written for an instance: a new one, or the one it was found at.
LEMMA WritesRow ==
    ASSUME Cat!OursInv, NEW c \in CatCallers, Cat!PassRight(call[c]), NEW i \in call[c].todo, NEW e \in Entries,
           call'[c].want = call[c].want, call'[c].secret = call[c].secret, call'[c].seen = call[c].seen,
           call'[c].drop = call[c].drop, call'[c].todo = call[c].todo \ {i},
           remote' = [remote EXCEPT ![e] = Cat!Published(call[c], i)],
           remote[e] = None \/ (Cat!IsManaged(call[c].seen[e]) /\ Cat!StandsFor(call[c], call[c].seen[e]) = {i})
    PROVE  Cat!PassRight(call[c])' /\ (Cat!OwnersRight => Cat!OwnersRight')
<1> DEFINE y == call[c]
           x == call'[c]
<1>1. \A r : Cat!StandsFor(x, r) = Cat!StandsFor(y, r)
  BY SameStands
<1>2. i \in CatInsts /\ y.want[i] # None
  BY DEF Cat!PassRight
<1>3. remote'[e] = Cat!Published(y, i) /\ \A k \in Entries : k # e => remote'[k] = remote[k]
  BY DEF Cat!OursInv
<1>4. remote'[e] # None /\ remote'[e].owner = i /\ Cat!RowFor(remote'[e], i, y.want[i], y.secret)
  BY <1>2, <1>3, PublishedIs
<1>5. y.seen[e] = None \/ (Cat!IsManaged(y.seen[e]) /\ Cat!StandsFor(y, y.seen[e]) = {i})
  BY DEF Cat!PassRight
<1>6. \A k \in Entries : Cat!Alien(x, k) <=> Cat!Alien(y, k)
  BY <1>1 DEF Cat!Alien
<1>7. ~Cat!Alien(y, e)
  BY <1>5 DEF Cat!Alien, Cat!IsManaged
<1>8. ASSUME NEW j \in CatInsts \ x.todo, x.want[j] # None
      PROVE  \E k \in Entries : Cat!RowFor(remote'[k], j, x.want[j], x.secret) /\ (x.seen[k] = None \/ Cat!StandsFor(x, x.seen[k]) = {j})
  <2>1. CASE j = i
    BY SMTT(60), <1>1, <1>4, <1>5, <2>1
  <2>2. CASE j # i
    <3>1. PICK k \in Entries : Cat!RowFor(remote[k], j, y.want[j], y.secret) /\ (y.seen[k] = None \/ Cat!StandsFor(y, y.seen[k]) = {j})
      BY <1>8, <2>2 DEF Cat!PassRight
    <3>2. remote[k] # None
      BY <3>1 DEF Cat!RowFor, Cat!IsManaged
    <3>3. k # e
      BY <2>2, <3>1, <3>2 DEF Cat!IsManaged
    <3> QED BY SMTT(60), <1>1, <1>3, <3>1, <3>3
  <2> QED BY <2>1, <2>2
<1>9. \A k \in Entries : remote'[k] = None => remote[k] = None
  BY <1>3, <1>4
<1>10. x.todo \subseteq {j \in CatInsts : x.want[j] # None} /\ \A k \in x.drop : Cat!Alien(x, k)
  <2>1. \A k \in y.drop : Cat!Alien(y, k)
    BY DEF Cat!PassRight
  <2>2. \A k \in x.drop : Cat!Alien(x, k)
    BY <1>1, <2>1 DEF Cat!Alien
  <2> QED BY <2>2 DEF Cat!PassRight
<1>11. x.todo # {} => \A k \in Entries : remote'[k] = None => x.seen[k] = None
  BY <1>9 DEF Cat!PassRight
<1>12. \A k \in Entries : \A j \in x.todo : Cat!IsManaged(x.seen[k]) /\ Cat!StandsFor(x, x.seen[k]) = {j} => remote'[k] = x.seen[k]
  <2>1. \A k \in Entries : \A j \in y.todo : Cat!IsManaged(y.seen[k]) /\ Cat!StandsFor(y, y.seen[k]) = {j} => remote[k] = y.seen[k]
    BY DEF Cat!PassRight
  <2>2. \A j \in x.todo : ~(Cat!IsManaged(y.seen[e]) /\ Cat!StandsFor(y, y.seen[e]) = {j})
    BY <1>5 DEF Cat!IsManaged
  <2> QED BY SMTT(60), <1>1, <1>3, <2>1, <2>2
<1>13. \A k \in Entries : Cat!IsManaged(remote'[k]) => remote'[k] = x.seen[k] \/ \E j \in CatInsts : x.want[j] # None /\ remote'[k].owner = j
  <2>1. \A k \in Entries : Cat!IsManaged(remote[k]) => remote[k] = y.seen[k] \/ \E j \in CatInsts : y.want[j] # None /\ remote[k].owner = j
    BY DEF Cat!PassRight
  <2> QED BY SMTT(60), <1>2, <1>3, <1>4, <2>1
<1>14. \A k \in Entries : Cat!Alien(x, k) => k \in x.drop \/ remote'[k] = None
  <2>1. \A k \in Entries : Cat!Alien(y, k) => k \in y.drop \/ remote[k] = None
    BY DEF Cat!PassRight
  <2> QED BY SMTT(60), <1>3, <1>6, <1>7, <2>1
<1>15. Cat!PassRight(call[c])'
  BY <1>8, <1>10, <1>11, <1>12, <1>13, <1>14 DEF Cat!PassRight, Cat!Alien, Cat!RowFor
<1>16. Cat!OwnersRight => Cat!OwnersRight'
  BY <1>2, <1>3, <1>4 DEF Cat!OwnersRight
<1> QED BY <1>15, <1>16

LEMMA PassNext == ASSUME NEW c, UNCHANGED remote, Cat!PassRight(call'[c]) PROVE Cat!PassRight(call[c])'
  BY SMTT(60) DEF Cat!PassRight, Cat!Alien, Cat!RowFor

\* The row an instance was found at is as it should be.
LEMMA LeavesRow ==
    ASSUME Cat!OursInv, NEW c \in CatCallers, Cat!PassRight(call[c]), NEW i \in call[c].todo, NEW e \in Cat!Candidates(call[c], i),
           call'[c].want = call[c].want, call'[c].secret = call[c].secret, call'[c].seen = call[c].seen,
           call'[c].drop = call[c].drop, call'[c].todo = call[c].todo \ {i}, ~Cat!Drifted(call[c], i, call[c].seen[e]),
           UNCHANGED remote
    PROVE  Cat!PassRight(call[c])'
<1> DEFINE y == call[c]
           x == call'[c]
<1>1. \A r : Cat!StandsFor(x, r) = Cat!StandsFor(y, r)
  BY SameStands
<1>2. e \in Entries /\ Cat!IsManaged(y.seen[e]) /\ Cat!StandsFor(y, y.seen[e]) = {i}
  BY DEF Cat!Candidates
<1>3. remote[e] = y.seen[e]
  BY <1>2 DEF Cat!PassRight
<1>4. Cat!RowFor(remote[e], i, x.want[i], x.secret) /\ Cat!StandsFor(x, x.seen[e]) = {i}
  BY <1>1, <1>2, <1>3 DEF Cat!RowFor, Cat!Drifted
<1>5. \A j \in CatInsts \ x.todo : x.want[j] # None =>
          \E k \in Entries : Cat!RowFor(remote[k], j, x.want[j], x.secret) /\ (x.seen[k] = None \/ Cat!StandsFor(x, x.seen[k]) = {j})
  <2>1. \A j \in CatInsts \ y.todo : y.want[j] # None =>
          \E k \in Entries : Cat!RowFor(remote[k], j, y.want[j], y.secret) /\ (y.seen[k] = None \/ Cat!StandsFor(y, y.seen[k]) = {j})
    BY DEF Cat!PassRight
  <2> QED BY <1>1, <1>2, <1>4, <2>1
<1>6. \A k \in Entries : Cat!Alien(x, k) <=> Cat!Alien(y, k)
  BY <1>1 DEF Cat!Alien
<1>7. \A k \in y.drop : Cat!Alien(x, k)
  BY <1>1 DEF Cat!PassRight, Cat!Alien
<1>8. x.todo \subseteq {j \in CatInsts : x.want[j] # None} /\ (x.todo # {} => \A k \in Entries : remote[k] = None => x.seen[k] = None)
  BY DEF Cat!PassRight
<1>9. \A k \in Entries : \A j \in x.todo : Cat!IsManaged(x.seen[k]) /\ Cat!StandsFor(x, x.seen[k]) = {j} => remote[k] = x.seen[k]
  BY <1>1 DEF Cat!PassRight
<1>10. \A k \in Entries : Cat!IsManaged(remote[k]) => remote[k] = x.seen[k] \/ \E j \in CatInsts : x.want[j] # None /\ remote[k].owner = j
  BY DEF Cat!PassRight
<1>11. \A k \in Entries : Cat!Alien(x, k) => k \in x.drop \/ remote[k] = None
  BY SMTT(60), <1>6 DEF Cat!PassRight
<1>12. Cat!PassRight(x)
  BY <1>5, <1>7, <1>8, <1>9, <1>10, <1>11 DEF Cat!PassRight
<1> QED BY <1>12, PassNext

\* A row that stands for nobody is taken out once all are published.
LEMMA DropsRow ==
    ASSUME Cat!OursInv, NEW c \in CatCallers, Cat!PassRight(call[c]), call[c].todo = {}, NEW e \in call[c].drop,
           call'[c].want = call[c].want, call'[c].secret = call[c].secret, call'[c].seen = call[c].seen,
           call'[c].todo = call[c].todo, call'[c].drop = call[c].drop \ {e}, remote' = [remote EXCEPT ![e] = None]
    PROVE  Cat!PassRight(call[c])'
<1> DEFINE y == call[c]
           x == call'[c]
<1>1. \A r : Cat!StandsFor(x, r) = Cat!StandsFor(y, r)
  BY SameStands
<1>2. e \in Entries /\ call[c] \in Cat!Caller
  BY DEF Cat!OursInv, Cat!Caller
<1>3. remote'[e] = None /\ \A k \in Entries : k # e => remote'[k] = remote[k]
  BY <1>2 DEF Cat!OursInv
<1>4. Cat!Alien(y, e)
  BY DEF Cat!PassRight
<1>5. \A k \in Entries : Cat!Alien(x, k) <=> Cat!Alien(y, k)
  BY <1>1 DEF Cat!Alien
<1>6. ASSUME NEW j \in CatInsts \ x.todo, x.want[j] # None
      PROVE  \E k \in Entries : Cat!RowFor(remote'[k], j, x.want[j], x.secret) /\ (x.seen[k] = None \/ Cat!StandsFor(x, x.seen[k]) = {j})
  <2>1. PICK k \in Entries : Cat!RowFor(remote[k], j, y.want[j], y.secret) /\ (y.seen[k] = None \/ Cat!StandsFor(y, y.seen[k]) = {j})
    BY <1>6 DEF Cat!PassRight
  <2>2. k # e
    BY <1>4, <2>1 DEF Cat!Alien, Cat!IsManaged
  <2> QED BY <1>1, <1>3, <2>1, <2>2
<1>7. \A k \in x.drop : Cat!Alien(x, k)
  <2>1. \A k \in y.drop : Cat!Alien(y, k)
    BY DEF Cat!PassRight
  <2> QED BY <1>1, <2>1 DEF Cat!Alien
<1>8. \A k \in Entries : Cat!IsManaged(remote'[k]) => remote'[k] = x.seen[k] \/ \E j \in CatInsts : x.want[j] # None /\ remote'[k].owner = j
  <2>1. \A k \in Entries : Cat!IsManaged(remote[k]) => remote[k] = y.seen[k] \/ \E j \in CatInsts : y.want[j] # None /\ remote[k].owner = j
    BY DEF Cat!PassRight
  <2>2. ~Cat!IsManaged(remote'[e])
    BY <1>3 DEF Cat!IsManaged
  <2> QED BY <1>3, <2>1, <2>2
<1>9. \A k \in Entries : Cat!Alien(x, k) => k \in x.drop \/ remote'[k] = None
  <2>1. \A k \in Entries : Cat!Alien(y, k) => k \in y.drop \/ remote[k] = None
    BY DEF Cat!PassRight
  <2> QED BY <1>3, <1>5, <2>1
<1> QED BY <1>6, <1>7, <1>8, <1>9 DEF Cat!PassRight, Cat!Alien, Cat!RowFor

\* A row less is as good.
LEMMA OwnersLess ==
    ASSUME Cat!OursInv, NEW e \in Entries, remote' = [remote EXCEPT ![e] = None], Cat!OwnersRight
    PROVE  Cat!OwnersRight'
<1>1. remote'[e] = None /\ \A k \in Entries : k # e => remote'[k] = remote[k]
  BY DEF Cat!OursInv
<1> QED BY <1>1 DEF Cat!OwnersRight, Cat!IsManaged

\* What a caller has to do changes, and nothing else of it.
LEMMA Lists ==
    ASSUME Cat!OursInv, Cat!CatalogInv, NEW c \in CatCallers, Cat!List(c)
    PROVE  Cat!CatalogInv'
<1> DEFINE T == {i \in CatInsts : call[c].want[i] # None}
           Outs == {e \in Entries : Cat!IsManaged(remote[e]) /\ Cat!StandsFor(call[c], remote[e]) = {}}
<1>1. /\ call[c].pc = "list" /\ UNCHANGED <<inst, remote, accounts, stored, conf, sync, holder, due, mixed, slips>>
      /\ call' = [call EXCEPT ![c].pc = "publish", ![c].seen = remote, ![c].todo = T, ![c].drop = Outs]
  BY DEF Cat!List, Cat!store
<1>2. holder = c
  BY <1>1 DEF Cat!CatalogInv, Cat!CallsRight
<1> HIDE DEF T, Outs
<1>3. /\ RestStands(c) /\ call'[c].pc = "publish" /\ call'[c].op = call[c].op /\ call'[c].secret = call[c].secret
      /\ call'[c].want = call[c].want /\ call'[c].seen = remote /\ call'[c].todo = T /\ call'[c].drop = Outs
  <2>1. call \in [CatCallers -> Cat!Caller] /\ call' = [call EXCEPT ![c] = [call[c] EXCEPT !.pc = "publish", !.seen = remote, !.todo = T, !.drop = Outs]]
    BY <1>1 DEF Cat!OursInv
  <2>2. call'[c] = [call[c] EXCEPT !.pc = "publish", !.seen = remote, !.todo = T, !.drop = Outs] /\ RestStands(c)
    BY <2>1 DEF RestStands
  <2>3. \A s : \A x \in Cat!Caller : LET y == [x EXCEPT !.pc = "publish", !.seen = s, !.todo = T, !.drop = Outs]
                             IN y.pc = "publish" /\ y.op = x.op /\ y.secret = x.secret /\ y.want = x.want /\ y.seen = s /\ y.todo = T /\ y.drop = Outs
    BY DEF Cat!Caller
  <2> QED BY <2>1, <2>2, <2>3
<1>4. Cat!PassRight(call'[c])
  BY <1>3, ListStarts DEF T, Outs
<1>5. Cat!PassRight(call[c])'
  BY <1>1, <1>4, PassNext
<1>6. Cat!OwnersRight'
  BY <1>1, SameOwners DEF Cat!CatalogInv
<1> QED BY <1>1, <1>2, <1>3, <1>5, <1>6, AtItsRows

LEMMA TodoLess ==
    ASSUME Cat!OursInv, NEW c \in CatCallers, NEW i, call' = [call EXCEPT ![c].todo = @ \ {i}]
    PROVE  /\ RestStands(c) /\ call'[c].pc = call[c].pc /\ call'[c].op = call[c].op /\ call'[c].secret = call[c].secret
           /\ call'[c].want = call[c].want /\ call'[c].seen = call[c].seen /\ call'[c].drop = call[c].drop
           /\ call'[c].todo = call[c].todo \ {i}
<1>1. call \in [CatCallers -> Cat!Caller] /\ call' = [call EXCEPT ![c] = [call[c] EXCEPT !.todo = @ \ {i}]]
  BY DEF Cat!OursInv
<1>2. call'[c] = [call[c] EXCEPT !.todo = @ \ {i}] /\ RestStands(c)
  BY <1>1 DEF RestStands
<1>3. \A x \in Cat!Caller : LET y == [x EXCEPT !.todo = @ \ {i}]
                        IN /\ y.pc = x.pc /\ y.op = x.op /\ y.secret = x.secret /\ y.want = x.want /\ y.seen = x.seen /\ y.drop = x.drop
                           /\ y.todo = x.todo \ {i}
  BY DEF Cat!Caller
<1> QED BY <1>1, <1>2, <1>3

LEMMA DropLess ==
    ASSUME Cat!OursInv, NEW c \in CatCallers, NEW e, call' = [call EXCEPT ![c].drop = @ \ {e}]
    PROVE  /\ RestStands(c) /\ call'[c].pc = call[c].pc /\ call'[c].op = call[c].op /\ call'[c].secret = call[c].secret
           /\ call'[c].want = call[c].want /\ call'[c].seen = call[c].seen /\ call'[c].todo = call[c].todo
           /\ call'[c].drop = call[c].drop \ {e}
<1>1. call \in [CatCallers -> Cat!Caller] /\ call' = [call EXCEPT ![c] = [call[c] EXCEPT !.drop = @ \ {e}]]
  BY DEF Cat!OursInv
<1>2. call'[c] = [call[c] EXCEPT !.drop = @ \ {e}] /\ RestStands(c)
  BY <1>1 DEF RestStands
<1>3. \A x \in Cat!Caller : LET y == [x EXCEPT !.drop = @ \ {e}]
                        IN /\ y.pc = x.pc /\ y.op = x.op /\ y.secret = x.secret /\ y.want = x.want /\ y.seen = x.seen /\ y.todo = x.todo
                           /\ y.drop = x.drop \ {e}
  BY DEF Cat!Caller
<1> QED BY <1>1, <1>2, <1>3

LEMMA Publishes ==
    ASSUME Cat!OursInv, Cat!CatalogInv, NEW c \in CatCallers, Cat!Publish(c)
    PROVE  Cat!CatalogInv'
<1>1. call[c].pc = "publish" /\ UNCHANGED <<inst, accounts, stored, conf, sync, holder, due, mixed, slips>>
  BY DEF Cat!Publish
<1>2. holder = c
  BY <1>1 DEF Cat!CatalogInv, Cat!CallsRight
<1>3. PICK i \in call[c].todo :
         /\ call' = [call EXCEPT ![c].todo = @ \ {i}]
         /\ \/ \E e \in Entries : remote[e] = None /\ remote' = [remote EXCEPT ![e] = Cat!Published(call[c], i)]
            \/ \E e \in Cat!Candidates(call[c], i) :
                 IF Cat!Drifted(call[c], i, call[c].seen[e])
                 THEN remote[e] # None /\ remote' = [remote EXCEPT ![e] = Cat!Published(call[c], i)]
                 ELSE UNCHANGED remote
  BY Zenon DEF Cat!Publish
<1>4. /\ RestStands(c) /\ call'[c].pc = call[c].pc /\ call'[c].op = call[c].op /\ call'[c].secret = call[c].secret
      /\ call'[c].want = call[c].want /\ call'[c].seen = call[c].seen /\ call'[c].drop = call[c].drop
      /\ call'[c].todo = call[c].todo \ {i}
  BY <1>3, TodoLess
<1>5. ~mixed => Cat!PassRight(call[c])
  BY <1>1 DEF Cat!CatalogInv, Cat!Passes
<1>6. Cat!OwnersRight
  BY DEF Cat!CatalogInv
<1>7. ASSUME NEW e \in Entries, remote' = [remote EXCEPT ![e] = Cat!Published(call[c], i)],
             remote[e] = None \/ e \in Cat!Candidates(call[c], i)
      PROVE  Cat!CatalogInv'
  <2>1. remote[e] = None \/ (Cat!IsManaged(call[c].seen[e]) /\ Cat!StandsFor(call[c], call[c].seen[e]) = {i})
    BY <1>7 DEF Cat!Candidates
  <2>2. ~mixed => Cat!PassRight(call[c])'
    BY <1>4, <1>5, <1>7, <2>1, WritesRow
  <2>3. Cat!OwnersRight'
    <3>1. call[c] \in Cat!Caller
      BY DEF Cat!OursInv
    <3>2. i \in CatInsts
      BY <3>1 DEF Cat!Caller
    <3>3. remote'[e].owner = i /\ \A k \in Entries : k # e => remote'[k] = remote[k]
      BY <1>7, <3>2, PublishedIs DEF Cat!OursInv
    <3> QED BY <1>6, <3>2, <3>3 DEF Cat!OwnersRight
  <2> QED BY <1>1, <1>2, <1>4, <2>2, <2>3, AtItsRows
<1>8. ASSUME NEW e \in Cat!Candidates(call[c], i), ~Cat!Drifted(call[c], i, call[c].seen[e]), UNCHANGED remote
      PROVE  Cat!CatalogInv'
  <2>1. ~mixed => Cat!PassRight(call[c])'
    BY <1>4, <1>5, <1>8, LeavesRow
  <2>2. Cat!OwnersRight'
    BY <1>6, <1>8, SameOwners
  <2> QED BY <1>1, <1>2, <1>4, <2>1, <2>2, AtItsRows
<1>9. \A e \in Cat!Candidates(call[c], i) : e \in Entries
  BY DEF Cat!Candidates
<1> QED BY <1>3, <1>7, <1>8, <1>9

LEMMA Unpublishes ==
    ASSUME Cat!OursInv, Cat!CatalogInv, NEW c \in CatCallers, Cat!Unpublish(c)
    PROVE  Cat!CatalogInv'
<1>1. call[c].pc = "publish" /\ call[c].todo = {} /\ UNCHANGED <<inst, accounts, stored, conf, sync, holder, due, mixed, slips>>
  BY DEF Cat!Unpublish
<1>2. holder = c
  BY <1>1 DEF Cat!CatalogInv, Cat!CallsRight
<1>3. PICK e \in call[c].drop : remote' = [remote EXCEPT ![e] = None] /\ call' = [call EXCEPT ![c].drop = @ \ {e}]
  BY DEF Cat!Unpublish
<1>4. /\ RestStands(c) /\ call'[c].pc = call[c].pc /\ call'[c].op = call[c].op /\ call'[c].secret = call[c].secret
      /\ call'[c].want = call[c].want /\ call'[c].seen = call[c].seen /\ call'[c].todo = call[c].todo
      /\ call'[c].drop = call[c].drop \ {e}
  BY <1>3, DropLess
<1>5. ~mixed => Cat!PassRight(call[c])'
  <2>1. ~mixed => Cat!PassRight(call[c])
    BY <1>1 DEF Cat!CatalogInv, Cat!Passes
  <2> QED BY <1>1, <1>3, <1>4, <2>1, DropsRow
<1>6. call[c] \in Cat!Caller
  BY DEF Cat!OursInv
<1>7. e \in Entries
  BY <1>6 DEF Cat!Caller
<1>8. Cat!OwnersRight'
  BY <1>3, <1>7, OwnersLess DEF Cat!CatalogInv
<1> QED BY <1>1, <1>2, <1>4, <1>5, <1>8, AtItsRows

\* The rows of a pass that has done everything are as the instances are.
LEMMA PassDone ==
    ASSUME Cat!OursInv, NEW c \in CatCallers, Cat!PassRight(call[c]), Cat!Current(call[c]), Cat!OwnersRight, call[c].todo = {}, call[c].drop = {}
    PROVE  Cat!RowsRight
<1> DEFINE y == call[c]
<1>1. y.want = Cat!EnabledNow /\ y.secret = stored /\ y \in Cat!Caller
  BY DEF Cat!Current, Cat!OursInv
<1>2. \A i \in CatInsts : Cat!EnabledNow[i] # None => \E e \in Entries : Cat!RowFor(remote[e], i, Cat!EnabledNow[i], stored)
  BY <1>1 DEF Cat!PassRight
<1>3. ASSUME NEW e \in Entries, Cat!IsManaged(remote[e])
      PROVE  \E i \in CatInsts : Cat!EnabledNow[i] # None /\ (remote[e].owner = i \/ remote[e].name = Cat!EnabledNow[i])
  <2>1. CASE \E i \in CatInsts : y.want[i] # None /\ remote[e].owner = i
    BY <1>1, <2>1
  <2>2. CASE remote[e] = y.seen[e]
    <3>1. ~Cat!Alien(y, e)
      BY <1>3 DEF Cat!PassRight, Cat!IsManaged
    <3>2. Cat!StandsFor(y, remote[e]) # {}
      BY <1>3, <2>2, <3>1 DEF Cat!Alien
    <3>3. CASE remote[e].owner \in CatInsts /\ y.want[remote[e].owner] # None
      BY <1>1, <3>3
    <3>4. CASE Cat!ByName(y, remote[e].owner) # {}
      <4>1. PICK i \in CatInsts : y.want[i] # None /\ y.want[i] = remote[e].owner
        BY <3>4 DEF Cat!ByName
      <4>2. y.want[i] \in Names \cup {None}
        BY <1>1 DEF Cat!Caller
      <4>3. remote[e].owner \notin CatInsts
        BY <4>1, <4>2, CatalogAssumed DEF Cat!CatalogAssumption
      <4>4. remote[e].name = remote[e].owner
        BY <1>3, <4>3 DEF Cat!OwnersRight
      <4> QED BY <1>1, <4>1, <4>4
    <3>5. CASE Cat!ByName(y, remote[e].name) # {}
      BY <1>1, <3>5 DEF Cat!ByName
    <3> QED BY <3>2, <3>3, <3>4, <3>5 DEF Cat!StandsFor
  <2> QED BY <1>3, <2>1, <2>2 DEF Cat!PassRight
<1> QED BY <1>2, <1>3 DEF Cat!RowsRight

\* A pass that went well leaves the rows right, unless another is to come.
LEMMA EndsWell ==
    ASSUME Cat!OursInv, Cat!SizesRight, Cat!CatalogInv, NEW c \in CatCallers, Cat!Finish(c), Cat!WritesDown("ok")
    PROVE  Cat!CatalogInv'
<1>1. /\ call[c].pc = "publish" /\ call[c].todo = {} /\ call[c].drop = {} /\ holder' = None
      /\ RestStands(c) /\ call'[c].pc = "idle" /\ call'[c].op = "none" /\ sync' = "ok" /\ slips' = slips \ {"unwritten"}
      /\ UNCHANGED <<inst, remote, accounts, stored, conf, due, mixed>>
  BY Ending DEF Cat!Finish, Cat!Ends, Cat!WritesDown
<1>2. holder = c
  BY <1>1 DEF Cat!CatalogInv, Cat!CallsRight
<1>3. Cat!CallsRight'
  BY <1>1, <1>2, CatalogAssumed DEF Cat!CatalogInv, Cat!CallsRight, RestStands, Cat!Working, Cat!Leaving, Cat!CatalogAssumption
<1>4. Cat!OwnersRight'
  BY <1>1, SameOwners DEF Cat!CatalogInv
<1>5. ASSUME ~mixed' PROVE Cat!Alone' /\ Cat!AccountsRight' /\ Cat!SecretsRight' /\ Cat!Fresh' /\ Cat!Passes' /\ Cat!Reached'
  <2>1. Cat!CallsRight /\ Cat!Alone /\ Cat!AccountsRight /\ Cat!SecretsRight /\ Cat!Fresh /\ Cat!Passes /\ Cat!Reached /\ Cat!OwnersRight
    BY <1>1, <1>5 DEF Cat!CatalogInv
  <2>2. Cat!Alone'
    BY <1>1, <2>1 DEF Cat!Alone, RestStands
  <2>3. conf
    BY <1>1, <2>1 DEF Cat!AccountsRight, Cat!At, Cat!Working
  <2>4. Cat!AccountsRight'
    BY <1>1, <2>1, <2>3, SameKeys DEF Cat!AccountsRight, Cat!At, RestStands, Cat!Working
  <2>5. Cat!SecretsRight'
    BY <1>1, <2>1, SameKeys DEF Cat!SecretsRight, Cat!At, RestStands
  <2>6. Cat!Fresh'
    BY <1>1, CatalogAssumed DEF Cat!Fresh, Cat!CatalogAssumption
  <2>7. Cat!Passes'
    BY SMTT(60), <1>1, <2>1, SamePass DEF Cat!Passes, RestStands
  <2>8. Cat!Reached'
    <3>1. ~Cat!Behind' => due = 0 /\ ~Cat!At({"lock"})
      BY <1>1 DEF Cat!Behind, Cat!At, RestStands, Cat!SizesRight
    <3>2. ~Cat!Behind' /\ "unheard" \notin slips => Cat!Current(call[c]) /\ Cat!PassRight(call[c])
      BY <1>1, <1>2, <2>1, <3>1 DEF Cat!Fresh, Cat!Passes
    <3>3. ~Cat!Behind' /\ "unheard" \notin slips => Cat!RowsRight
      BY <1>1, <2>1, <3>2, PassDone
    <3>4. "unheard" \notin slips' => "unheard" \notin slips
      BY <1>1
    <3> QED BY <1>1, <3>3, <3>4, SameRows DEF Cat!Reached
  <2> QED BY <2>2, <2>4, <2>5, <2>6, <2>7, <2>8
<1> QED BY <1>3, <1>4, <1>5 DEF Cat!CatalogInv

\* A pass at its end, whether that can be written down or not.
LEMMA Finishes ==
    ASSUME Cat!OursInv, Cat!SizesRight, Cat!CatalogInv, NEW c \in CatCallers, Cat!Finish(c)
    PROVE  Cat!CatalogInv'
<1>1. CASE Cat!WritesDown("ok")
  BY <1>1, EndsWell
<1>2. CASE Cat!LeavesNoResult
  <2>1. /\ call[c].pc = "publish" /\ holder' = None /\ RestStands(c) /\ call'[c].pc = "idle" /\ call'[c].op = "none"
        /\ UNCHANGED <<inst, remote, accounts, stored, conf, due, mixed>>
    BY Ending DEF Cat!Finish, Cat!Ends
  <2>2. holder = c
    BY <2>1 DEF Cat!CatalogInv, Cat!CallsRight
  <2>3. sync' = sync /\ (sync = "ok" => "unwritten" \in slips') /\ slips \ {"unwritten"} \subseteq slips'
    BY <1>2 DEF Cat!LeavesNoResult, Cat!Unwritten
  <2>4. call[c].pc \in Cat!Working /\ call[c].pc # "store"
    BY <2>1 DEF Cat!Working
  <2> QED BY <2>1, <2>2, <2>3, <2>4, GivesUp
<1> QED BY <1>1, <1>2 DEF Cat!Finish

-----------------------------------------------------------------------------
(* Disconnecting.                                                          *)

\* A disconnect that is under way, and by itself.
LEMMA LeavesAlone ==
    ASSUME Cat!CatalogInv, NEW c \in CatCallers, call[c].pc \in Cat!Leaving
    PROVE  /\ call[c].op = "disconnect" /\ holder # c
           /\ ~mixed => \A d \in CatCallers : d # c => call[d].pc = "idle" /\ holder # d
<1>1. call[c].op = "disconnect" /\ holder # c
  BY DEF Cat!CatalogInv, Cat!CallsRight, Cat!Leaving, Cat!Working
<1>2. ASSUME ~mixed, NEW d \in CatCallers, d # c PROVE call[d].pc = "idle" /\ holder # d
  <2>1. call[d].pc = "idle"
    BY <1>1, <1>2 DEF Cat!CatalogInv, Cat!Alone
  <2> QED BY <2>1 DEF Cat!CatalogInv, Cat!CallsRight, Cat!Working
<1> QED BY <1>1, <1>2

\* A step of a disconnect.  What it has to do for the accounts and the secrets
\* is left to the caller of the lemma.
LEMMA Disconnects ==
    ASSUME Cat!OursInv, Cat!CatalogInv, NEW c \in CatCallers, RestStands(c), call[c].pc \in Cat!Leaving,
           \/ call'[c].op = "disconnect" /\ call'[c].pc \in Cat!Leaving \ {"unlist"}
           \/ call'[c].op = "none" /\ call'[c].pc = "idle" /\ (~mixed' => sync' # "ok"),
           Cat!OwnersRight', ~mixed' => ~mixed /\ Cat!AccountsRight' /\ Cat!SecretsRight', UNCHANGED <<inst, holder, due>>
    PROVE  Cat!CatalogInv'
<1>1. call[c].op = "disconnect" /\ holder # c
  BY LeavesAlone
<1>2. Cat!CallsRight'
  BY <1>1 DEF Cat!CatalogInv, Cat!CallsRight, RestStands, Cat!Working, Cat!Leaving
<1>3. ASSUME ~mixed' PROVE Cat!Alone' /\ Cat!Fresh' /\ Cat!Passes' /\ Cat!Reached'
  <2>1. \A d \in CatCallers : d # c => call[d].pc = "idle" /\ holder # d
    BY <1>3, LeavesAlone
  <2>2. \A d \in CatCallers : d # c => call'[d].pc = "idle" /\ call'[d].op # "disconnect" /\ holder' # d
    BY <2>1 DEF RestStands, Cat!CatalogInv, Cat!CallsRight
  <2>3. Cat!Alone'
    BY <2>2 DEF Cat!Alone
  <2>4. Cat!Fresh'
    BY <1>1, <2>2 DEF Cat!Fresh
  <2>5. Cat!Passes'
    BY <2>2 DEF Cat!Passes, Cat!Leaving
  <2>6. Cat!Reached'
    BY <1>3 DEF Cat!Reached, Cat!At
  <2> QED BY <2>3, <2>4, <2>5, <2>6
<1> QED BY <1>2, <1>3 DEF Cat!CatalogInv

LEMMA UnpublishesAll ==
    ASSUME Cat!OursInv, Cat!CatalogInv, NEW c \in CatCallers, Cat!UnpublishAll(c)
    PROVE  Cat!CatalogInv'
<1>1. call[c].pc = "unlist" /\ UNCHANGED <<inst, remote, accounts, stored, conf, sync, holder, due, mixed, slips>>
  BY DEF Cat!UnpublishAll, Cat!store
<1>2. call[c].pc \in Cat!Leaving /\ "unpublish" \in Cat!Leaving \ {"unlist"}
  BY <1>1 DEF Cat!Leaving
<1>3. PICK Outs : call' = [call EXCEPT ![c].pc = "unpublish", ![c].drop = Outs]
  BY DEF Cat!UnpublishAll
<1>4. RestStands(c) /\ call'[c].pc = "unpublish" /\ call'[c].op = call[c].op
  <2>1. call \in [CatCallers -> Cat!Caller] /\ call' = [call EXCEPT ![c] = [call[c] EXCEPT !.pc = "unpublish", !.drop = Outs]]
    BY <1>3 DEF Cat!OursInv
  <2>2. call'[c] = [call[c] EXCEPT !.pc = "unpublish", !.drop = Outs] /\ RestStands(c)
    BY <2>1 DEF RestStands
  <2>3. \A x \in Cat!Caller : LET y == [x EXCEPT !.pc = "unpublish", !.drop = Outs] IN y.pc = "unpublish" /\ y.op = x.op
    BY DEF Cat!Caller
  <2> QED BY <2>1, <2>2, <2>3
<1>5. call[c].op = "disconnect"
  BY <1>2, LeavesAlone
<1>6. ~mixed' => Cat!AccountsRight' /\ Cat!SecretsRight'
  <2>1. ~mixed => Cat!AccountsRight /\ Cat!SecretsRight
    BY DEF Cat!CatalogInv
  <2>2. ~mixed => Cat!AccountsRight'
    BY <1>1, <1>4, <2>1, SameKeys DEF Cat!AccountsRight, Cat!At, RestStands, Cat!Working
  <2>3. ~mixed => Cat!SecretsRight'
    BY <1>1, <1>4, <2>1, SameKeys DEF Cat!SecretsRight, Cat!At, RestStands
  <2> QED BY <1>1, <2>2, <2>3
<1>7. Cat!OwnersRight'
  BY <1>1, SameOwners DEF Cat!CatalogInv
<1> QED BY <1>1, <1>2, <1>4, <1>5, <1>6, <1>7, Disconnects

LEMMA UnpublishesOne ==
    ASSUME Cat!OursInv, Cat!CatalogInv, NEW c \in CatCallers, Cat!UnpublishOne(c)
    PROVE  Cat!CatalogInv'
<1>1. call[c].pc = "unpublish" /\ UNCHANGED <<inst, accounts, stored, conf, sync, holder, due, mixed, slips>>
  BY DEF Cat!UnpublishOne
<1>2. call[c].pc \in Cat!Leaving /\ {"forget", "unpublish"} \subseteq Cat!Leaving \ {"unlist"}
  BY <1>1 DEF Cat!Leaving
<1>3. call[c].op = "disconnect"
  BY <1>2, LeavesAlone
<1>4. ASSUME RestStands(c), call'[c].pc \in {"forget", "unpublish"}
      PROVE  ~mixed' => ~mixed /\ Cat!AccountsRight' /\ Cat!SecretsRight'
  <2>1. ~mixed => Cat!AccountsRight /\ Cat!SecretsRight
    BY DEF Cat!CatalogInv
  <2>2. ~mixed => Cat!AccountsRight'
    BY <1>1, <1>4, <2>1, SameKeys DEF Cat!AccountsRight, Cat!At, RestStands, Cat!Working
  <2>3. ~mixed => Cat!SecretsRight'
    BY <1>1, <1>4, <2>1, SameKeys DEF Cat!SecretsRight, Cat!At, RestStands
  <2> QED BY <1>1, <2>2, <2>3
<1>5. CASE Cat!Goto(c, "forget") /\ UNCHANGED remote
  <2>1. RestStands(c) /\ call'[c].pc = "forget" /\ call'[c].op = "disconnect"
    BY <1>3, <1>5, Going
  <2>2. Cat!OwnersRight'
    BY <1>5, SameOwners DEF Cat!CatalogInv
  <2> QED BY <1>1, <1>2, <1>4, <2>1, <2>2, Disconnects
<1>6. ASSUME NEW e \in call[c].drop, remote' = [remote EXCEPT ![e] = None], call' = [call EXCEPT ![c].drop = @ \ {e}]
      PROVE  Cat!CatalogInv'
  <2>1. RestStands(c) /\ call'[c].pc = "unpublish" /\ call'[c].op = "disconnect"
    BY <1>1, <1>3, <1>6, DropLess
  <2>2. call[c] \in Cat!Caller
    BY DEF Cat!OursInv
  <2>3. e \in Entries
    BY <2>2 DEF Cat!Caller
  <2>4. Cat!OwnersRight'
    BY <1>6, <2>3, OwnersLess DEF Cat!CatalogInv
  <2> QED BY <1>1, <1>2, <1>4, <2>1, <2>4, Disconnects
<1> QED BY <1>5, <1>6, Zenon DEF Cat!UnpublishOne

\* A disconnect that fails: amid its work nothing is claimed of it any more.
LEMMA LeaveFailing ==
    ASSUME Cat!OursInv, Cat!CatalogInv, NEW c \in CatCallers, Cat!LeaveFails(c)
    PROVE  Cat!CatalogInv'
<1>1. /\ call[c].pc \in Cat!Leaving /\ call' = [call EXCEPT ![c] = Cat!Resting] /\ (~mixed' => ~mixed /\ call[c].pc = "unlist")
      /\ UNCHANGED <<inst, remote, accounts, stored, conf, sync, holder, due, slips>>
  BY DEF Cat!LeaveFails, Cat!store
<1>2. RestStands(c) /\ call'[c].pc = "idle" /\ call'[c].op = "none"
  BY <1>1, Ending
<1>3. holder # c
  BY <1>1, LeavesAlone
<1>4. CASE call[c].pc = "unlist"
  BY <1>1, <1>2, <1>3, <1>4, LeavesBefore
<1>5. CASE call[c].pc # "unlist"
  <2>1. Cat!OwnersRight'
    BY <1>1, SameOwners DEF Cat!CatalogInv
  <2> QED BY <1>1, <1>2, <1>5, <2>1, Disconnects
<1> QED BY <1>4, <1>5

LEMMA Forgets ==
    ASSUME Cat!OursInv, Cat!SizesRight, Cat!CatalogInv, NEW c \in CatCallers,
           Cat!ForgetPrincipal(c) \/ Cat!ForgetProxyKey(c) \/ Cat!ForgetSecret(c) \/ Cat!ForgetSettings(c)
    PROVE  Cat!CatalogInv'
<1>1. call[c].pc \in {"forget", "proxykey", "secret", "settings"} /\ UNCHANGED <<inst, remote, holder, due, mixed, slips>>
  BY DEF Cat!ForgetPrincipal, Cat!ForgetProxyKey, Cat!ForgetSecret, Cat!ForgetSettings
<1>2. call[c].pc \in Cat!Leaving /\ {"proxykey", "secret", "settings"} \subseteq Cat!Leaving \ {"unlist"}
  BY <1>1 DEF Cat!Leaving
<1>3. call[c].op = "disconnect" /\ holder # c /\ (~mixed => \A d \in CatCallers : d # c => call[d].pc = "idle" /\ holder # d)
  BY <1>2, LeavesAlone
<1>4. ~mixed => Cat!AccountsRight /\ Cat!SecretsRight
  BY DEF Cat!CatalogInv
<1>5. Cat!OwnersRight'
  BY <1>1, SameOwners DEF Cat!CatalogInv
<1>6. CASE Cat!ForgetPrincipal(c)
  <2>1. /\ call[c].pc = "forget" /\ accounts' = (IF Cat!Exist = {} THEN accounts ELSE [accounts EXCEPT ![Cat!First] = None])
        /\ Cat!Goto(c, "proxykey") /\ UNCHANGED <<conf, stored, sync>>
    BY <1>6 DEF Cat!ForgetPrincipal
  <2>2. RestStands(c) /\ call'[c].pc = "proxykey" /\ call'[c].op = "disconnect"
    BY <1>3, <2>1, Going
  <2>3. ~mixed => Cat!Exist' = {}
    <3>1. CASE Cat!Exist = {}
      BY <2>1, <3>1 DEF Cat!Exist
    <3>2. ASSUME ~mixed, Cat!Exist # {} PROVE Cat!Exist' = {}
      <4>1. Cat!Exist = {1}
        BY <1>4, <3>2 DEF Cat!AccountsRight
      <4>2. Cat!First = 1
        BY <4>1 DEF Cat!First
      <4>3. accounts'[1] = None /\ \A b \in 1..CatAccounts : b # 1 => accounts'[b] = accounts[b]
        BY <2>1, <3>2, <4>1, <4>2 DEF Cat!SizesRight, Cat!Exist
      <4> QED BY <4>1, <4>3 DEF Cat!Exist
    <3> QED BY <3>1, <3>2
  <2>4. ~mixed => Cat!AccountsRight'
    BY <1>3, <1>4, <2>1, <2>2, <2>3 DEF Cat!AccountsRight, Cat!At, RestStands, Cat!Working
  <2>5. ~mixed => Cat!SecretsRight'
    BY <1>3, <2>2 DEF Cat!SecretsRight, Cat!At, RestStands
  <2> QED BY <1>1, <1>2, <1>5, <2>2, <2>4, <2>5, Disconnects
<1>7. CASE Cat!ForgetProxyKey(c)
  <2>1. call[c].pc = "proxykey" /\ conf' = FALSE /\ Cat!Goto(c, "secret") /\ UNCHANGED <<accounts, stored, sync>>
    BY <1>7 DEF Cat!ForgetProxyKey
  <2>2. RestStands(c) /\ call'[c].pc = "secret" /\ call'[c].op = "disconnect"
    BY <1>3, <2>1, Going
  <2>3. ~mixed => Cat!AccountsRight'
    BY <1>3, <1>4, <2>1, <2>2, SameKeys DEF Cat!AccountsRight, Cat!At, RestStands, Cat!Working
  <2>4. ~mixed => Cat!SecretsRight'
    BY <1>3, <2>2 DEF Cat!SecretsRight, Cat!At, RestStands
  <2> QED BY <1>1, <1>2, <1>5, <2>2, <2>3, <2>4, Disconnects
<1>8. CASE Cat!ForgetSecret(c)
  <2>1. call[c].pc = "secret" /\ stored' = 0 /\ Cat!Goto(c, "settings") /\ UNCHANGED <<accounts, conf, sync>>
    BY <1>8 DEF Cat!ForgetSecret
  <2>2. RestStands(c) /\ call'[c].pc = "settings" /\ call'[c].op = "disconnect"
    BY <1>3, <2>1, Going
  <2>3. ~mixed => Cat!AccountsRight'
    BY <1>3, <1>4, <2>1, <2>2, SameKeys DEF Cat!AccountsRight, Cat!At, RestStands, Cat!Working
  <2>4. ~mixed => Cat!SecretsRight'
    BY <1>3, <2>1, <2>2 DEF Cat!SecretsRight, Cat!At, RestStands
  <2> QED BY <1>1, <1>2, <1>5, <2>2, <2>3, <2>4, Disconnects
<1>9. CASE Cat!ForgetSettings(c)
  <2>1. call[c].pc = "settings" /\ sync' = "none" /\ call' = [call EXCEPT ![c] = Cat!Resting] /\ conf' = FALSE /\ UNCHANGED <<accounts, stored>>
    BY <1>9 DEF Cat!ForgetSettings
  <2>2. RestStands(c) /\ call'[c].pc = "idle" /\ call'[c].op = "none"
    BY <2>1, Ending
  <2>3. ~mixed => Cat!AccountsRight'
    BY <1>3, <1>4, <2>1, <2>2, SameKeys DEF Cat!AccountsRight, Cat!At, RestStands, Cat!Working
  <2>4. ~mixed => Cat!SecretsRight'
    <3>1. ~mixed => ~Cat!At({"store", "proxykey", "secret"})
      BY <1>3, <2>1 DEF Cat!At
    <3>2. ~mixed => \A d \in CatCallers : call'[d].pc # "store"
      BY <1>3, <2>2 DEF RestStands
    <3> QED BY <1>1, <1>4, <2>1, <3>1, <3>2, SameKeys DEF Cat!SecretsRight
  <2> QED BY <1>1, <1>2, <1>5, <2>1, <2>2, <2>3, <2>4, Disconnects
<1> QED BY <1>6, <1>7, <1>8, <1>9

-----------------------------------------------------------------------------
(* Calls begin, instances change, the manager stops.                       *)

\* The start of a call.
LEMMA CallBegins ==
    ASSUME Cat!OursInv, Cat!SizesRight, Cat!CatalogInv, NEW c \in CatCallers,
           NEW op \in {"sync", "rotate", "save", "disconnect"}, NEW pc, Cat!StartCall(c, op, pc),
           \/ op = "sync" /\ pc = "lock" /\ conf' = conf
           \/ op = "rotate" /\ pc = "rotate" /\ Cat!Exist # {} /\ conf' = conf /\ due' = due
           \/ op = "save" /\ pc = "account" /\ conf' = TRUE /\ due' = due
           \/ op = "disconnect" /\ pc \in {"unlist", "forget"} /\ conf' = conf /\ due' = due
    PROVE  Cat!CatalogInv'
<1>1. call[c].pc = "idle" /\ RestStands(c) /\ call'[c].pc = pc /\ call'[c].op = op
  <2>1. call[c].pc = "idle" /\ call' = [call EXCEPT ![c] = [Cat!Resting EXCEPT !.pc = pc, !.op = op]]
    BY DEF Cat!StartCall
  <2>2. call'[c] = [Cat!Resting EXCEPT !.pc = pc, !.op = op] /\ RestStands(c)
    BY <2>1 DEF Cat!OursInv, RestStands
  <2>3. \A x \in Cat!Caller : LET y == [x EXCEPT !.pc = pc, !.op = op] IN y.pc = pc /\ y.op = op
    BY DEF Cat!Caller
  <2> QED BY <2>1, <2>2, <2>3, RestingIs
<1>2. /\ UNCHANGED <<inst, remote, accounts, stored, sync, holder, slips>>
      /\ ~mixed' => ~mixed /\ (\A d \in CatCallers : call[d].op # "disconnect") /\ (op = "disconnect" => Cat!AllIdle)
  BY DEF Cat!StartCall
<1>3. holder # c /\ call[c].op = "none"
  BY <1>1 DEF Cat!CatalogInv, Cat!CallsRight, Cat!Working
<1>4. Cat!CallsRight'
  BY <1>1, <1>2, <1>3 DEF Cat!CatalogInv, Cat!CallsRight, RestStands, Cat!Working, Cat!Leaving
<1>5. Cat!OwnersRight'
  BY <1>2, SameOwners DEF Cat!CatalogInv
<1>6. ASSUME ~mixed' PROVE Cat!Alone' /\ Cat!AccountsRight' /\ Cat!SecretsRight' /\ Cat!Fresh' /\ Cat!Passes' /\ Cat!Reached'
  <2>1. Cat!CallsRight /\ Cat!Alone /\ Cat!AccountsRight /\ Cat!SecretsRight /\ Cat!Fresh /\ Cat!Passes /\ Cat!Reached
    BY <1>2, <1>6 DEF Cat!CatalogInv
  <2>2. Cat!Alone'
    BY <1>1, <1>2, <1>6 DEF Cat!Alone, RestStands, Cat!AllIdle
  <2>3. \A d \in CatCallers : call[d].pc \notin Cat!Leaving
    BY <1>2, <1>6, <2>1 DEF Cat!CallsRight
  <2>4. Cat!AccountsRight'
    <3>1. Cat!Exist' = Cat!Exist /\ (~conf' => ~conf) /\ (op = "rotate" => conf) /\ (op = "save" => conf')
      BY <1>2, <2>1, SameKeys DEF Cat!AccountsRight
    <3>2. \A d \in CatCallers : call'[d].pc \notin {"proxykey", "secret", "settings"}
      BY <1>1, <2>3 DEF RestStands, Cat!Leaving
    <3>3. ~conf' => ~Cat!At(Cat!Working)'
      BY <1>1, <2>1, <3>1 DEF Cat!AccountsRight, Cat!At, RestStands, Cat!Working
    <3> QED BY <1>2, <2>1, <2>3, <3>1, <3>2, <3>3 DEF Cat!AccountsRight, Cat!At, Cat!Leaving
  <2>5. Cat!SecretsRight'
    BY <1>1, <1>2, <2>1, SameKeys DEF Cat!SecretsRight, Cat!At, RestStands
  <2>6. Cat!Fresh'
    <3>1. op = "sync" => Cat!At({"lock"})'
      BY <1>1 DEF Cat!At
    <3>2. ~Cat!At({"lock"})' => ~Cat!At({"lock"})
      BY <1>1 DEF Cat!At, RestStands
    <3> QED BY <1>1, <1>2, <1>3, <2>1, <3>1, <3>2, SameCurrent DEF Cat!Fresh, RestStands
  <2>7. Cat!Passes'
    BY <1>1, <1>2, <2>1, SamePass DEF Cat!Passes, RestStands
  <2>8. Cat!Reached'
    <3>1. op = "sync" => Cat!Behind'
      BY <1>1 DEF Cat!Behind, Cat!At
    <3>2. op # "sync" /\ ~Cat!Behind' => ~Cat!Behind
      BY <1>1, <1>2, <1>3 DEF Cat!Behind, Cat!At, RestStands
    <3>3. ~Cat!At(Cat!Leaving \ {"unlist"})
      BY <2>3 DEF Cat!At
    <3> QED BY <1>2, <2>1, <3>1, <3>2, <3>3, SameRows DEF Cat!Reached
  <2> QED BY <2>2, <2>4, <2>5, <2>6, <2>7, <2>8
<1> QED BY <1>4, <1>5, <1>6 DEF Cat!CatalogInv

LEMMA AnyCallBegins ==
    ASSUME Cat!OursInv, Cat!SizesRight, Cat!CatalogInv, NEW c \in CatCallers,
           Cat!Notified(c) \/ Cat!SyncNow(c) \/ Cat!RotateKey(c) \/ Cat!Save(c) \/ \E u \in BOOLEAN : Cat!Disconnect(c, u)
    PROVE  Cat!CatalogInv'
<1>1. CASE Cat!Notified(c) \/ Cat!SyncNow(c)
  <2>1. Cat!StartCall(c, "sync", "lock") /\ conf' = conf
    BY <1>1 DEF Cat!Notified, Cat!SyncNow, Cat!Asked
  <2> QED BY <2>1, CallBegins
<1>2. CASE Cat!RotateKey(c)
  <2>1. Cat!StartCall(c, "rotate", "rotate") /\ conf' = conf /\ due' = due /\ Cat!Exist # {}
    BY <1>2 DEF Cat!RotateKey, Cat!Asked
  <2> QED BY <2>1, CallBegins
<1>3. CASE Cat!Save(c)
  <2>1. Cat!StartCall(c, "save", "account") /\ conf' = TRUE /\ due' = due
    BY <1>3 DEF Cat!Save, Cat!Asked
  <2> QED BY <2>1, CallBegins
<1>4. CASE \E u \in BOOLEAN : Cat!Disconnect(c, u)
  <2>1. PICK pc \in {"unlist", "forget"} : Cat!StartCall(c, "disconnect", pc) /\ conf' = conf /\ due' = due
    BY <1>4 DEF Cat!Disconnect, Cat!Asked
  <2> QED BY <2>1, CallBegins
<1> QED BY <1>1, <1>2, <1>3, <1>4

LEMMA Edits ==
    ASSUME Cat!SizesRight, Cat!CatalogInv, NEW i \in CatInsts, Cat!Edit(i)
    PROVE  Cat!CatalogInv'
<1>1. due' = due + 1 /\ due \in Nat /\ UNCHANGED <<remote, accounts, stored, conf, sync, holder, call, secrets, mixed, slips>>
  BY DEF Cat!Edit, Cat!SizesRight
<1>2. Cat!CallsRight' /\ Cat!OwnersRight'
  BY <1>1, SameOwners DEF Cat!CatalogInv, Cat!CallsRight
<1>3. ASSUME ~mixed' PROVE Cat!Alone' /\ Cat!AccountsRight' /\ Cat!SecretsRight' /\ Cat!Fresh' /\ Cat!Passes' /\ Cat!Reached'
  <2>1. Cat!CallsRight /\ Cat!Alone /\ Cat!AccountsRight /\ Cat!SecretsRight /\ Cat!Fresh /\ Cat!Passes /\ Cat!Reached
    BY <1>1, <1>3 DEF Cat!CatalogInv
  <2>2. Cat!Alone' /\ Cat!AccountsRight' /\ Cat!SecretsRight'
    BY <1>1, <2>1, SameKeys DEF Cat!Alone, Cat!AccountsRight, Cat!SecretsRight, Cat!At
  <2>3. Cat!Fresh' /\ Cat!Reached'
    BY <1>1 DEF Cat!Fresh, Cat!Reached, Cat!Behind
  <2>4. Cat!Passes'
    BY <1>1, <2>1, SamePass DEF Cat!Passes
  <2> QED BY <2>2, <2>3, <2>4
<1> QED BY <1>2, <1>3 DEF Cat!CatalogInv

\* An instance changes and nobody hears of it.
LEMMA GoesUnannounced ==
    ASSUME Cat!CatalogInv, NEW i \in CatInsts, Cat!Unannounced(i)
    PROVE  Cat!CatalogInv'
<1>1. slips' = slips \cup {"unheard"} /\ UNCHANGED <<remote, accounts, stored, conf, sync, holder, due, call, secrets, mixed>>
  BY DEF Cat!Unannounced
<1>2. Cat!CallsRight' /\ Cat!OwnersRight'
  BY <1>1, SameOwners DEF Cat!CatalogInv, Cat!CallsRight
<1>3. ASSUME ~mixed' PROVE Cat!Alone' /\ Cat!AccountsRight' /\ Cat!SecretsRight' /\ Cat!Fresh' /\ Cat!Passes' /\ Cat!Reached'
  <2>1. Cat!Alone /\ Cat!AccountsRight /\ Cat!SecretsRight /\ Cat!Passes
    BY <1>1, <1>3 DEF Cat!CatalogInv
  <2>2. Cat!Alone' /\ Cat!AccountsRight' /\ Cat!SecretsRight'
    BY <1>1, <2>1, SameKeys DEF Cat!Alone, Cat!AccountsRight, Cat!SecretsRight, Cat!At
  <2>3. Cat!Fresh' /\ Cat!Reached'
    BY <1>1 DEF Cat!Fresh, Cat!Reached
  <2>4. Cat!Passes'
    BY <1>1, <2>1, SamePass DEF Cat!Passes
  <2> QED BY <2>2, <2>3, <2>4
<1> QED BY <1>2, <1>3 DEF Cat!CatalogInv

\* Without a configuration nothing is due after a restart, and nothing has gone well.
LEMMA Reboots ==
    ASSUME Cat!CatalogInv, Cat!Reboot
    PROVE  Cat!CatalogInv'
<1>1. /\ \A d \in CatCallers : call'[d].pc = "idle" /\ call'[d].op = "none"
      /\ holder' = None /\ due' = (IF conf THEN 1 ELSE 0) /\ slips \subseteq slips'
      /\ UNCHANGED <<inst, remote, accounts, stored, conf, sync>>
  BY DEF Cat!Reboot, Cat!store, Cat!Resting
<1>2. /\ ~mixed' => ~mixed /\ \A d \in CatCallers : call[d].op # "disconnect"
      /\ Cat!At({"store"}) /\ stored # 0 => "torn" \in slips'
  BY DEF Cat!Reboot, Cat!Tears, Cat!At
<1>3. \A d \in CatCallers : holder' # d
  BY <1>1, CatalogAssumed DEF Cat!CatalogAssumption
<1>4. Cat!CallsRight' /\ Cat!OwnersRight'
  BY <1>1, <1>3, SameOwners DEF Cat!CatalogInv, Cat!CallsRight, Cat!Leaving
<1>5. ASSUME ~mixed' PROVE Cat!Alone' /\ Cat!AccountsRight' /\ Cat!SecretsRight' /\ Cat!Fresh' /\ Cat!Passes' /\ Cat!Reached'
  <2>1. Cat!CallsRight /\ Cat!Alone /\ Cat!AccountsRight /\ Cat!SecretsRight /\ Cat!Fresh /\ Cat!Passes /\ Cat!Reached
    BY <1>2, <1>5 DEF Cat!CatalogInv
  <2>2. \A d \in CatCallers : call[d].pc \notin Cat!Leaving
    BY <1>2, <1>5, <2>1 DEF Cat!CallsRight
  <2>3. Cat!Alone' /\ Cat!Passes' /\ Cat!Fresh'
    BY <1>1, <1>3 DEF Cat!Alone, Cat!Passes, Cat!Fresh
  <2>4. Cat!AccountsRight'
    BY <1>1, <2>1, <2>2, SameKeys DEF Cat!AccountsRight, Cat!At, Cat!Working, Cat!Leaving
  <2>5. Cat!SecretsRight'
    BY <1>1, <1>2, <1>5, <2>1, <2>2, SameKeys DEF Cat!SecretsRight, Cat!At, Cat!Leaving
  <2>6. Cat!Reached'
    <3>1. conf => Cat!Behind'
      BY <1>1 DEF Cat!Behind
    <3>2. ~conf => sync # "ok"
      BY <2>1, <2>2 DEF Cat!AccountsRight, Cat!At, Cat!Leaving
    <3> QED BY <1>1, <3>1, <3>2 DEF Cat!Reached
  <2> QED BY <2>3, <2>4, <2>5, <2>6
<1> QED BY <1>4, <1>5 DEF Cat!CatalogInv

-----------------------------------------------------------------------------
(* Sizes, and what all of it gives.                                        *)

LEMMA RangeIn == ASSUME NEW S, NEW s \in Seq(S) PROVE Cat!Range(s) \subseteq S
  BY DEF Cat!Range

LEMMA MoreSeqs == ASSUME NEW S, NEW T, S \subseteq T PROVE Seq(S) \subseteq Seq(T)
  OBVIOUS

\* A step of a caller that makes no secret: it takes none but one that is there.
LEMMA StaysSmall ==
    ASSUME Cat!SizesRight, NEW c \in CatCallers, RestStands(c), call'[c].secret \in {0, call[c].secret, stored},
           stored' \in {0, call[c].secret, stored}, sync' \in {sync, "none", "ok", "failed"}, holder' \in {holder, c, None},
           accounts' \in [1..CatAccounts -> Seq(1..secrets) \cup {None}], edits' = edits \/ Cat!Errs, slips' \subseteq Cat!Slips,
           UNCHANGED <<secrets, due, asks>>
    PROVE  Cat!SizesRight'
<1>1. 0 \in 0..secrets /\ call[c].secret \in 0..secrets /\ stored \in 0..secrets
  BY DEF Cat!SizesRight
<1>2. \A d \in CatCallers : call'[d].secret \in 0..secrets
  BY <1>1 DEF Cat!SizesRight, RestStands
<1>3. edits' \in 0..CatEdits /\ due' \in 0..(edits' + 1)
  BY CatalogAssumed DEF Cat!SizesRight, Cat!Errs, Cat!CatalogAssumption
<1> QED BY <1>1, <1>2, <1>3 DEF Cat!SizesRight

\* The same without a change of the accounts.
LEMMA CallerStaysSmall ==
    ASSUME Cat!SizesRight, NEW c \in CatCallers, RestStands(c), call'[c].secret \in {0, call[c].secret, stored},
           stored' \in {0, call[c].secret, stored}, sync' \in {sync, "none", "ok", "failed"}, holder' \in {holder, c, None},
           edits' = edits \/ Cat!Errs, slips' \subseteq Cat!Slips, UNCHANGED <<accounts, secrets, due, asks>>
    PROVE  Cat!SizesRight'
<1>1. accounts' \in [1..CatAccounts -> Seq(1..secrets) \cup {None}]
  BY DEF Cat!SizesRight
<1> QED BY <1>1, StaysSmall

\* Without an error, and without anything made good.
LEMMA GoesSmall ==
    ASSUME Cat!SizesRight, NEW c \in CatCallers, RestStands(c), call'[c].secret \in {0, call[c].secret, stored},
           stored' \in {0, call[c].secret, stored}, sync' \in {sync, "none"}, holder' \in {holder, c},
           UNCHANGED <<accounts, secrets, due, edits, asks, slips>>
    PROVE  Cat!SizesRight'
<1>1. slips' \subseteq Cat!Slips
  BY DEF Cat!SizesRight
<1> QED BY <1>1, CallerStaysSmall

\* Errors.
LEMMA SmallErrors ==
    ASSUME Cat!OursInv, Cat!SizesRight, NEW c \in CatCallers, Cat!Fails(c) \/ Cat!StoreFails(c) \/ Cat!LeaveFails(c)
    PROVE  Cat!SizesRight'
<1>1. /\ call' = [call EXCEPT ![c] = Cat!Resting] /\ sync' \in {sync, "failed"} /\ holder' \in {holder, None} /\ Cat!Errs
      /\ UNCHANGED <<accounts, stored, secrets, due, asks>>
  BY DEF Cat!Fails, Cat!StoreFails, Cat!LeaveFails, Cat!Failed, Cat!Ends, Cat!WritesDown, Cat!LeavesNoResult, Cat!store
<1>2. slips' \subseteq Cat!Slips
  <2>1. slips \subseteq Cat!Slips /\ Cat!Unwritten \cup Cat!Tears \subseteq Cat!Slips
    BY DEF Cat!SizesRight, Cat!Unwritten, Cat!Tears, Cat!Slips
  <2>2. slips' \subseteq slips \cup Cat!Unwritten \cup Cat!Tears
    BY DEF Cat!Fails, Cat!StoreFails, Cat!LeaveFails, Cat!Failed, Cat!WritesDown, Cat!LeavesNoResult
  <2> QED BY <2>1, <2>2
<1>3. RestStands(c) /\ call'[c].secret = 0
  BY <1>1, Ending
<1> QED BY <1>1, <1>2, <1>3, CallerStaysSmall

\* A pass and a save, up to the rows.
LEMMA SmallOnTheWay ==
    ASSUME Cat!OursInv, Cat!SizesRight, NEW c \in CatCallers,
           Cat!Lock(c) \/ Cat!NewProxyClient(c) \/ Cat!EnsureAccount(c) \/ Cat!EnsureKey(c) \/ Cat!CheckStored(c) \/ Cat!StoreSecret(c) \/ Cat!Principal(c)
    PROVE  Cat!SizesRight'
<1>1. CASE Cat!Lock(c) \/ Cat!EnsureKey(c) \/ Cat!CheckStored(c) \/ Cat!NewProxyClient(c)
  <2>1. RestStands(c) /\ call'[c].secret = call[c].secret
    BY <1>1, Going DEF Cat!Lock, Cat!EnsureKey, Cat!CheckStored, Cat!NewProxyClient
  <2>2. holder' \in {holder, c} /\ UNCHANGED <<accounts, stored, sync, secrets, due, edits, asks, slips>>
    BY <1>1 DEF Cat!Lock, Cat!EnsureKey, Cat!CheckStored, Cat!NewProxyClient, Cat!store
  <2> QED BY <2>1, <2>2, GoesSmall
<1>2. CASE Cat!StoreSecret(c)
  <2>1. RestStands(c) /\ call'[c].secret = call[c].secret
    BY <1>2, Going DEF Cat!StoreSecret
  <2>2. stored' = call[c].secret /\ slips' \subseteq slips /\ UNCHANGED <<accounts, sync, holder, secrets, due, edits, asks>>
    BY <1>2 DEF Cat!StoreSecret
  <2>3. slips' \subseteq Cat!Slips
    BY <2>2 DEF Cat!SizesRight
  <2> QED BY <2>1, <2>2, <2>3, CallerStaysSmall
<1>3. CASE Cat!EnsureAccount(c)
  <2>1. UNCHANGED <<accounts, stored, sync, holder, secrets, due, edits, asks, slips>>
    BY <1>3 DEF Cat!EnsureAccount, Cat!store
  <2>2. RestStands(c) /\ call'[c].secret = call[c].secret
    <3>1. Cat!Goto(c, "newaccount") \/ call' = [call EXCEPT ![c].pc = "key", ![c].acct = Cat!First]
      BY <1>3 DEF Cat!EnsureAccount, Cat!Goto
    <3> QED BY <3>1, Going, GoingTo
  <2> QED BY <2>1, <2>2, GoesSmall
<1>4. CASE Cat!Principal(c)
  <2>1. UNCHANGED <<accounts, stored, holder, secrets, due, asks>> /\ slips' \subseteq slips /\ sync' \in {sync, "failed"} /\ (edits' = edits \/ Cat!Errs)
    BY <1>4 DEF Cat!Principal, Cat!WritesDown
  <2>2. slips' \subseteq Cat!Slips
    BY <2>1 DEF Cat!SizesRight
  <2>3. RestStands(c) /\ call'[c].secret \in {0, call[c].secret, stored}
    <3>1. CASE Cat!Goto(c, "lock") \/ call' = [call EXCEPT ![c] = Cat!Resting]
      BY <3>1, Going, Ending
    <3>2. ASSUME NEW w, call' = [call EXCEPT ![c].pc = "list", ![c].secret = stored, ![c].want = w]
          PROVE  RestStands(c) /\ call'[c].secret = stored
      <4>1. call \in [CatCallers -> Cat!Caller] /\ call' = [call EXCEPT ![c] = [call[c] EXCEPT !.pc = "list", !.secret = stored, !.want = w]]
        BY <3>2 DEF Cat!OursInv
      <4>2. call'[c] = [call[c] EXCEPT !.pc = "list", !.secret = stored, !.want = w] /\ RestStands(c)
        BY <4>1 DEF RestStands
      <4>3. \A x \in Cat!Caller : [x EXCEPT !.pc = "list", !.secret = stored, !.want = w].secret = stored
        BY DEF Cat!Caller
      <4> QED BY <4>1, <4>2, <4>3
    <3> QED BY <1>4, <3>1, <3>2 DEF Cat!Principal
  <2> QED BY <2>1, <2>2, <2>3, CallerStaysSmall
<1> QED BY <1>1, <1>2, <1>3, <1>4

\* The rows, and a disconnect.
LEMMA Rerows ==
    ASSUME Cat!OursInv, NEW c \in CatCallers, NEW S, NEW T, NEW Outs, NEW pc,
           \/ call' = [call EXCEPT ![c].pc = pc, ![c].seen = S, ![c].todo = T, ![c].drop = Outs]
           \/ call' = [call EXCEPT ![c].pc = pc, ![c].drop = Outs]
    PROVE  RestStands(c) /\ call'[c].secret = call[c].secret
<1> DEFINE u(x) == [x EXCEPT !.pc = pc, !.seen = S, !.todo = T, !.drop = Outs]
           v(x) == [x EXCEPT !.pc = pc, !.drop = Outs]
<1>1. call \in [CatCallers -> Cat!Caller] /\ (call' = [call EXCEPT ![c] = u(call[c])] \/ call' = [call EXCEPT ![c] = v(call[c])])
  BY DEF Cat!OursInv
<1>2. \A x \in Cat!Caller : u(x).secret = x.secret /\ v(x).secret = x.secret
  BY DEF Cat!Caller
<1> HIDE DEF u, v
<1>3. (call'[c] = u(call[c]) \/ call'[c] = v(call[c])) /\ RestStands(c)
  BY <1>1 DEF RestStands
<1> QED BY <1>1, <1>2, <1>3

LEMMA SmallAtTheRows ==
    ASSUME Cat!OursInv, Cat!SizesRight, NEW c \in CatCallers,
           \/ Cat!List(c) \/ Cat!Publish(c) \/ Cat!Unpublish(c) \/ Cat!Finish(c)
           \/ Cat!UnpublishAll(c) \/ Cat!UnpublishOne(c) \/ Cat!ForgetPrincipal(c) \/ Cat!ForgetProxyKey(c) \/ Cat!ForgetSecret(c) \/ Cat!ForgetSettings(c)
    PROVE  Cat!SizesRight'
<1>1. CASE Cat!List(c) \/ Cat!Publish(c) \/ Cat!Unpublish(c)
  <2>1. UNCHANGED <<accounts, stored, sync, holder, secrets, due, edits, asks, slips>>
    BY ZenonT(60), <1>1 DEF Cat!List, Cat!Publish, Cat!Unpublish, Cat!store
  <2>2. RestStands(c) /\ call'[c].secret = call[c].secret
    <3>1. CASE Cat!List(c)
      <4>1. PICK T, Outs : call' = [call EXCEPT ![c].pc = "publish", ![c].seen = remote, ![c].todo = T, ![c].drop = Outs]
        BY ZenonT(60), <3>1 DEF Cat!List
      <4> QED BY <4>1, Rerows
    <3>2. CASE Cat!Publish(c)
      <4>1. PICK i : call' = [call EXCEPT ![c].todo = @ \ {i}]
        BY <3>2 DEF Cat!Publish
      <4> QED BY <4>1, TodoLess
    <3>3. CASE Cat!Unpublish(c)
      <4>1. PICK e : call' = [call EXCEPT ![c].drop = @ \ {e}]
        BY <3>3 DEF Cat!Unpublish
      <4> QED BY <4>1, DropLess
    <3> QED BY <1>1, <3>1, <3>2, <3>3
  <2> QED BY <2>1, <2>2, GoesSmall
<1>5. CASE Cat!Finish(c)
  <2>1. /\ call' = [call EXCEPT ![c] = Cat!Resting] /\ holder' = None /\ sync' \in {sync, "ok"} /\ (edits' = edits \/ Cat!Errs)
        /\ slips' \subseteq slips \cup Cat!Unwritten /\ UNCHANGED <<accounts, stored, secrets, due, asks>>
    BY <1>5 DEF Cat!Finish, Cat!Ends, Cat!WritesDown, Cat!LeavesNoResult
  <2>2. slips' \subseteq Cat!Slips
    BY <2>1 DEF Cat!SizesRight, Cat!Unwritten, Cat!Slips
  <2>3. RestStands(c) /\ call'[c].secret = 0
    BY <2>1, Ending
  <2> QED BY <2>1, <2>2, <2>3, CallerStaysSmall
<1>2. CASE Cat!UnpublishAll(c) \/ Cat!UnpublishOne(c)
  <2>1. UNCHANGED <<accounts, stored, sync, holder, secrets, due, edits, asks, slips>>
    BY <1>2 DEF Cat!UnpublishAll, Cat!UnpublishOne, Cat!store
  <2>2. \/ Cat!Goto(c, "forget") \/ (\E e : call' = [call EXCEPT ![c].drop = @ \ {e}])
        \/ \E Outs : call' = [call EXCEPT ![c].pc = "unpublish", ![c].drop = Outs]
    BY <1>2 DEF Cat!UnpublishAll, Cat!UnpublishOne
  <2>3. RestStands(c) /\ call'[c].secret = call[c].secret
    <3>1. CASE Cat!Goto(c, "forget")
      BY <3>1, Going
    <3>2. ASSUME NEW e, call' = [call EXCEPT ![c].drop = @ \ {e}] PROVE RestStands(c) /\ call'[c].secret = call[c].secret
      BY <3>2, DropLess
    <3>3. ASSUME NEW Outs, call' = [call EXCEPT ![c].pc = "unpublish", ![c].drop = Outs] PROVE RestStands(c) /\ call'[c].secret = call[c].secret
      BY <3>3, Rerows
    <3> QED BY <2>2, <3>1, <3>2, <3>3
  <2> QED BY <2>1, <2>3, GoesSmall
<1>3. CASE Cat!ForgetPrincipal(c)
  <2>1. UNCHANGED <<stored, sync, holder, secrets, due, edits, asks, slips>> /\ RestStands(c) /\ call'[c].secret = call[c].secret
    BY <1>3, Going DEF Cat!ForgetPrincipal
  <2>2. accounts \in [1..CatAccounts -> Seq(1..secrets) \cup {None}]
    BY DEF Cat!SizesRight
  <2>3. accounts' \in [1..CatAccounts -> Seq(1..secrets) \cup {None}]
    BY <1>3, <2>2 DEF Cat!ForgetPrincipal
  <2>4. slips' \subseteq Cat!Slips
    BY <2>1 DEF Cat!SizesRight
  <2> QED BY <2>1, <2>3, <2>4, StaysSmall
<1>4. CASE Cat!ForgetProxyKey(c) \/ Cat!ForgetSecret(c) \/ Cat!ForgetSettings(c)
  <2>1. stored' \in {stored, 0} /\ sync' \in {sync, "none"} /\ UNCHANGED <<accounts, holder, secrets, due, edits, asks, slips>>
    BY <1>4 DEF Cat!ForgetProxyKey, Cat!ForgetSecret, Cat!ForgetSettings
  <2>2. RestStands(c) /\ call'[c].secret \in {0, call[c].secret}
    BY <1>4, Going, Ending DEF Cat!ForgetProxyKey, Cat!ForgetSecret, Cat!ForgetSettings
  <2> QED BY <2>1, <2>2, GoesSmall
<1> QED BY <1>1, <1>2, <1>3, <1>4, <1>5

\* Accounts and secrets come.
LEMMA SmallMaking ==
    ASSUME Cat!OursInv, Cat!SizesRight, NEW c \in CatCallers, Cat!CreateAccount(c) \/ Cat!CreateKey(c) \/ Cat!RotateSecret(c)
    PROVE  Cat!SizesRight'
<1>1. accounts \in [1..CatAccounts -> Seq(1..secrets) \cup {None}] /\ secrets \in 0..CatSecrets /\ secrets \in Nat /\ CatSecrets \in Nat
  BY CatalogAssumed DEF Cat!SizesRight, Cat!CatalogAssumption
<1>2. CASE Cat!CreateAccount(c)
  <2>1. PICK a \in 1..CatAccounts : accounts' = [accounts EXCEPT ![a] = <<>>] /\ call' = [call EXCEPT ![c].pc = "key", ![c].acct = a]
    BY <1>2 DEF Cat!CreateAccount
  <2>2. accounts' \in [1..CatAccounts -> Seq(1..secrets) \cup {None}]
    BY <1>1, <2>1
  <2>3. UNCHANGED <<stored, sync, holder, secrets, due, edits, asks, slips>> /\ slips \subseteq Cat!Slips
    BY <1>2 DEF Cat!CreateAccount, Cat!SizesRight
  <2>4. RestStands(c) /\ call'[c].secret = call[c].secret
    <3>1. call \in [CatCallers -> Cat!Caller] /\ call' = [call EXCEPT ![c] = [call[c] EXCEPT !.pc = "key", !.acct = a]]
      BY <2>1 DEF Cat!OursInv
    <3>2. \A x \in Cat!Caller : [x EXCEPT !.pc = "key", !.acct = a].secret = x.secret
      BY DEF Cat!Caller
    <3> QED BY <3>1, <3>2 DEF RestStands
  <2> QED BY SMTT(60), <2>2, <2>3, <2>4, StaysSmall
<1>3. ASSUME Cat!NewSecret(c), UNCHANGED <<stored, sync, holder, due, edits, asks, slips>>,
             NEW a \in Cat!Exist, NEW t \in Seq(1..secrets'), accounts' = [accounts EXCEPT ![a] = t]
      PROVE  Cat!SizesRight'
  <2>1. secrets' \in 0..CatSecrets /\ secrets' = secrets + 1
    BY <1>1, <1>3 DEF Cat!NewSecret
  <2>2. 1..secrets \subseteq 1..secrets' /\ 0..secrets \subseteq 0..secrets' /\ secrets' \in 0..secrets'
    BY <1>1, <2>1
  <2>3. Seq(1..secrets) \subseteq Seq(1..secrets')
    BY <2>2, MoreSeqs
  <2>4. accounts' \in [1..CatAccounts -> Seq(1..secrets') \cup {None}]
    BY <1>1, <1>3, <2>3
  <2>5. \A d \in CatCallers : call'[d].secret \in 0..secrets'
    <3>1. RestStands(c) /\ call'[c].secret = secrets'
      BY ZenonT(60), <1>3, GoingWith DEF Cat!NewSecret
    <3> QED BY <2>2, <3>1 DEF RestStands, Cat!SizesRight
  <2> QED BY <1>3, <2>1, <2>2, <2>4, <2>5 DEF Cat!SizesRight
<1>4. ASSUME NEW a \in Cat!Exist, Cat!NewSecret(c)
      PROVE  accounts[a] \in Seq(1..secrets') /\ secrets' \in 1..secrets'
  <2>1. accounts[a] \in Seq(1..secrets) /\ secrets' = secrets + 1
    BY <1>4, SomeKeys DEF Cat!NewSecret
  <2>2. 1..secrets \subseteq 1..secrets'
    BY <1>1, <2>1
  <2>3. Seq(1..secrets) \subseteq Seq(1..secrets')
    BY <2>2, MoreSeqs
  <2> QED BY <1>1, <2>1, <2>3
<1>5. CASE Cat!CreateKey(c)
  <2> DEFINE a == call[c].acct
             t == <<secrets'>> \o accounts[a]
  <2>1. accounts' = [accounts EXCEPT ![a] = t] /\ Cat!NewSecret(c) /\ UNCHANGED <<stored, sync, holder, due, edits, asks, slips>> /\ a \in Cat!Exist
    BY <1>5 DEF Cat!CreateKey, Cat!SizesRight
  <2>2. accounts[a] \in Seq(1..secrets') /\ secrets' \in 1..secrets'
    BY <1>4, <2>1
  <2>3. t \in Seq(1..secrets')
    BY <2>2
  <2> QED BY <1>3, <2>1, <2>3
<1>6. CASE Cat!RotateSecret(c)
  <2>1. PICK a : Cat!HasKey(a) /\ Cat!NewSecret(c) /\ accounts' = [accounts EXCEPT ![a][1] = secrets']
    BY <1>6 DEF Cat!RotateSecret
  <2> DEFINE t == [accounts[a] EXCEPT ![1] = secrets']
  <2>2. a \in Cat!Exist /\ accounts[a] # <<>> /\ UNCHANGED <<stored, sync, holder, due, edits, asks, slips>>
    BY <1>6, <2>1 DEF Cat!HasKey, Cat!RotateSecret
  <2>3. accounts[a] \in Seq(1..secrets') /\ secrets' \in 1..secrets'
    BY <1>4, <2>1, <2>2
  <2>4. t \in Seq(1..secrets')
    BY <2>2, <2>3
  <2>5. accounts' = [accounts EXCEPT ![a] = t]
    BY <2>1
  <2> QED BY <1>3, <2>1, <2>2, <2>4, <2>5
<1> QED BY <1>2, <1>5, <1>6

\* Calls, edits and restarts.
LEMMA SmallBeginnings ==
    ASSUME Cat!OursInv, Cat!SizesRight,
           \/ \E c \in CatCallers : Cat!Notified(c) \/ Cat!SyncNow(c) \/ Cat!RotateKey(c) \/ Cat!Save(c) \/ \E u \in BOOLEAN : Cat!Disconnect(c, u)
           \/ \E i \in CatInsts : Cat!Edit(i) \/ Cat!Unannounced(i)
           \/ Cat!Reboot
    PROVE  Cat!SizesRight'
<1>1. /\ due \in Nat /\ due <= edits + 1 /\ edits \in Nat /\ edits <= CatEdits /\ CatEdits \in Nat /\ asks \in Nat /\ asks <= CatAsks /\ CatAsks \in Nat /\ 0 \in 0..secrets
      /\ slips \cup Cat!Tears \cup {"unheard"} \subseteq Cat!Slips
  BY CatalogAssumed DEF Cat!SizesRight, Cat!CatalogAssumption, Cat!Tears, Cat!Slips
<1>2. ASSUME NEW c \in CatCallers, NEW op, NEW pc, Cat!StartCall(c, op, pc), due' \in {due, due - 1}, due' \in Nat, asks' \in {asks, asks + 1}, asks' <= CatAsks
      PROVE  Cat!SizesRight'
  <2>1. call' = [call EXCEPT ![c] = [Cat!Resting EXCEPT !.pc = pc, !.op = op]] /\ UNCHANGED <<accounts, stored, sync, holder, secrets, edits, slips>>
    BY <1>2 DEF Cat!StartCall
  <2>2. call'[c].secret = 0 /\ RestStands(c)
    BY <2>1 DEF Cat!OursInv, RestStands, Cat!Resting
  <2>3. due' \in 0..(edits + 1) /\ asks' \in 0..CatAsks
    BY <1>1, <1>2
  <2>4. \A d \in CatCallers : call'[d].secret \in 0..secrets
    BY <1>1, <2>2 DEF RestStands, Cat!SizesRight
  <2> QED BY <2>1, <2>3, <2>4 DEF Cat!SizesRight
<1>3. ASSUME NEW c \in CatCallers, Cat!Notified(c) \/ Cat!SyncNow(c) \/ Cat!RotateKey(c) \/ Cat!Save(c) \/ \E u \in BOOLEAN : Cat!Disconnect(c, u)
      PROVE  Cat!SizesRight'
  <2>1. PICK op, pc : Cat!StartCall(c, op, pc)
    BY <1>3 DEF Cat!Notified, Cat!SyncNow, Cat!RotateKey, Cat!Save, Cat!Disconnect, Cat!Asked
  <2>2. due' \in {due, due - 1} /\ due' \in Nat /\ asks' \in {asks, asks + 1} /\ asks' <= CatAsks
    BY <1>1, <1>3 DEF Cat!Notified, Cat!SyncNow, Cat!RotateKey, Cat!Save, Cat!Disconnect, Cat!Asked
  <2> QED BY <1>2, <2>1, <2>2
<1>4. ASSUME NEW i \in CatInsts, Cat!Edit(i) \/ Cat!Unannounced(i) PROVE Cat!SizesRight'
  <2>1. edits' \in 0..CatEdits /\ due' \in 0..(edits' + 1) /\ UNCHANGED <<accounts, stored, sync, holder, call, secrets, asks>>
        /\ slips' \subseteq Cat!Slips
    BY <1>1, <1>4 DEF Cat!Edit, Cat!Unannounced
  <2> QED BY <2>1 DEF Cat!SizesRight
<1>5. CASE Cat!Reboot
  <2>1. due' \in 0..(edits' + 1) /\ asks' \in 0..CatAsks /\ holder' = None /\ call' = [d \in CatCallers |-> Cat!Resting]
        /\ UNCHANGED <<accounts, stored, sync, secrets, edits>> /\ slips' \subseteq Cat!Slips
    BY <1>1, <1>5 DEF Cat!Reboot, Cat!store
  <2>2. \A d \in CatCallers : call'[d].secret = 0
    BY <2>1 DEF Cat!Resting
  <2> QED BY <1>1, <2>1, <2>2 DEF Cat!SizesRight
<1> QED BY <1>3, <1>4, <1>5

-----------------------------------------------------------------------------
(* The whole invariant.                                                    *)

LEMMA CatalogBegins == Cat!CatInit => Cat!SizesRight /\ Cat!CatalogInv
<1> SUFFICES ASSUME Cat!CatInit PROVE Cat!SizesRight /\ Cat!CatalogInv
  OBVIOUS
<1>1. /\ accounts = [a \in 1..CatAccounts |-> None] /\ stored = 0 /\ conf = FALSE /\ sync = "none" /\ holder = None /\ due = 0
      /\ call = [c \in CatCallers |-> Cat!Resting] /\ secrets = 0 /\ edits = 0 /\ asks = 0 /\ slips = {}
  BY DEF Cat!CatInit
<1>2. \A c \in CatCallers : call[c].pc = "idle" /\ call[c].op = "none" /\ call[c].secret = 0
  BY <1>1 DEF Cat!Resting
<1>3. Cat!SizesRight
  BY <1>1, <1>2, CatalogAssumed DEF Cat!SizesRight, Cat!CatalogAssumption
<1>4. Cat!Exist = {} /\ \A c \in CatCallers : holder # c
  BY <1>1, CatalogAssumed DEF Cat!Exist, Cat!CatalogAssumption
<1>5. Cat!CallsRight
  BY <1>2, <1>4 DEF Cat!CallsRight, Cat!Leaving
<1>6. Cat!OwnersRight
  <2>1. PICK legacy \in {None} \cup (Entries \ Foreign), s \in Names :
          remote = [e \in Entries |-> IF e \in Foreign THEN [managed |-> FALSE, owner |-> None, name |-> s, key |-> 0]
                                      ELSE IF e = legacy THEN [managed |-> TRUE, owner |-> s, name |-> s, key |-> 0] ELSE None]
    BY DEF Cat!CatInit
  <2> QED BY <2>1 DEF Cat!OwnersRight, Cat!IsManaged
<1>7. Cat!Alone /\ Cat!AccountsRight /\ Cat!SecretsRight /\ Cat!Fresh /\ Cat!Passes /\ Cat!Reached
  <2>1. Cat!Alone /\ Cat!Fresh /\ Cat!Passes
    BY <1>2, <1>4 DEF Cat!Alone, Cat!Fresh, Cat!Passes
  <2>2. Cat!AccountsRight
    BY <1>1, <1>2, <1>4 DEF Cat!AccountsRight, Cat!At, Cat!Working
  <2>3. Cat!SecretsRight
    BY <1>1, <1>2 DEF Cat!SecretsRight, Cat!At
  <2>4. Cat!Reached
    BY <1>1 DEF Cat!Reached
  <2> QED BY <2>1, <2>2, <2>3, <2>4
<1> QED BY <1>3, <1>5, <1>6, <1>7 DEF Cat!CatalogInv

LEMMA CatalogGoes == Cat!OursInv /\ Cat!SizesRight /\ Cat!CatalogInv /\ [Cat!CatNext]_(Cat!catVars) => Cat!SizesRight' /\ Cat!CatalogInv'
<1> SUFFICES ASSUME Cat!OursInv, Cat!SizesRight, Cat!CatalogInv, [Cat!CatNext]_(Cat!catVars) PROVE Cat!SizesRight' /\ Cat!CatalogInv'
  OBVIOUS
<1>1. CASE UNCHANGED Cat!catVars
  <2>1. UNCHANGED <<inst, remote, accounts, stored, conf, sync, holder, due, call, secrets, mixed, edits, asks, slips>>
    BY <1>1 DEF Cat!catVars
  <2>2. Cat!SizesRight'
    BY <2>1 DEF Cat!SizesRight
  <2>3. Cat!CallsRight' /\ Cat!OwnersRight' /\ Cat!Alone' = Cat!Alone
    BY <2>1 DEF Cat!CatalogInv, Cat!CallsRight, Cat!OwnersRight, Cat!Alone
  <2>4. ~mixed => Cat!AccountsRight' /\ Cat!SecretsRight'
    BY <2>1, SameKeys DEF Cat!CatalogInv, Cat!AccountsRight, Cat!SecretsRight, Cat!At
  <2>5. ~mixed => Cat!Fresh' /\ Cat!Passes'
    BY <2>1, SameCurrent, SamePass DEF Cat!CatalogInv, Cat!Fresh, Cat!Passes, Cat!At
  <2>6. ~mixed => Cat!Reached'
    BY <2>1, SameRows DEF Cat!CatalogInv, Cat!Reached, Cat!Behind, Cat!At
  <2> QED BY <2>1, <2>2, <2>3, <2>4, <2>5, <2>6 DEF Cat!CatalogInv
<1>2. ASSUME NEW c \in CatCallers, Cat!Pass(c) PROVE Cat!SizesRight' /\ Cat!CatalogInv'
  <2>1. Cat!SizesRight'
    BY <1>2, SmallOnTheWay, SmallAtTheRows, SmallMaking, SmallErrors DEF Cat!Pass
  <2>2. Cat!CatalogInv'
    BY <1>2, Locking, MovingOn, MakesAccount, GivesSecret, StoresSecret, Principals, Lists, Publishes, Unpublishes, Finishes, Failing,
       StoreFailing, UnpublishesAll, UnpublishesOne, LeaveFailing, Forgets DEF Cat!Pass
  <2> QED BY <2>1, <2>2
<1>3. ASSUME NEW c \in CatCallers, Cat!Notified(c) \/ Cat!SyncNow(c) \/ Cat!RotateKey(c) \/ Cat!Save(c) \/ \E u \in BOOLEAN : Cat!Disconnect(c, u)
      PROVE  Cat!SizesRight' /\ Cat!CatalogInv'
  BY <1>3, SmallBeginnings, AnyCallBegins
<1>4. ASSUME NEW i \in CatInsts, Cat!Edit(i) \/ Cat!Unannounced(i) PROVE Cat!SizesRight' /\ Cat!CatalogInv'
  BY <1>4, SmallBeginnings, Edits, GoesUnannounced
<1>5. CASE Cat!Reboot
  BY <1>5, SmallBeginnings, Reboots
<1> QED BY <1>1, <1>2, <1>3, <1>4, <1>5 DEF Cat!CatNext

\* What the invariant gives when nothing is under way.
LEMMA CatalogGives ==
    ASSUME Cat!OursInv, Cat!SizesRight, Cat!CatalogInv
    PROVE  Cat!CatTypeOK /\ Cat!CatalogRight /\ Cat!StoredWorks /\ Cat!NothingLeft /\ (~Masks => Cat!Republished)
<1>1. Cat!CatTypeOK
  <2>1. Cat!Live \subseteq 1..secrets
    <3>1. ASSUME NEW a \in Cat!Exist PROVE Cat!Range(accounts[a]) \subseteq 1..secrets
      <4>1. accounts[a] \in Seq(1..secrets)
        BY SomeKeys
      <4> QED BY <4>1, RangeIn
    <3> QED BY <3>1 DEF Cat!Live
  <2>2. \A e \in Entries : remote[e] = None \/ DOMAIN remote[e] = {"managed", "owner", "name", "key"}
    BY DEF Cat!OursInv, Cat!Row
  <2>3. due \in 0..(CatEdits + 1)
    BY CatalogAssumed DEF Cat!SizesRight, Cat!CatalogAssumption
  <2> QED BY <2>1, <2>2, <2>3 DEF Cat!SizesRight, Cat!CatTypeOK
<1>2. Cat!AllIdle => \A c \in CatCallers : holder # c
  BY DEF Cat!CatalogInv, Cat!CallsRight, Cat!AllIdle, Cat!Working
<1>3. Cat!AllIdle /\ ~mixed => ("torn" \notin slips /\ stored # 0 => stored \in Cat!Live) /\ (~conf => Cat!Exist = {})
  BY DEF Cat!CatalogInv, Cat!AccountsRight, Cat!SecretsRight, Cat!At, Cat!AllIdle
<1>4. Cat!InSync => Cat!RowsRight
  <2> SUFFICES ASSUME Cat!InSync PROVE Cat!RowsRight
    OBVIOUS
  <2>1. Cat!AllIdle /\ due = 0 /\ sync = "ok" /\ ~mixed /\ slips \cap {"unheard", "unwritten"} = {}
    BY DEF Cat!InSync
  <2>2. holder = None
    BY <1>2, <2>1 DEF Cat!SizesRight
  <2>3. ~Cat!Behind /\ ~Cat!At(Cat!Leaving \ {"unlist"})
    BY <1>2, <2>1 DEF Cat!Behind, Cat!At, Cat!AllIdle, Cat!Leaving
  <2> QED BY <2>1, <2>2, <2>3 DEF Cat!CatalogInv, Cat!Reached
<1>5. Cat!CatalogRight /\ (~Masks => Cat!Republished)
  BY <1>4 DEF Cat!CatalogRight, Cat!Republished, Cat!RowsRight, Cat!RowFor
<1> QED BY <1>1, <1>3, <1>5 DEF Cat!StoredWorks, Cat!NothingLeft

-----------------------------------------------------------------------------
(* The catalog among the records.                                          *)

\* The invariant of the catalog, while it is in focus.
CatalogHeld == focus = "catalog" => Cat!OursInv /\ Cat!SizesRight /\ Cat!CatalogInv

LEMMA CatalogStart == Init => CatalogHeld
  BY CatBegin, CatalogBegins DEF Init, CatalogHeld

\* A step of the records is one of the catalog when it is in focus, or none.
LEMMA CatalogMoves == [MCNext]_allVars /\ focus = "catalog" => Cat!CatNext \/ UNCHANGED Cat!catVars
  BY DEF MCNext, Component, allVars, shared, Cat!catVars, rest5

LEMMA CatalogStep == CatalogHeld /\ [MCNext]_allVars => CatalogHeld'
<1> SUFFICES ASSUME CatalogHeld, [MCNext]_allVars, focus' = "catalog"
             PROVE  Cat!OursInv' /\ Cat!SizesRight' /\ Cat!CatalogInv'
  BY DEF CatalogHeld
<1>1. focus = "catalog"
  BY DEF MCNext, allVars
<1> QED BY <1>1, CatalogMoves, CatGo, CatalogGoes DEF CatalogHeld

\* Publishing never touches a row of the proxy that is not the manager's
\* (litellm/service.go), the catalog's part of what the run checks of steps.
THEOREM RowsOfOthersKept == RecordsSpec => [][focus = "catalog" => Cat!OthersKept]_allVars
<1>1. CatalogHeld /\ [MCNext]_allVars => [focus = "catalog" => Cat!OthersKept]_allVars
  BY CatalogMoves, CatOthers DEF CatalogHeld
<1> QED BY <1>1, CatalogStart, CatalogStep, PTL DEF RecordsSpec

\* With errors, disconnecting clients and restarts at any step: after a pass that
\* went well and could write that down, and with no change of an instance that
\* nobody was told of, every enabled instance has its row and every row its
\* instance; the stored secret authenticates unless its key was given another one
\* that was never stored; and a disconnect that ran by itself to its end leaves no
\* account (litellm/service.go).  Nothing is said once two secrets were under way
\* at once or a disconnect overlapped with another call.
THEOREM CatalogStands == RecordsSpec => [](focus = "catalog" => Cat!CatalogRight /\ Cat!StoredWorks /\ Cat!NothingLeft)
<1>1. CatalogHeld => (focus = "catalog" => Cat!CatalogRight /\ Cat!StoredWorks /\ Cat!NothingLeft)
  BY CatalogGives DEF CatalogHeld
<1> QED BY <1>1, CatalogStart, CatalogStep, PTL DEF RecordsSpec

\* To a proxy that shows the keys of its rows, a pass publishes the stored secret
\* with every row too, under the same conditions (litellm/client.go), as the run
\* checks it.
THEOREM CatalogKept == RecordsSpec => [](~Masks => CatalogSafe)
<1>1. CatalogHeld => (~Masks => CatalogSafe)
  BY CatalogGives DEF CatalogHeld, CatalogSafe
<1> QED BY <1>1, CatalogStart, CatalogStep, PTL DEF RecordsSpec

-----------------------------------------------------------------------------
(* The model imports.                                                      *)

\* The invariant of the imports, while they are in focus.
ImportsHeld == focus = "imports" => Imp!ImpInv

LEMMA ImportsStart == Init => ImportsHeld
  BY ImpBegin DEF Init, ImportsHeld

\* A step of the records is one of the imports when they are in focus, or none.
LEMMA ImportsMoves == [MCNext]_allVars /\ focus = "imports" => [Imp!ImpNext]_(Imp!impVars)
  BY DEF MCNext, Component, allVars, shared, Imp!impVars, rest5

LEMMA ImportsStep == ImportsHeld /\ [MCNext]_allVars => ImportsHeld'
<1> SUFFICES ASSUME ImportsHeld, [MCNext]_allVars, focus' = "imports"
             PROVE  Imp!ImpInv'
  BY DEF ImportsHeld
<1>1. focus = "imports"
  BY DEF MCNext, allVars
<1> QED BY <1>1, ImportsMoves, ImpGo DEF ImportsHeld

\* The rows of an import stay linked; its instance is enabled only when the
\* download has completed or a user asked for it; an import that failed and whose
\* undo went through leaves neither model nor instance, while one whose undo
\* failed too may leave both; and an instance that is enabled has been announced
\* or will be (modelimports/service.go), as the run checks it.
THEOREM ImportsKept == RecordsSpec => []ImportsRight
<1>1. ImportsHeld => ImportsRight
  BY ImpKeeps DEF ImportsHeld, ImportsRight
<1> QED BY <1>1, ImportsStart, ImportsStep, PTL DEF RecordsSpec

-----------------------------------------------------------------------------
(* All of the records.                                                     *)

\* An import's clean-up takes only rows that its import made, and a model only
\* when the import made it (modelimports/service.go), the imports' part of what
\* the run checks of steps.
THEOREM CleanupsSpare == RecordsSpec => [][focus = "imports" => Imp!CleanupOwnModel]_allVars
<1>1. ImportsHeld /\ [MCNext]_allVars => [focus = "imports" => Imp!CleanupOwnModel]_allVars
  BY ImportsMoves, ImpCleanupOwn DEF ImportsHeld
<1> QED BY <1>1, ImportsStart, ImportsStep, PTL DEF RecordsSpec

\* The same for the records of access, and for those of models.
AccessKept ==
    /\ focus = "tickets" => Tkt!PaysItself
    /\ focus = "providers" => Prov!OnlyTestsLockOut
    /\ focus = "limit" => (Limit!LockHolds /\ Limit!SlowHolds)
    /\ focus = "settings" => Set!VettedAsWhole
ModelsKept ==
    /\ focus = "imports" => Imp!CleanupOwnModel
    /\ focus = "instances" => Inst!LeftOutKept
    /\ focus = "catalog" => Cat!OthersKept
    /\ focus = "files" => (Files!OthersFilesKept /\ Files!RowLast)
    /\ focus = "discovery" => Disc!GivenKept

LEMMA AccessStays == RecordsSpec => [][AccessKept]_allVars
<1>1. /\ [focus = "tickets" => Tkt!PaysItself]_allVars
      /\ [focus = "providers" => Prov!OnlyTestsLockOut]_allVars
      /\ [focus = "limit" => (Limit!LockHolds /\ Limit!SlowHolds)]_allVars
      /\ [focus = "settings" => Set!VettedAsWhole]_allVars
      => [AccessKept]_allVars
  BY DEF AccessKept
<1> QED BY <1>1, TicketsPay, TestsLockOut, LockoutsLast, SettingsWhole, PTL

LEMMA ModelsStay == RecordsSpec => [][ModelsKept]_allVars
<1>1. /\ [focus = "imports" => Imp!CleanupOwnModel]_allVars
      /\ [focus = "instances" => Inst!LeftOutKept]_allVars
      /\ [focus = "catalog" => Cat!OthersKept]_allVars
      /\ [focus = "files" => (Files!OthersFilesKept /\ Files!RowLast)]_allVars
      /\ [focus = "discovery" => Disc!GivenKept]_allVars
      => [ModelsKept]_allVars
  BY DEF ModelsKept
<1> QED BY <1>1, CleanupsSpare, InstancesKept, RowsOfOthersKept, FilesSpared, ContextKept, PTL

\* What a step of the records may never do: a socket or a failed attempt pay for
\* another, a lockout end early, a setting change without a request that was
\* vetted for it, a clean-up or an update touch what is not its own, a row go
\* before its files, as the run checks it.
THEOREM StepsKept == RecordsSpec => StepsKeep
<1>1. [AccessKept]_allVars /\ [ModelsKept]_allVars => [StepKept]_allVars
  BY DEF AccessKept, ModelsKept, StepKept
<1> QED BY <1>1, AccessStays, ModelsStay, PTL DEF StepsKeep

-----------------------------------------------------------------------------
(* What the records' variables hold.                                       *)

Components == {"keys", "accounts", "tickets", "providers", "sso", "limit", "settings", "imports", "instances", "catalog", "files", "discovery"}

\* The invariants of all components, each while its component is in focus.
RecordsHeld ==
    /\ focus \in Components
    /\ KeyInv /\ AccountsHeld /\ TicketsHeld /\ ProvidersHeld /\ SsoHeld /\ LimitHeld /\ SettingsHeld
    /\ ImportsHeld /\ InstancesHeld /\ CatalogHeld /\ FilesHeld /\ DiscoveryHeld

LEMMA RecordsStart == Init => RecordsHeld
<1> SUFFICES ASSUME Init PROVE RecordsHeld
  OBVIOUS
<1>1. focus \in Components
  BY DEF Init, Components
<1>2. KeyInv /\ TicketsHeld /\ SettingsHeld
  BY KeyBegin, TicketBegin, SettingsBegin DEF Init, TicketsHeld, SettingsHeld
<1> QED BY <1>1, <1>2, AccountsStart, ProvidersStart, SsoStart, LimitStart, ImportsStart, InstancesStart, CatalogStart, FilesStart, DiscoveryStart
        DEF RecordsHeld

LEMMA RecordsGo == RecordsHeld /\ [MCNext]_allVars => RecordsHeld'
<1> SUFFICES ASSUME RecordsHeld, [MCNext]_allVars PROVE RecordsHeld'
  OBVIOUS
<1>1. focus' = focus
  BY DEF MCNext, allVars
<1>2. KeyInv' /\ AccountsHeld' /\ TicketsHeld' /\ ProvidersHeld' /\ SsoHeld' /\ LimitHeld' /\ SettingsHeld'
  BY KeysStep, AccountsStep, TicketsStep, ProvidersStep, SsoStep, LimitStep, SettingsStep DEF RecordsHeld
<1>3. ImportsHeld' /\ InstancesHeld' /\ CatalogHeld' /\ FilesHeld' /\ DiscoveryHeld'
  BY ImportsStep, InstancesStep, CatalogStep, FilesStep, DiscoveryStep DEF RecordsHeld
<1> QED BY <1>1, <1>2, <1>3 DEF RecordsHeld

\* The invariant of a component types its variables.
LEMMA HeldTyped == RecordsHeld => TypesOK
<1> SUFFICES ASSUME RecordsHeld PROVE TypesOK
  OBVIOUS
<1>1. /\ KeyTypeOK
      /\ focus = "accounts" => Acc!AccTypeOK
      /\ focus = "tickets" => Tkt!TicketTypeOK
      /\ focus = "providers" => Prov!ProviderTypeOK
      /\ focus = "sso" => Sso!SsoTypeOK
      /\ focus = "limit" => Limit!LimitTypeOK
      /\ focus = "settings" => Set!SetTypeOK
  BY DEF RecordsHeld, KeyInv, AccountsHeld, Acc!AccInv, TicketsHeld, Tkt!TicketInv, ProvidersHeld, Prov!ProviderInv, SsoHeld, Sso!SsoInv,
         LimitHeld, Limit!LimitInv, SettingsHeld, Set!SetInv
<1>2. /\ focus = "imports" => Imp!ImpTypeOK
      /\ focus = "catalog" => Cat!CatTypeOK
  BY ImpKeeps, CatalogGives DEF RecordsHeld, ImportsHeld, CatalogHeld
<1>3. /\ focus = "instances" => Inst!InstTypeOK
      /\ focus = "files" => Files!FilesTypeOK
      /\ focus = "discovery" => Disc!DiscTypeOK
  BY DEF RecordsHeld, InstancesHeld, Inst!InstInv, FilesHeld, Files!FilesInv, DiscoveryHeld, Disc!DiscInv
<1>4. focus \in Components
  BY DEF RecordsHeld
<1>5. CASE focus = "keys"
  BY <1>1, <1>5 DEF TypesOK
<1>6. CASE focus = "accounts"
  BY <1>1, <1>6 DEF TypesOK
<1>7. CASE focus = "tickets"
  BY <1>1, <1>7 DEF TypesOK
<1>8. CASE focus = "providers"
  BY <1>1, <1>8 DEF TypesOK
<1>9. CASE focus = "sso"
  BY <1>1, <1>9 DEF TypesOK
<1>10. CASE focus = "limit"
  BY <1>1, <1>10 DEF TypesOK
<1>11. CASE focus = "settings"
  BY <1>1, <1>11 DEF TypesOK
<1>12. CASE focus = "imports"
  BY <1>2, <1>12 DEF TypesOK
<1>13. CASE focus = "instances"
  BY <1>3, <1>13 DEF TypesOK
<1>14. CASE focus = "catalog"
  BY <1>2, <1>14 DEF TypesOK
<1>15. CASE focus = "files"
  BY <1>3, <1>15 DEF TypesOK
<1>16. CASE focus = "discovery"
  BY <1>3, <1>16 DEF TypesOK
<1> QED BY <1>4, <1>5, <1>6, <1>7, <1>8, <1>9, <1>10, <1>11, <1>12, <1>13, <1>14, <1>15, <1>16 DEF Components

\* Every component's variables hold what its code keeps in them, as the run
\* checks it.
THEOREM RecordsTyped == RecordsSpec => []TypesOK
BY RecordsStart, RecordsGo, HeldTyped, PTL DEF RecordsSpec
=============================================================================
