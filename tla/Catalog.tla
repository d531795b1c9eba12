------------------------------- MODULE Catalog -------------------------------
(***************************************************************************)
(* Publishing the enabled instances in a LiteLLM proxy (litellm/service.go,*)
(* client.go) under the hidden account and key of auth/service_accounts.go *)
(* and auth/api_keys.go.  Reconciles are serialised by reconcileMu; saving,*)
(* rotating and disconnecting touch the same secrets outside of it.  Any   *)
(* statement or call to the proxy may fail, and one with a context that    *)
(* has ended does: what is done by then stays done, and what a pass would  *)
(* write down of itself is lost with it.                                   *)
(***************************************************************************)
EXTENDS Integers, FiniteSets, Sequences, Functions

CONSTANTS
    CatInsts, Names,    \* instance ids and slugs
    Entries,            \* ids of the proxy's model rows
    Foreign,            \* the rows of others
    Callers,            \* goroutines: requests and notifications
    Masks,              \* whether the proxy hides keys when it lists rows (external)
    None,
    EditLimit, AskLimit, SecretLimit, AccountLimit  \* bounds on instance edits and errors, requests, secrets, accounts

\* A row of the proxy.
Row == [managed : BOOLEAN, owner : CatInsts \cup Names \cup {None}, name : Names \cup {None}, key : Nat]

CatalogAssumption ==
    /\ Foreign \subseteq Entries /\ Masks \in BOOLEAN /\ CatInsts \cap Names = {} /\ {EditLimit, AskLimit, SecretLimit, AccountLimit} \subseteq Nat
    /\ None \notin Row /\ None \notin Seq(Nat) /\ None \notin Callers

VARIABLES
    inst,       \* instances: None before its creation, then [slug, on]
    remote,     \* the proxy's rows: None or [managed, owner, name, key]
    accounts,   \* hidden service accounts in order of creation: the secrets of their keys,
                \* newest key first, or None
    stored,     \* provider_secrets: litellm_inference_api_key; 0 when absent
    conf,       \* whether the proxy URL and key are stored
    sync,       \* litellm_last_sync
    holder,     \* reconcileMu
    due,        \* NotifyInstanceChange calls not yet running
    call,       \* where each caller stands
    secrets,    \* secrets generated so far
    mixed,      \* a second account was made, a secret was generated while another was not stored yet or by a save
                \* amid a pass, or a disconnect overlapped with anything or failed (history)
    edits, asks,
    slips       \* what went wrong and no later step made good (history)

catVars == <<inst, remote, accounts, stored, conf, sync, holder, due, call, secrets, mixed, edits, asks, slips>>
store   == <<inst, remote, accounts, stored, conf, sync>>

\* An instance changed and nobody was notified, and no pass has read it since; a
\* pass, a save or a rotation ended and left the "ok" of one before it; a secret
\* was generated and not stored while an older one is, and none was stored since.
Slips == {"unheard", "unwritten", "torn"}

\* A deleted instance has no slug any more; one is on when it is enabled and no
\* import of it is still loading (enabledInstances).
Gone == [slug |-> None, on |-> FALSE]
Resting == [pc |-> "idle", op |-> "none", acct |-> 0, secret |-> 0, want |-> [i \in CatInsts |-> None],
            seen |-> [e \in Entries |-> None], todo |-> {}, drop |-> {}]
Goto(c, pc) == call' = [call EXCEPT ![c].pc = pc]
EnabledNow == [i \in CatInsts |-> IF inst[i] = None THEN None ELSE IF inst[i].on THEN inst[i].slug ELSE None]
Exist == {a \in 1..AccountLimit : accounts[a] # None}
First == CHOOSE a \in Exist : \A b \in Exist : a <= b
Live == UNION {Range(accounts[a]) : a \in Exist}
HasKey(a) == a \in Exist /\ accounts[a] # <<>>
Working == {"account", "newaccount", "key", "newkey", "check", "rotate", "store", "ready", "list", "publish"}
Leaving == {"unlist", "unpublish", "forget", "proxykey", "secret", "settings"}
AllIdle == \A c \in Callers : call[c].pc = "idle"

\* IsManaged
IsManaged(r) == r # None /\ r.managed

\* At the start there are instances, and the proxy may hold rows of others, and a row from before
\* ownership was by id, whose owner is a slug.
CatInit ==
    /\ inst \in {f \in [CatInsts -> {None} \cup [slug : Names, on : BOOLEAN]] :
                  \A i, k \in CatInsts : i # k /\ f[i] # None /\ f[k] # None => f[i].slug # f[k].slug}
    /\ accounts = [a \in 1..AccountLimit |-> None] /\ stored = 0 /\ conf = FALSE /\ sync = "none"
    /\ \E legacy \in {None} \cup (Entries \ Foreign), s \in Names :
         remote = [e \in Entries |-> IF e \in Foreign THEN [managed |-> FALSE, owner |-> None, name |-> s, key |-> 0]
                                     ELSE IF e = legacy THEN [managed |-> TRUE, owner |-> s, name |-> s, key |-> 0] ELSE None]
    /\ holder = None /\ due = 0 /\ call = [c \in Callers |-> Resting] /\ secrets = 0 /\ mixed = FALSE /\ edits = 0 /\ asks = 0 /\ slips = {}

-----------------------------------------------------------------------------
(* Instances change; each change starts a reconcile of its own.            *)

Edit(i) ==
    /\ edits < EditLimit /\ edits' = edits + 1 /\ due' = due + 1 /\ inst[i] # Gone
    /\ \/ \E s \in Names, on \in BOOLEAN :
            /\ \A k \in CatInsts \ {i} : inst[k] # None => inst[k].slug # s
            /\ inst' = [inst EXCEPT ![i] = [slug |-> s, on |-> on]]
       \/ inst[i] # None /\ inst' = [inst EXCEPT ![i] = Gone]
    /\ UNCHANGED <<remote, accounts, stored, conf, sync, holder, call, secrets, mixed, asks, slips>>

\* A model is deleted with its instances, an import changes its state or the
\* import reconciler enables an instance again: nothing notifies
\* (models.Delete, modelimports/service.go:275-313).
Unannounced(i) ==
    /\ edits < EditLimit /\ edits' = edits + 1 /\ inst[i] \notin {None, Gone}
    /\ inst' \in {[inst EXCEPT ![i] = Gone], [inst EXCEPT ![i].on = ~@]} /\ slips' = slips \cup {"unheard"}
    /\ UNCHANGED <<remote, accounts, stored, conf, sync, holder, due, call, secrets, mixed, asks>>

-----------------------------------------------------------------------------
(* Callers.  What overlaps a disconnect counts as mixed.                   *)

StartCall(c, op, pc) ==
    /\ call[c].pc = "idle" /\ call' = [call EXCEPT ![c] = [Resting EXCEPT !.pc = pc, !.op = op]]
    /\ mixed' = (\/ mixed
                 \/ \E d \in Callers : call[d].op = "disconnect"
                 \/ op = "disconnect" /\ ~AllIdle)
    /\ UNCHANGED <<inst, remote, accounts, stored, sync, holder, secrets, edits, slips>>

Asked(c, op, pc) == asks < AskLimit /\ asks' = asks + 1 /\ StartCall(c, op, pc) /\ UNCHANGED due

\* NotifyInstanceChange's goroutine; the sync request; the rotate request.
Notified(c) == due > 0 /\ due' = due - 1 /\ StartCall(c, "sync", "lock") /\ UNCHANGED <<conf, asks>>
SyncNow(c)  == Asked(c, "sync", "lock") /\ UNCHANGED conf
\* ManagedInferenceKey finds the key before anything else.
RotateKey(c)    == Exist # {} /\ HasKey(First) /\ Asked(c, "rotate", "rotate") /\ UNCHANGED conf
Disconnect(c, unpublish) == Asked(c, "disconnect", IF unpublish THEN "unlist" ELSE "forget") /\ UNCHANGED conf

\* Save stores the URL and the key before it does the rest.
Save(c) == Asked(c, "save", "account") /\ conf' = TRUE

Lock(c) ==
    /\ call[c].pc = "lock" /\ holder = None /\ holder' = c /\ Goto(c, "client")
    /\ UNCHANGED <<store, due, secrets, mixed, edits, asks, slips>>

\* A statement or a call fails, or its context has ended.
Errs == edits < EditLimit /\ edits' = edits + 1

\* A reconcile ends with what it writes down of itself, if that can be written
\* (persistLastSync, whose error is discarded).
WritesDown(result) == sync' = result /\ slips' = slips \ {"unwritten"}
Unwritten          == IF sync = "ok" THEN {"unwritten"} ELSE {}
LeavesNoResult     == sync' = sync /\ slips' = slips \cup Unwritten
Ends(c) == holder' = None /\ call' = [call EXCEPT ![c] = Resting]

\* An error ends a reconcile, a save or a rotation.
Failed(c) ==
    \/ holder = c /\ Ends(c) /\ (WritesDown("failed") \/ LeavesNoResult)
    \/ holder # c /\ call' = [call EXCEPT ![c] = Resting] /\ LeavesNoResult /\ UNCHANGED holder

Fails(c) ==
    /\ call[c].pc \in (Working \ {"store"}) \cup {"client"} /\ Failed(c) /\ Errs
    /\ UNCHANGED <<inst, remote, accounts, stored, conf, due, secrets, mixed, asks>>

\* newClient: without a URL and a key it fails.
NewProxyClient(c) ==
    /\ call[c].pc = "client" /\ conf /\ Goto(c, "account")
    /\ UNCHANGED <<store, holder, due, secrets, mixed, edits, asks, slips>>

-----------------------------------------------------------------------------
(* ensurePrincipal, in a reconcile or in a save.                           *)

\* EnsureHiddenServiceAccount: the first account of the name, or a new one.
EnsureAccount(c) ==
    /\ call[c].pc = "account"
    /\ call' = IF Exist = {} THEN [call EXCEPT ![c].pc = "newaccount"] ELSE [call EXCEPT ![c].pc = "key", ![c].acct = First]
    /\ UNCHANGED <<store, holder, due, secrets, mixed, edits, asks, slips>>

\* The name is not unique: a second account can come between.
CreateAccount(c) ==
    /\ call[c].pc = "newaccount"
    /\ \E a \in 1..AccountLimit :
         /\ a = 1 + Cardinality(Exist) /\ a \notin Exist
         /\ accounts' = [accounts EXCEPT ![a] = <<>>] /\ call' = [call EXCEPT ![c].pc = "key", ![c].acct = a]
    /\ mixed' = (mixed \/ Exist # {})
    /\ UNCHANGED <<inst, remote, stored, conf, sync, holder, due, secrets, edits, asks, slips>>

NewSecret(c) ==
    /\ secrets < SecretLimit /\ secrets' = secrets + 1
    /\ call' = [call EXCEPT ![c].pc = "store", ![c].secret = secrets']

\* EnsureManagedInferenceKey: the account's newest key, or a new one.
EnsureKey(c) ==
    /\ call[c].pc = "key" /\ Goto(c, IF HasKey(call[c].acct) THEN "check" ELSE "newkey")
    /\ UNCHANGED <<store, holder, due, secrets, mixed, edits, asks, slips>>

\* Without its account the insert fails.
CreateKey(c) ==
    /\ call[c].pc = "newkey" /\ call[c].acct \in Exist
    /\ NewSecret(c) /\ accounts' = [accounts EXCEPT ![call[c].acct] = <<secrets'>> \o @]
    /\ UNCHANGED <<inst, remote, stored, conf, sync, holder, due, mixed, edits, asks, slips>>

\* A key whose secret is not stored cannot be published: it gets a new one.
CheckStored(c) ==
    /\ call[c].pc = "check" /\ Goto(c, IF stored # 0 THEN "ready" ELSE "rotate")
    /\ UNCHANGED <<store, holder, due, secrets, mixed, edits, asks, slips>>

\* rotateAPIKeySecret; a key that is gone ends the call.
RotateSecret(c) ==
    /\ call[c].pc = "rotate"
    /\ LET a == IF call[c].acct # 0 THEN call[c].acct ELSE IF Exist # {} THEN First ELSE 0 IN
       HasKey(a) /\ NewSecret(c) /\ accounts' = [accounts EXCEPT ![a][1] = secrets']
    /\ UNCHANGED <<inst, remote, stored, conf, sync, holder, due, mixed, edits, asks, slips>>

\* A secret that another caller replaces before it is stored, or that a save
\* stores amid another's pass.
MixedByStore(c) ==
    mixed' = (mixed \/ (\E d \in Callers \ {c} : call[d].pc = "store") \/ (call[c].op = "save" /\ holder # None))

\* SetSecret.  A rotation that holds no lock yet goes on to reconcile.
StoreSecret(c) ==
    /\ call[c].pc = "store" /\ stored' = call[c].secret /\ slips' = slips \ {"torn"}
    /\ Goto(c, IF call[c].op = "rotate" /\ holder # c THEN "lock" ELSE "ready") /\ MixedByStore(c)
    /\ UNCHANGED <<inst, remote, accounts, conf, sync, holder, due, secrets, edits, asks>>

\* The key has its new hash and the secret is not stored: what is stored from
\* before authenticates no more, and as it is there nothing replaces it.
Tears == IF stored # 0 THEN {"torn"} ELSE {}
StoreFails(c) ==
    /\ call[c].pc = "store" /\ Errs /\ MixedByStore(c)
    /\ call' = [call EXCEPT ![c] = Resting] /\ holder' = (IF holder = c THEN None ELSE holder)
    /\ \/ holder = c /\ sync' = "failed" /\ slips' = (slips \ {"unwritten"}) \cup Tears
       \/ sync' = sync /\ slips' = slips \cup Unwritten \cup Tears
    /\ UNCHANGED <<inst, remote, accounts, stored, conf, due, secrets, asks>>

\* With the principal in place a save tests the proxy, writes down when that
\* fails, and reconciles; a reconcile reads the secret and the enabled instances.
Principal(c) ==
    /\ call[c].pc = "ready"
    /\ \/ holder # c /\ conf /\ Goto(c, "lock") /\ UNCHANGED <<sync, slips, edits>>
       \/ holder # c /\ conf /\ call' = [call EXCEPT ![c] = Resting] /\ WritesDown("failed") /\ Errs
       \/ /\ holder = c /\ stored # 0 /\ slips' = slips \ {"unheard"}
          /\ call' = [call EXCEPT ![c].pc = "list", ![c].secret = stored, ![c].want = EnabledNow] /\ UNCHANGED <<sync, edits>>
    /\ UNCHANGED <<inst, remote, accounts, stored, conf, holder, due, secrets, mixed, asks>>

-----------------------------------------------------------------------------
(* The reconcile's pass over the proxy's rows.                             *)

\* The instance a row stands for: by id, by the slug it was owned by, by its name.
ByName(c, s) == {i \in CatInsts : c.want[i] # None /\ c.want[i] = s}
StandsFor(c, r) ==
    IF r.owner \in CatInsts /\ c.want[r.owner] # None THEN {r.owner}
    ELSE IF ByName(c, r.owner) # {} THEN ByName(c, r.owner) ELSE ByName(c, r.name)

\* The rows an instance may be found at: a match by owner replaces one found
\* before, a match by name only fills a gap; the proxy lists in any order.
Candidates(c, i) ==
    LET rows == {e \in Entries : IsManaged(c.seen[e]) /\ StandsFor(c, c.seen[e]) = {i}}
        own  == {e \in rows : c.seen[e].owner = i \/ c.seen[e].owner = c.want[i]}
    IN IF own # {} THEN own ELSE rows

\* instanceEntryDrifted
Drifted(c, i, r) ==
    \/ r.name # c.want[i] \/ r.owner # i
    \/ ~Masks /\ r.key # c.secret

\* BuildInstanceModelEntry
Published(c, i) == [managed |-> TRUE, owner |-> i, name |-> c.want[i], key |-> c.secret]

List(c) ==
    /\ call[c].pc = "list"
    /\ call' = [call EXCEPT ![c].pc = "publish", ![c].seen = remote, ![c].todo = {i \in CatInsts : call[c].want[i] # None},
                ![c].drop = {e \in Entries : IsManaged(remote[e]) /\ StandsFor(call[c], remote[e]) = {}}]
    /\ UNCHANGED <<store, holder, due, secrets, mixed, edits, asks, slips>>

\* One instance: create its row, update the row it was found at, or leave it.
Publish(c) ==
    /\ call[c].pc = "publish" /\ call[c].todo # {}
    /\ \E i \in call[c].todo :
         /\ call' = [call EXCEPT ![c].todo = @ \ {i}]
         /\ \/ /\ Candidates(call[c], i) = {}
               /\ \E e \in Entries : remote[e] = None /\ remote' = [remote EXCEPT ![e] = Published(call[c], i)]
            \/ \E e \in Candidates(call[c], i) :
                 IF Drifted(call[c], i, call[c].seen[e])
                 THEN remote[e] # None /\ remote' = [remote EXCEPT ![e] = Published(call[c], i)]
                 ELSE UNCHANGED remote
    /\ UNCHANGED <<inst, accounts, stored, conf, sync, holder, due, secrets, mixed, edits, asks, slips>>

Unpublish(c) ==
    /\ call[c].pc = "publish" /\ call[c].todo = {} /\ call[c].drop # {}
    /\ \E e \in call[c].drop : remote' = [remote EXCEPT ![e] = None] /\ call' = [call EXCEPT ![c].drop = @ \ {e}]
    /\ UNCHANGED <<inst, accounts, stored, conf, sync, holder, due, secrets, mixed, edits, asks, slips>>

Finish(c) ==
    /\ call[c].pc = "publish" /\ call[c].todo = {} /\ call[c].drop = {} /\ Ends(c)
    /\ \/ WritesDown("ok") /\ UNCHANGED edits
       \/ LeavesNoResult /\ Errs
    /\ UNCHANGED <<inst, remote, accounts, stored, conf, due, secrets, mixed, asks>>

-----------------------------------------------------------------------------
(* Disconnect: the rows when asked, then the account, the secrets, the     *)
(* settings.                                                               *)

\* unpublishAll
UnpublishAll(c) ==
    /\ call[c].pc = "unlist" /\ conf
    /\ call' = [call EXCEPT ![c].pc = "unpublish", ![c].drop = {e \in Entries : IsManaged(remote[e])}]
    /\ UNCHANGED <<store, holder, due, secrets, mixed, edits, asks, slips>>

UnpublishOne(c) ==
    /\ call[c].pc = "unpublish"
    /\ \/ call[c].drop = {} /\ Goto(c, "forget") /\ UNCHANGED remote
       \/ \E e \in call[c].drop : remote' = [remote EXCEPT ![e] = None] /\ call' = [call EXCEPT ![c].drop = @ \ {e}]
    /\ UNCHANGED <<inst, accounts, stored, conf, sync, holder, due, secrets, mixed, edits, asks, slips>>

\* A disconnect that fails amid its work leaves the rest as it is.
LeaveFails(c) ==
    /\ call[c].pc \in Leaving /\ call' = [call EXCEPT ![c] = Resting] /\ mixed' = (mixed \/ call[c].pc # "unlist")
    /\ Errs /\ UNCHANGED <<store, holder, due, secrets, asks, slips>>

\* Faulty disconnect: an account that still has its key is kept.
ForgetBarePrincipal(c) ==
    /\ call[c].pc = "forget" /\ Goto(c, "proxykey")
    /\ accounts' = [a \in DOMAIN accounts |-> IF HasKey(a) THEN accounts[a] ELSE None]
    /\ UNCHANGED <<inst, remote, stored, conf, sync, holder, due, secrets, mixed, edits, asks, slips>>

\* DeleteHiddenServiceAccountByName takes the first account and its keys.
ForgetPrincipal(c) ==
    /\ call[c].pc = "forget" /\ accounts' = (IF Exist = {} THEN accounts ELSE [accounts EXCEPT ![First] = None]) /\ Goto(c, "proxykey")
    /\ UNCHANGED <<inst, remote, stored, conf, sync, holder, due, secrets, mixed, edits, asks, slips>>

ForgetProxyKey(c) ==
    /\ call[c].pc = "proxykey" /\ conf' = FALSE /\ Goto(c, "secret")
    /\ UNCHANGED <<inst, remote, accounts, stored, sync, holder, due, secrets, mixed, edits, asks, slips>>

ForgetSecret(c) ==
    /\ call[c].pc = "secret" /\ stored' = 0 /\ Goto(c, "settings")
    /\ UNCHANGED <<inst, remote, accounts, conf, sync, holder, due, secrets, mixed, edits, asks, slips>>

ForgetSettings(c) ==
    /\ call[c].pc = "settings" /\ sync' = "none" /\ conf' = FALSE /\ call' = [call EXCEPT ![c] = Resting]
    /\ UNCHANGED <<inst, remote, accounts, stored, holder, due, secrets, mixed, edits, asks, slips>>

-----------------------------------------------------------------------------
\* The manager stops and starts again: BootReconcile runs when configured.
Reboot ==
    /\ asks < AskLimit /\ asks' = asks + 1 /\ ~AllIdle
    /\ mixed' = (mixed \/ \E c \in Callers : call[c].op = "disconnect")
    /\ slips' = slips \cup (IF \E c \in Callers : call[c].pc = "store" THEN Tears ELSE {})
    /\ call' = [c \in Callers |-> Resting] /\ holder' = None /\ due' = (IF conf THEN 1 ELSE 0)
    /\ UNCHANGED <<store, secrets, edits>>

Pass(c) ==
    \/ Lock(c) \/ NewProxyClient(c) \/ EnsureAccount(c) \/ CreateAccount(c) \/ EnsureKey(c) \/ CreateKey(c) \/ CheckStored(c) \/ RotateSecret(c) \/ StoreSecret(c) \/ StoreFails(c)
    \/ Principal(c) \/ List(c) \/ Publish(c) \/ Unpublish(c) \/ Finish(c) \/ Fails(c) \/ LeaveFails(c)
    \/ UnpublishAll(c) \/ UnpublishOne(c) \/ ForgetPrincipal(c) \/ ForgetProxyKey(c) \/ ForgetSecret(c) \/ ForgetSettings(c)

CatNext ==
    \/ \E i \in CatInsts : Edit(i) \/ Unannounced(i)
    \/ \E c \in Callers : Notified(c) \/ SyncNow(c) \/ RotateKey(c) \/ Save(c) \/ (\E u \in BOOLEAN : Disconnect(c, u)) \/ Pass(c)
    \/ Reboot
CatSpec == CatInit /\ [][CatNext]_catVars

-----------------------------------------------------------------------------
(* Properties.                                                             *)

CatTypeOK ==
    /\ \A e \in Entries : remote[e] = None \/ DOMAIN remote[e] = {"managed", "owner", "name", "key"}
    /\ stored \in 0..secrets /\ secrets \in 0..SecretLimit /\ Live \subseteq 1..secrets
    /\ sync \in {"none", "ok", "failed"} /\ holder \in Callers \cup {None}
    /\ due \in 0..(EditLimit + 1) /\ edits \in 0..EditLimit /\ asks \in 0..AskLimit /\ slips \subseteq Slips

\* Nothing is under way, the last pass went well and could write that down, and
\* of every change of an instance somebody was notified or a pass has read it.
InSync == AllIdle /\ due = 0 /\ sync = "ok" /\ ~mixed /\ slips \cap {"unheard", "unwritten"} = {}

\* After a pass that went well, and the passes of all edits, every enabled
\* instance has a row of its own name, and no row's owner and name both mean
\* nothing (service.go:234-326).
CatalogRight ==
    InSync =>
      /\ \A i \in CatInsts : EnabledNow[i] # None =>
           \E e \in Entries : IsManaged(remote[e]) /\ remote[e].owner = i /\ remote[e].name = EnabledNow[i]
      /\ \A e \in Entries : IsManaged(remote[e]) => \E i \in CatInsts : EnabledNow[i] # None /\ (remote[e].owner = i \/ remote[e].name = EnabledNow[i])

\* Rows that are not the manager's never change (013 rule 7, client.go:165).
OthersKept == \A e \in Entries : remote[e] # None /\ ~remote[e].managed => remote'[e] = remote[e]

\* The stored secret is one that authenticates, unless two secrets were under way
\* at once, a disconnect overlapped or failed, or a stop, an error or a client
\* that left came between a key's new hash and the store of its secret, which
\* no later pass makes good: only a rotation does (service.go:180-203, 356-382).
StoredWorks == AllIdle /\ ~mixed /\ "torn" \notin slips /\ conf /\ stored # 0 => stored \in Live

\* One account is enough: a disconnect that ran by itself and did not fail
\* leaves no key that authenticates (service.go:205-215).
NothingLeft == AllIdle /\ ~mixed /\ ~conf => Exist = {}

\* litellm.vue:329: "The new secret will be republished on every LlamaRack-owned
\* model in the proxy."
Republished ==
    InSync => \A i \in CatInsts : EnabledNow[i] # None =>
        \E e \in Entries : IsManaged(remote[e]) /\ remote[e].owner = i /\ remote[e].key = stored

\* Why OthersKept holds: a row that a caller saw as the manager's, or that it is
\* to take out, is the manager's as long as it is there.
Stages == {"idle", "lock", "client", "account", "newaccount", "key", "newkey", "check", "rotate", "store", "ready", "list",
           "publish", "unlist", "unpublish", "forget", "proxykey", "secret", "settings"}
Ops    == {"none", "sync", "rotate", "save", "disconnect"}
Caller == [pc : Stages, op : Ops, acct : Nat, secret : Nat, want : [CatInsts -> Names \cup {None}],
           seen : [Entries -> Row \cup {None}], todo : SUBSET CatInsts, drop : SUBSET Entries]
Ours(e) == remote[e] = None \/ remote[e].managed

OursInv ==
    /\ inst \in [CatInsts -> [slug : Names \cup {None}, on : BOOLEAN] \cup {None}]
    /\ remote \in [Entries -> Row \cup {None}] /\ stored \in Nat /\ secrets \in Nat /\ call \in [Callers -> Caller]
    /\ \A c \in Callers, e \in Entries : IsManaged(call[c].seen[e]) \/ e \in call[c].drop => Ours(e)

-----------------------------------------------------------------------------
(* Why the rest holds.  What overlaps what must not is mixed, and nothing  *)
(* is claimed of it.                                                       *)

At(pcs) == \E c \in Callers : call[c].pc \in pcs

\* Who holds reconcileMu is in a pass, and only a save and a rotation come to
\* an account without it.
CallsRight ==
    \A c \in Callers :
      /\ call[c].op = "none" <=> call[c].pc = "idle"
      /\ call[c].op = "disconnect" <=> call[c].pc \in Leaving
      /\ holder = c => call[c].pc \in Working \cup {"client"}
      /\ call[c].pc \in {"client", "list", "publish"} => holder = c
      /\ call[c].op = "sync" => call[c].pc = "lock" \/ holder = c
      /\ call[c].op = "rotate" => call[c].pc \in {"rotate", "store", "lock"} \/ holder = c

\* A disconnect runs by itself.
Alone == \A c, d \in Callers : call[c].op = "disconnect" /\ c # d => call[d].pc = "idle"

\* There is one account at most, and none without a configuration.
AccountsRight ==
    /\ Exist \subseteq {1}
    /\ ~conf \/ At({"proxykey", "secret", "settings"}) => Exist = {}
    /\ ~conf => ~At(Working)
    /\ ~conf /\ ~At({"secret", "settings"}) => sync # "ok"

\* The stored secret works, if none was torn from its key, or the only one to be stored does.
SecretsRight ==
    /\ ~At({"store", "proxykey", "secret"}) /\ "torn" \notin slips /\ stored # 0 => stored \in Live
    /\ \A c \in Callers : call[c].pc = "store" /\ (\A d \in Callers \ {c} : call[d].pc # "store") => call[c].secret \in Live

\* A row that was published for an instance.
RowFor(r, i, name, key) == IsManaged(r) /\ r.owner = i /\ r.name = name /\ (Masks \/ r.key = key)
Alien(c, e) == IsManaged(c.seen[e]) /\ StandsFor(c, c.seen[e]) = {}

\* How far a pass over the rows has come: each done instance has a row that no
\* later step touches, each other row is as it was seen or published for an
\* instance, and what stands for none is dropped or still to be.
PassRight(c) ==
    /\ c.todo \subseteq {i \in CatInsts : c.want[i] # None} /\ (\A e \in c.drop : Alien(c, e))
    /\ c.todo # {} => \A e \in Entries : remote[e] = None => c.seen[e] = None
    /\ \A i \in CatInsts \ c.todo : c.want[i] # None =>
          \E e \in Entries : RowFor(remote[e], i, c.want[i], c.secret) /\ (c.seen[e] = None \/ StandsFor(c, c.seen[e]) = {i})
    /\ \A e \in Entries : \A i \in c.todo : IsManaged(c.seen[e]) /\ StandsFor(c, c.seen[e]) = {i} => remote[e] = c.seen[e]
    /\ \A e \in Entries : IsManaged(remote[e]) => remote[e] = c.seen[e] \/ \E i \in CatInsts : c.want[i] # None /\ remote[e].owner = i
    /\ \A e \in Entries : Alien(c, e) => e \in c.drop \/ remote[e] = None

\* The rows of the manager are owned by an instance or by the slug they bear.
OwnersRight == \A e \in Entries : IsManaged(remote[e]) => remote[e].owner \in CatInsts \/ (remote[e].owner \in Names /\ remote[e].name = remote[e].owner)

\* A pass is to come, or has yet to read what it works with.
Behind ==
    \/ due > 0 \/ At({"lock"})
    \/ \E c \in Callers : holder = c /\ call[c].pc \notin {"list", "publish"}
    \/ \E c \in Callers : call[c].op = "save" /\ call[c].pc = "ready" /\ holder # c
Current(c) == c.want = EnabledNow /\ c.secret = stored

\* What the rows have to be.
RowsRight ==
    /\ \A i \in CatInsts : EnabledNow[i] # None => \E e \in Entries : RowFor(remote[e], i, EnabledNow[i], stored)
    /\ \A e \in Entries : IsManaged(remote[e]) =>
          \E i \in CatInsts : EnabledNow[i] # None /\ (remote[e].owner = i \/ remote[e].name = EnabledNow[i])

\* What a pass works with is up to date, unless another is to come.
Fresh ==
    \A c \in Callers : holder = c /\ call[c].pc \in {"list", "publish"} /\ due = 0 /\ ~At({"lock"}) /\ "unheard" \notin slips => Current(call[c])
Passes  == \A c \in Callers : call[c].pc = "publish" => PassRight(call[c])
Reached == slips \cap {"unheard", "unwritten"} = {} /\ ~Behind /\ holder = None /\ ~At(Leaving \ {"unlist"}) /\ sync = "ok" => RowsRight

SizesRight ==
    /\ accounts \in [1..AccountLimit -> Seq(1..secrets) \cup {None}]
    /\ \A c \in Callers : call[c].secret \in 0..secrets
    /\ stored \in 0..secrets /\ secrets \in 0..SecretLimit /\ sync \in {"none", "ok", "failed"} /\ holder \in Callers \cup {None}
    /\ due \in 0..(edits + 1) /\ edits \in 0..EditLimit /\ asks \in 0..AskLimit /\ slips \subseteq Slips

CatalogInv ==
    /\ CallsRight /\ OwnersRight
    /\ ~mixed => Alone /\ AccountsRight /\ SecretsRight /\ Fresh /\ Passes /\ Reached
=============================================================================
