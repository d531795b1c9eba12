---------------------------- MODULE AccessProofs ----------------------------
(***************************************************************************)
(* What the records of access keep, for any number of keys, users,         *)
(* requests and the like: a section per component, with the inductive      *)
(* invariant of each.  Sections but the first speak of their component with*)
(* the names that it has for its constants and variables.                  *)
(*                                                                         *)
(* Keys come first (auth/api_keys_cache.go): what an authentication is     *)
(* answered is never older than the changes that were answered before it   *)
(* began.  The cache alone is not inductive: a copy waits between the query*)
(* and the cache in a request of its own.  What saves it is the generation:*)
(* whoever still holds the present one has read since the last clearing.   *)
(***************************************************************************)
EXTENDS AccessRecords, Sequences, FiniteSetTheorems, TLAPS

\* A copy of the row with secret s that shows the tables as they are now.
Shows(s, i) == \E k \in Keys : keyRow[k].secret = s /\ i = CopyOf(k)

\* An entry of the cache: not older than the last clearing, and if no change
\* came after it, what the tables say.
EntryRight(s) ==
    cached[s] # NoCopy =>
        /\ settled <= cached[s].ver /\ cached[s].ver <= ver
        /\ cached[s].ver = ver => Shows(s, cached[s])

\* A request: what it has read is not older than what was settled when it
\* began, and worth remembering if the generation is still its own.
Answering == {"check", "stamp", "use", "granted"}
CallerRight(c) ==
    /\ caller[c] # AtRest => caller[c].floor <= settled /\ caller[c].gen <= generation
    /\ caller[c].pc = "remember" =>
          /\ caller[c].item \in Copy /\ caller[c].item.ver <= ver
          /\ caller[c].floor <= caller[c].item.ver
          /\ caller[c].gen = generation => settled <= caller[c].item.ver
          /\ caller[c].item.ver = ver => Shows(caller[c].secret, caller[c].item)
    /\ caller[c].pc \in Answering => caller[c].floor <= caller[c].item.ver

KeyInv ==
    /\ KeyTypeOK
    /\ settled <= ver
    /\ \A s \in Secrets : EntryRight(s)
    /\ \A c \in Callers : CallerRight(c)

-----------------------------------------------------------------------------
(* Types.                                                                  *)

\* A request under way has all its fields.
LEMMA KeyUnderWay ==
    ASSUME KeyTypeOK, NEW c \in Callers, caller[c] # AtRest
    PROVE  caller[c] \in [pc : Walking, secret : Secrets, gen : Nat,
                          item : Copy \cup {NoCopy}, floor : 0..EditLimit]
BY DEF KeyTypeOK, CallerState

\* A row's copy is a copy.
LEMMA CopyType ==
    ASSUME KeyTypeOK, NEW k \in Keys, Exists(k)
    PROVE  CopyOf(k) \in Copy /\ CopyOf(k).ver = ver /\ keyRow[k] \in KeyRow
<1>1. keyRow[k] \in KeyRow
  BY DEF KeyTypeOK, Exists
<1>2. ver \in 0..EditLimit
  BY DEF KeyTypeOK
<1>3. CopyOf(k) \in Copy
  BY <1>1, <1>2 DEF CopyOf, Copy, KeyRow
<1> QED BY <1>1, <1>3 DEF CopyOf

\* What an edit leaves typed: rows, owners and the request that edits.
Tables ==
    /\ keyRow \in [Keys -> KeyRow \cup {NoRow}] /\ ownerRow \in [Owners -> {"on", "off", "gone"}]
    /\ editor \in [Editors -> EditorState] /\ minted \in 0..SecretLimit /\ ver \in 0..EditLimit

\* The number of the next change, and the next secret, are within their bounds.
LEMMA NextNumber ==
    ASSUME KeyAssumption, KeyTypeOK
    PROVE  /\ Changed => ver' \in 0..EditLimit /\ ver' = ver + 1
           /\ minted < SecretLimit => minted + 1 \in 0..SecretLimit /\ minted + 1 \in Secrets
BY DEF KeyAssumption, KeyTypeOK, Changed, Secrets

\* What a PATCH makes of a row is a row.
LEMMA PatchedType ==
    ASSUME NEW r \in KeyRow, NEW to \in Patched(r)
    PROVE  to \in KeyRow
BY DEF Patched, KeyRow

\* Every edit leaves the tables typed.
LEMMA EditTypes ==
    ASSUME KeyAssumption, KeyTypeOK, NEW e \in Editors, Edit(e)
    PROVE  Tables'
<1> USE DEF Tables
<1>0. Tables
  BY DEF KeyTypeOK
<1>c. [pc |-> "clear"] \in EditorState /\ AtRest \in EditorState
  BY DEF EditorState
<1>1. ASSUME NEW k \in Keys, ReadKey(e, k) PROVE Tables'
  <2>1. PICK to \in Patched(keyRow[k]) : editor' = [editor EXCEPT ![e] = [pc |-> "row", key |-> k, to |-> to]]
    BY <1>1 DEF ReadKey
  <2>2. to \in KeyRow
    BY <1>1, <2>1, CopyType, PatchedType DEF ReadKey
  <2>3. [pc |-> "row", key |-> k, to |-> to] \in EditorState
    BY <2>2 DEF EditorState
  <2> QED BY <1>0, <1>1, <2>1, <2>3 DEF ReadKey, tables
<1>2. ASSUME NEW k \in Keys, Rotate(e, k) PROVE Tables'
  <2>1. keyRow[k] \in KeyRow /\ [keyRow[k] EXCEPT !.secret = minted + 1] \in KeyRow
    BY <1>2, CopyType, NextNumber DEF Rotate, KeyRow
  <2> QED BY <1>0, <1>2, <1>c, <2>1, NextNumber DEF Rotate
<1>3. ASSUME NEW o \in Owners, SetUser(e, o) PROVE Tables'
  BY <1>0, <1>3, <1>c, NextNumber DEF SetUser
<1>4. ASSUME NEW o \in Owners, ReadAccount(e, o) PROVE Tables'
  <2>1. PICK to \in {"on", "off"} : editor' = [editor EXCEPT ![e] = [pc |-> "owner", owner |-> o, to |-> to]]
    BY <1>4 DEF ReadAccount
  <2>2. [pc |-> "owner", owner |-> o, to |-> to] \in EditorState
    BY DEF EditorState
  <2> QED BY <1>0, <1>4, <2>1, <2>2 DEF ReadAccount, tables
<1>5. ASSUME NEW o \in Owners, DeleteOwner(e, o) PROVE Tables'
  BY <1>0, <1>5, <1>c, NextNumber DEF DeleteOwner
<1>6. ASSUME WriteKey(e) PROVE Tables'
  <2> DEFINE k == editor[e].key
  <2> DEFINE to == editor[e].to
  <2>1. k \in Keys /\ to \in KeyRow
    BY <1>0, <1>6 DEF WriteKey, EditorState, AtRest
  <2>2. CASE Exists(k) /\ ownerRow[to.owner] # "gone"
    <3>1. keyRow[k] \in KeyRow
      BY <2>1, <2>2, CopyType
    <3>2. [to EXCEPT !.secret = keyRow[k].secret] \in KeyRow
      BY <2>1, <3>1 DEF KeyRow
    <3>3. /\ keyRow' = [keyRow EXCEPT ![k] = [to EXCEPT !.secret = keyRow[k].secret]]
          /\ Changed /\ editor' = [editor EXCEPT ![e] = [pc |-> "clear"]]
      BY <1>6, <2>2 DEF WriteKey
    <3> QED BY <1>0, <1>6, <1>c, <2>1, <3>2, <3>3, NextNumber DEF WriteKey
  <2>3. CASE ~(Exists(k) /\ ownerRow[to.owner] # "gone")
    BY <1>0, <1>6, <1>c, <2>3 DEF WriteKey
  <2> QED BY <2>2, <2>3
<1>7. ASSUME WriteAccount(e) PROVE Tables'
  <2>1. editor[e].owner \in Owners /\ editor[e].to \in {"on", "off"}
    BY <1>0, <1>7 DEF WriteAccount, EditorState, AtRest
  <2> QED BY <1>0, <1>7, <1>c, <2>1, NextNumber DEF WriteAccount
<1>8. ASSUME ClearCache(e) PROVE Tables'
  BY <1>0, <1>8, <1>c DEF ClearCache, tables
<1> QED BY <1>1, <1>2, <1>3, <1>4, <1>5, <1>6, <1>7, <1>8 DEF Edit

-----------------------------------------------------------------------------
(* Edits.                                                                  *)

\* A change that is numbered leaves no copy that claims to be of now.
LEMMA Numbered ==
    ASSUME KeyInv, Tables', ver' = ver + 1, UNCHANGED <<cacheVars, day, caller>>
    PROVE  KeyInv'
<1> USE DEF KeyInv
<1>0. UNCHANGED <<cached, generation, settled, day, caller>>
  BY DEF cacheVars
<1>1. KeyTypeOK'
  BY <1>0 DEF KeyTypeOK, Tables
<1>2. settled' <= ver'
  BY <1>0 DEF KeyTypeOK
<1>3. ASSUME NEW s \in Secrets PROVE EntryRight(s)'
  <2>1. cached[s] # NoCopy => cached[s].ver \in Nat /\ cached[s].ver <= ver
    BY DEF EntryRight, KeyTypeOK, Copy
  <2> QED BY <1>0, <2>1 DEF EntryRight, KeyTypeOK
<1>4. ASSUME NEW c \in Callers PROVE CallerRight(c)'
  <2>1. CallerRight(c) /\ ver \in Nat
    BY DEF KeyTypeOK
  <2>2. caller[c].pc = "remember" => caller[c].item.ver \in Nat
    BY <2>1 DEF CallerRight, Copy
  <2> QED BY <1>0, <2>1, <2>2 DEF CallerRight
<1> QED BY <1>1, <1>2, <1>3, <1>4

\* Nor does a step that changes neither rows nor owners.
LEMMA Unnumbered ==
    ASSUME KeyInv, KeyTypeOK', UNCHANGED <<keyRow, ownerRow, ver, cacheVars, caller>>
    PROVE  KeyInv'
<1>0. UNCHANGED <<keyRow, ownerRow, ver, cached, generation, settled, caller>>
  BY DEF cacheVars
<1>1. ASSUME NEW s \in Secrets PROVE EntryRight(s)'
  BY <1>0 DEF KeyInv, EntryRight, Shows, CopyOf
<1>2. ASSUME NEW c \in Callers PROVE CallerRight(c)'
  BY <1>0 DEF KeyInv, CallerRight, Shows, CopyOf
<1> QED BY <1>0, <1>1, <1>2 DEF KeyInv

\* A new key takes the place of none that exists, so no copy shows less.
LEMMA CreateKeyKeeps ==
    ASSUME KeyAssumption, KeyInv, NEW k \in Keys, Create(k)
    PROVE  KeyInv'
<1> USE DEF KeyInv
<1>0. UNCHANGED <<ownerRow, ver, day, cached, generation, settled, caller, editor>>
  BY DEF Create, cacheVars
<1>1. PICK o \in Owners, u \in Days :
          keyRow' = [keyRow EXCEPT ![k] = [owner |-> o, on |-> TRUE, secret |-> minted + 1, until |-> u]]
  BY DEF Create
<1>2. ~Exists(k) /\ minted < SecretLimit /\ minted' = minted + 1
  BY DEF Create
<1>3. minted + 1 \in Secrets /\ minted + 1 \in 0..SecretLimit
  BY <1>2, NextNumber
<1>4. KeyTypeOK'
  <2>1. [owner |-> o, on |-> TRUE, secret |-> minted + 1, until |-> u] \in KeyRow
    BY <1>3 DEF KeyRow
  <2> QED BY <1>0, <1>1, <1>2, <1>3, <2>1 DEF KeyTypeOK
<1>5. ASSUME NEW s \in Secrets, NEW i, Shows(s, i) PROVE Shows(s, i)'
  <2>1. PICK l \in Keys : keyRow[l].secret = s /\ i = CopyOf(l)
    BY <1>5 DEF Shows
  <2>2. l # k
    BY <1>2, <2>1 DEF Exists, NoRow, Secrets
  <2>3. keyRow'[l] = keyRow[l]
    BY <1>1, <2>2 DEF KeyTypeOK
  <2>4. CopyOf(l)' = CopyOf(l)
    BY <1>0, <2>3 DEF CopyOf
  <2> QED BY <2>1, <2>3, <2>4 DEF Shows
<1>6. ASSUME NEW s \in Secrets PROVE EntryRight(s)'
  BY <1>0, <1>5 DEF EntryRight
<1>7. ASSUME NEW c \in Callers PROVE CallerRight(c)'
  <2>1. CallerRight(c)
    OBVIOUS
  <2>2. caller[c].pc = "remember" => caller[c].secret \in Secrets
    BY KeyUnderWay DEF AtRest
  <2> QED BY <1>0, <1>5, <2>1, <2>2 DEF CallerRight
<1> QED BY <1>0, <1>4, <1>6, <1>7

\* Emptying the cache settles every change so far and makes every generation
\* that is held an old one.
LEMMA ClearKeeps ==
    ASSUME KeyAssumption, KeyInv, NEW e \in Editors, ClearCache(e)
    PROVE  KeyInv'
<1> USE DEF KeyInv
<1>0. /\ UNCHANGED <<keyRow, ownerRow, minted, ver, day, caller>>
      /\ cached' = [s \in Secrets |-> NoCopy] /\ generation' = generation + 1 /\ settled' = ver
  BY DEF ClearCache, tables
<1>1. KeyTypeOK'
  <2>1. Tables'
    BY EditTypes DEF Edit
  <2> QED BY <1>0, <2>1 DEF KeyTypeOK, Tables
<1>2. settled' <= ver'
  BY <1>0, <1>1 DEF KeyTypeOK
<1>3. ASSUME NEW s \in Secrets PROVE EntryRight(s)'
  BY <1>0 DEF EntryRight
<1>4. ASSUME NEW c \in Callers PROVE CallerRight(c)'
  <2>1. CallerRight(c) /\ settled <= ver /\ settled \in Int /\ ver \in Int /\ generation \in Int
    BY DEF KeyTypeOK
  <2>2. caller[c] # AtRest => caller[c].floor \in Int /\ caller[c].gen \in Int
    BY KeyUnderWay
  <2>3. caller'[c] # AtRest => caller'[c].floor <= settled' /\ caller'[c].gen < generation'
    BY <1>0, <2>1, <2>2 DEF CallerRight
  <2>4. caller'[c].pc = "remember" => caller'[c].gen # generation'
    <3>1. caller'[c].pc = "remember" => caller'[c] # AtRest
      BY DEF AtRest
    <3> QED BY <1>0, <2>1, <2>2, <2>3, <3>1
  <2>5. \A s, i : Shows(s, i) <=> Shows(s, i)'
    BY <1>0 DEF Shows, CopyOf
  <2> QED BY <1>0, <2>1, <2>2, <2>3, <2>4, <2>5 DEF CallerRight
<1> QED BY <1>1, <1>2, <1>3, <1>4

-----------------------------------------------------------------------------
(* Requests.                                                               *)

\* A request's step leaves the tables, the settled change and the other
\* requests alone; it remains to look at its own state and at the cache.
LEMMA CallerStep ==
    ASSUME KeyInv, NEW c \in Callers, NEW to,
           UNCHANGED <<tables, day, generation, settled, editor>>,
           caller' = [caller EXCEPT ![c] = to],
           cached' \in [Secrets -> Copy \cup {NoCopy}],
           to \in CallerState, CallerRight(c)', \A s \in Secrets : EntryRight(s)'
    PROVE  KeyInv'
<1> USE DEF KeyInv
<1>0. UNCHANGED <<keyRow, ownerRow, minted, ver>>
  BY DEF tables
<1>1. KeyTypeOK'
  BY <1>0 DEF KeyTypeOK
<1>2. ASSUME NEW d \in Callers, d # c PROVE CallerRight(d)'
  <2>1. caller'[d] = caller[d]
    BY <1>2 DEF KeyTypeOK
  <2> QED BY <1>0, <2>1 DEF CallerRight, Shows, CopyOf
<1> QED BY <1>0, <1>1, <1>2

\* The entries of a cache that is left alone stay right.
LEMMA EntriesKept ==
    ASSUME KeyInv, UNCHANGED <<keyRow, ownerRow, ver, cached, settled>>
    PROVE  \A s \in Secrets : EntryRight(s)'
BY DEF KeyInv, EntryRight, Shows, CopyOf

\* What a step makes of a request under way.
At(c, pc, gen, item) == [caller[c] EXCEPT !.pc = pc, !.gen = gen, !.item = item]

LEMMA AtType ==
    ASSUME KeyTypeOK, NEW c \in Callers, caller[c] # AtRest,
           NEW pc \in Walking, NEW gen \in Nat, NEW item \in Copy \cup {NoCopy}
    PROVE  /\ At(c, pc, gen, item) \in CallerState /\ At(c, pc, gen, item) # AtRest
           /\ At(c, pc, gen, item).pc = pc /\ At(c, pc, gen, item).gen = gen
           /\ At(c, pc, gen, item).item = item
           /\ At(c, pc, gen, item).secret = caller[c].secret
           /\ At(c, pc, gen, item).floor = caller[c].floor
<1>1. caller[c] \in [pc : Walking, secret : Secrets, gen : Nat,
                     item : Copy \cup {NoCopy}, floor : 0..EditLimit]
  BY KeyUnderWay
<1>2. At(c, pc, gen, item) \in [pc : Walking, secret : Secrets, gen : Nat,
                                item : Copy \cup {NoCopy}, floor : 0..EditLimit]
  BY <1>1 DEF At
<1>3. At(c, pc, gen, item).floor = caller[c].floor /\ At(c, pc, gen, item).secret = caller[c].secret
  BY <1>1 DEF At
<1>4. /\ At(c, pc, gen, item).pc = pc /\ At(c, pc, gen, item).gen = gen
      /\ At(c, pc, gen, item).item = item
  BY <1>1 DEF At
<1>5. At(c, pc, gen, item) # AtRest
  <2>1. "floor" \in DOMAIN At(c, pc, gen, item) /\ "floor" \notin DOMAIN AtRest
    BY <1>2 DEF AtRest
  <2> QED BY <2>1
<1> QED BY <1>2, <1>3, <1>4, <1>5 DEF CallerState

\* A request that neither remembers nor holds an answer owes nothing but its
\* floor and its generation.
LEMMA OnTheWay ==
    ASSUME KeyInv, NEW c \in Callers, caller[c] # AtRest,
           NEW pc \in Walking \ ({"remember"} \cup Answering), NEW gen \in Nat,
           NEW item \in Copy \cup {NoCopy}, gen <= generation,
           UNCHANGED <<tables, day, cacheVars, editor>>,
           caller' = [caller EXCEPT ![c] = At(c, pc, gen, item)]
    PROVE  KeyInv'
<1> USE DEF KeyInv
<1>0. UNCHANGED <<keyRow, ownerRow, minted, ver, cached, generation, settled>>
  BY DEF tables, cacheVars
<1>1. caller'[c] = At(c, pc, gen, item)
  BY DEF KeyTypeOK
<1>2. CallerRight(c)'
  BY <1>0, <1>1, AtType DEF CallerRight
<1>3. \A s \in Secrets : EntryRight(s)'
  BY <1>0, EntriesKept
<1> QED BY <1>0, <1>2, <1>3, AtType, CallerStep DEF KeyTypeOK

\* A request that holds an answer owes that it is not older than its floor.
LEMMA WithAnswer ==
    ASSUME KeyInv, NEW c \in Callers, caller[c] # AtRest,
           NEW pc \in Answering, NEW gen \in Nat, NEW item \in Copy \cup {NoCopy},
           gen <= generation, caller[c].floor <= item.ver,
           UNCHANGED <<tables, day, cacheVars, editor>>,
           caller' = [caller EXCEPT ![c] = At(c, pc, gen, item)]
    PROVE  KeyInv'
<1> USE DEF KeyInv
<1>0. UNCHANGED <<keyRow, ownerRow, minted, ver, cached, generation, settled>>
  BY DEF tables, cacheVars
<1>1. caller'[c] = At(c, pc, gen, item)
  BY DEF KeyTypeOK
<1>2. pc \in Walking /\ pc # "remember"
  BY DEF Answering, Walking
<1>3. CallerRight(c)'
  BY <1>0, <1>1, <1>2, AtType DEF CallerRight
<1>4. \A s \in Secrets : EntryRight(s)'
  BY <1>0, EntriesKept
<1> QED BY <1>0, <1>2, <1>3, <1>4, AtType, CallerStep DEF KeyTypeOK

\* What a request under way may rely on.
LEMMA Held ==
    ASSUME KeyInv, NEW c \in Callers, caller[c] # AtRest
    PROVE  /\ caller[c].gen \in Nat /\ caller[c].gen <= generation
           /\ caller[c].item \in Copy \cup {NoCopy} /\ caller[c].secret \in Secrets
           /\ caller[c].floor \in Int /\ caller[c].floor <= settled
           /\ settled \in Int /\ ver \in Int /\ settled <= ver /\ generation \in Nat
           /\ caller[c].pc \in Answering => caller[c].floor <= caller[c].item.ver
<1>1. caller[c] \in [pc : Walking, secret : Secrets, gen : Nat,
                     item : Copy \cup {NoCopy}, floor : 0..EditLimit]
  BY KeyUnderWay DEF KeyInv
<1> QED BY <1>1 DEF KeyInv, CallerRight, KeyTypeOK

\* An entry is not older than the floor of any request.
LEMMA HitRight ==
    ASSUME KeyInv, NEW c \in Callers, caller[c] # AtRest, cached[caller[c].secret] # NoCopy
    PROVE  /\ cached[caller[c].secret] \in Copy
           /\ caller[c].floor <= cached[caller[c].secret].ver
<1>1. cached[caller[c].secret] \in Copy /\ settled <= cached[caller[c].secret].ver
  BY Held DEF KeyInv, KeyTypeOK, EntryRight
<1>2. cached[caller[c].secret].ver \in Int
  BY <1>1 DEF Copy
<1> QED BY <1>1, <1>2, Held

\* Changing the state of a request only moves it on.
LEMMA GoesAt ==
    ASSUME KeyInv, NEW c \in Callers, caller[c] # AtRest, NEW pc, Goes(c, pc)
    PROVE  caller' = [caller EXCEPT ![c] = At(c, pc, caller[c].gen, caller[c].item)]
<1>1. caller[c] \in [pc : Walking, secret : Secrets, gen : Nat,
                     item : Copy \cup {NoCopy}, floor : 0..EditLimit]
  BY KeyUnderWay DEF KeyInv
<1>2. At(c, pc, caller[c].gen, caller[c].item) = [caller[c] EXCEPT !.pc = pc]
  BY <1>1 DEF At
<1> QED BY <1>2 DEF Goes

LEMMA AskKeyKeeps ==
    ASSUME KeyAssumption, KeyInv, NEW c \in Callers, Ask(c)
    PROVE  KeyInv'
<1> USE DEF KeyInv
<1>0. UNCHANGED <<tables, day, cacheVars, editor>> /\ UNCHANGED <<keyRow, ownerRow, ver, cached, generation, settled>>
  BY DEF Ask, tables, cacheVars
<1>1. PICK s \in 1..minted : caller' = [caller EXCEPT ![c] =
          [pc |-> "look", secret |-> s, gen |-> generation, item |-> NoCopy, floor |-> settled]]
  BY DEF Ask
<1> DEFINE to == [pc |-> "look", secret |-> s, gen |-> generation, item |-> NoCopy, floor |-> settled]
<1>2. to \in CallerState
  <2>1. s \in Secrets /\ generation \in Nat /\ settled \in 0..EditLimit
    BY DEF KeyTypeOK, Secrets, KeyAssumption
  <2> QED BY <2>1 DEF CallerState, Walking
<1>3. caller'[c] = to
  BY <1>1 DEF KeyTypeOK
<1>4. CallerRight(c)'
  <2>1. settled <= settled /\ generation <= generation
    BY DEF KeyTypeOK
  <2> QED BY <1>0, <1>3, <2>1 DEF CallerRight, Answering
<1>5. \A t \in Secrets : EntryRight(t)'
  BY <1>0, EntriesKept
<1> QED BY <1>0, <1>1, <1>2, <1>4, <1>5, CallerStep DEF KeyTypeOK

LEMMA LookKeeps ==
    ASSUME KeyInv, NEW c \in Callers, Look(c)
    PROVE  KeyInv'
<1> DEFINE hit == cached[caller[c].secret]
<1>0. caller[c] # AtRest /\ UNCHANGED <<tables, day, cacheVars, editor>>
  BY DEF Look, AtRest
<1>1. caller' = [caller EXCEPT ![c] = At(c, IF hit = NoCopy THEN "fetch" ELSE "check", generation, hit)]
  BY DEF Look, At
<1>2. hit \in Copy \cup {NoCopy} /\ generation \in Nat /\ generation <= generation
  BY <1>0, Held DEF KeyInv, KeyTypeOK
<1>3. CASE hit = NoCopy
  <2>1. caller' = [caller EXCEPT ![c] = At(c, "fetch", generation, hit)]
    BY <1>1, <1>3
  <2>2. "fetch" \in Walking \ ({"remember"} \cup Answering)
    BY DEF Walking, Answering
  <2> QED BY <1>0, <1>2, <2>1, <2>2, OnTheWay
<1>4. CASE hit # NoCopy
  <2>1. caller' = [caller EXCEPT ![c] = At(c, "check", generation, hit)]
    BY <1>1, <1>4
  <2>2. "check" \in Answering /\ caller[c].floor <= hit.ver
    BY <1>0, <1>4, HitRight DEF Answering
  <2> QED BY <1>0, <1>2, <2>1, <2>2, WithAnswer
<1> QED BY <1>3, <1>4

LEMMA CheckKeeps ==
    ASSUME KeyInv, NEW c \in Callers, Check(c)
    PROVE  KeyInv'
<1>0. caller[c] # AtRest /\ caller[c].pc \in Answering /\ UNCHANGED <<tables, day, cacheVars, editor>>
  BY DEF Check, AtRest, Answering
<1>1. CASE Goes(c, "stamp")
  <2>1. "stamp" \in Answering
    BY DEF Answering
  <2> QED BY <1>0, <1>1, <2>1, Held, GoesAt, WithAnswer
<1>2. CASE Goes(c, "refused")
  <2>1. "refused" \in Walking \ ({"remember"} \cup Answering)
    BY DEF Walking, Answering
  <2> QED BY <1>0, <1>2, <2>1, Held, GoesAt, OnTheWay
<1> QED BY <1>1, <1>2 DEF Check

LEMMA StampKeeps ==
    ASSUME KeyInv, NEW c \in Callers, Stamp(c)
    PROVE  KeyInv'
<1> DEFINE hit == cached[caller[c].secret]
<1>0. caller[c] # AtRest /\ UNCHANGED <<tables, day, cacheVars, editor>>
  BY DEF Stamp, AtRest
<1>1. CASE caller[c].gen = generation /\ hit # NoCopy
  <2>1. caller' = [caller EXCEPT ![c] = At(c, "use", caller[c].gen, hit)]
    <3>1. At(c, "use", caller[c].gen, hit) = [caller[c] EXCEPT !.pc = "use", !.item = hit]
      BY <1>0, KeyUnderWay DEF At, KeyInv
    <3> QED BY <1>1, <3>1 DEF Stamp
  <2>2. "use" \in Answering /\ hit \in Copy /\ caller[c].floor <= hit.ver
    BY <1>0, <1>1, HitRight DEF Answering
  <2> QED BY <1>0, <2>1, <2>2, Held, WithAnswer
<1>2. CASE ~(caller[c].gen = generation /\ hit # NoCopy)
  <2>1. Goes(c, "look")
    BY <1>2 DEF Stamp, Goes
  <2>2. "look" \in Walking \ ({"remember"} \cup Answering)
    BY DEF Walking, Answering
  <2> QED BY <1>0, <2>1, <2>2, Held, GoesAt, OnTheWay
<1> QED BY <1>1, <1>2

LEMMA UseKeeps ==
    ASSUME KeyInv, NEW c \in Callers, Use(c)
    PROVE  KeyInv'
<1>0. caller[c] # AtRest /\ caller[c].pc \in Answering /\ UNCHANGED <<tables, day, cacheVars, editor>>
  BY DEF Use, AtRest, Answering
<1>1. CASE Goes(c, "granted")
  <2>1. "granted" \in Answering
    BY DEF Answering
  <2> QED BY <1>0, <1>1, <2>1, Held, GoesAt, WithAnswer
<1>2. CASE Goes(c, "refused")
  <2>1. "refused" \in Walking \ ({"remember"} \cup Answering)
    BY DEF Walking, Answering
  <2> QED BY <1>0, <1>2, <2>1, Held, GoesAt, OnTheWay
<1> QED BY <1>1, <1>2 DEF Use

LEMMA ReplyKeeps ==
    ASSUME KeyInv, NEW c \in Callers, Reply(c)
    PROVE  KeyInv'
<1>0. UNCHANGED <<tables, day, cacheVars, editor>> /\ UNCHANGED <<keyRow, ownerRow, ver, cached, generation, settled>>
  BY DEF Reply, tables, cacheVars
<1>1. caller' = [caller EXCEPT ![c] = AtRest]
  BY DEF Reply
<1>2. caller'[c] = AtRest
  BY <1>1 DEF KeyInv, KeyTypeOK
<1>3. CallerRight(c)'
  BY <1>2 DEF CallerRight, AtRest, Answering
<1>4. \A s \in Secrets : EntryRight(s)'
  BY <1>0, EntriesKept
<1> QED BY <1>0, <1>1, <1>3, <1>4, CallerStep DEF KeyInv, KeyTypeOK, CallerState

\* What a query returns is of now, and so not older than anything settled.
LEMMA FetchKeeps ==
    ASSUME KeyInv, NEW c \in Callers, Fetch(c)
    PROVE  KeyInv'
<1> USE DEF KeyInv
<1>0. /\ caller[c] # AtRest /\ UNCHANGED <<tables, day, cacheVars, editor>>
      /\ UNCHANGED <<keyRow, ownerRow, minted, ver, cached, generation, settled>>
  BY DEF Fetch, AtRest, tables, cacheVars
<1>1. ASSUME NEW k \in Keys, Exists(k), keyRow[k].secret = caller[c].secret,
             caller' = [caller EXCEPT ![c].pc = "remember", ![c].item = CopyOf(k)]
      PROVE  KeyInv'
  <2> DEFINE to == At(c, "remember", caller[c].gen, CopyOf(k))
  <2>1. CopyOf(k) \in Copy /\ CopyOf(k).ver = ver
    BY <1>1, CopyType
  <2>2. caller' = [caller EXCEPT ![c] = to]
    <3>1. to = [caller[c] EXCEPT !.pc = "remember", !.item = CopyOf(k)]
      BY <1>0, KeyUnderWay DEF At
    <3> QED BY <1>1, <3>1
  <2>3. "remember" \in Walking /\ "remember" \notin Answering
    BY DEF Walking, Answering
  <2>4. /\ to \in CallerState /\ to.pc = "remember" /\ to.gen = caller[c].gen
        /\ to.item = CopyOf(k) /\ to.secret = caller[c].secret /\ to.floor = caller[c].floor
    BY <1>0, <2>1, <2>3, Held, AtType
  <2>5. caller'[c] = to
    BY <2>2 DEF KeyTypeOK
  <2>6. CallerRight(c)'
    <3>1. /\ caller'[c].pc = "remember" /\ caller'[c].gen = caller[c].gen
          /\ caller'[c].item = CopyOf(k) /\ caller'[c].secret = caller[c].secret
          /\ caller'[c].floor = caller[c].floor
      BY <2>4, <2>5
    <3>2. Shows(caller[c].secret, caller[c].item)'
      <4>1. keyRow'[k].secret = caller'[c].secret /\ caller'[c].item = CopyOf(k)'
        BY <1>0, <1>1, <3>1 DEF CopyOf
      <4> QED BY <4>1 DEF Shows
    <3>3. /\ caller[c].floor <= settled /\ settled <= ver /\ caller[c].gen <= generation
          /\ caller[c].floor <= ver /\ ver <= ver
      BY <1>0, Held
    <3> QED BY <1>0, <2>1, <2>3, <3>1, <3>2, <3>3 DEF CallerRight
  <2>7. \A s \in Secrets : EntryRight(s)'
    BY <1>0, EntriesKept
  <2> QED BY <1>0, <2>2, <2>4, <2>6, <2>7, CallerStep DEF KeyTypeOK
<1>2. CASE Goes(c, "refused")
  <2>1. "refused" \in Walking \ ({"remember"} \cup Answering)
    BY DEF Walking, Answering
  <2> QED BY <1>0, <1>2, <2>1, Held, GoesAt, OnTheWay
<1> QED BY <1>1, <1>2 DEF Fetch

\* What is remembered under the present generation is not older than anything
\* settled.
LEMMA RememberKeyKeeps ==
    ASSUME KeyInv, NEW c \in Callers, Remember(c)
    PROVE  KeyInv'
<1> USE DEF KeyInv
<1> DEFINE s == caller[c].secret
<1> DEFINE i == caller[c].item
<1>0. /\ caller[c] # AtRest /\ caller[c].pc = "remember" /\ UNCHANGED <<tables, day, generation, settled, editor>>
      /\ UNCHANGED <<keyRow, ownerRow, minted, ver>>
  BY DEF Remember, AtRest, tables
<1>1. s \in Secrets /\ i \in Copy /\ caller[c].floor <= i.ver /\ i.ver <= ver
  BY <1>0, Held DEF CallerRight
<1>2. CASE caller[c].gen = generation
  <2>1. cached' = [cached EXCEPT ![s] = i] /\ Goes(c, "check")
    BY <1>2 DEF Remember
  <2>2. caller' = [caller EXCEPT ![c] = At(c, "check", caller[c].gen, i)]
    BY <1>0, <2>1, GoesAt
  <2>3. "check" \in Walking /\ "check" \in Answering
    BY DEF Walking, Answering
  <2>4. caller'[c] = At(c, "check", caller[c].gen, i)
    BY <2>2 DEF KeyTypeOK
  <2>5. CallerRight(c)'
    <3>1. /\ caller'[c].pc = "check" /\ caller'[c].gen = caller[c].gen
          /\ caller'[c].item = i /\ caller'[c].floor = caller[c].floor
      BY <1>0, <1>1, <2>3, <2>4, Held, AtType
    <3>2. caller[c].floor <= settled /\ caller[c].gen <= generation
      BY <1>0, Held
    <3> QED BY <1>0, <1>1, <3>1, <3>2 DEF CallerRight
  <2>6. ASSUME NEW t \in Secrets PROVE EntryRight(t)'
    <3>1. CASE t = s
      <4>1. cached'[t] = i
        BY <2>1, <3>1 DEF KeyTypeOK
      <4>2. settled <= i.ver /\ (i.ver = ver => Shows(s, i))
        BY <1>0, <1>2 DEF CallerRight
      <4>3. Shows(s, i) => \E k \in Keys : keyRow'[k].secret = s /\ i = CopyOf(k)'
        BY <1>0 DEF Shows, CopyOf
      <4> QED BY <1>0, <1>1, <3>1, <4>1, <4>2, <4>3 DEF EntryRight, Shows
    <3>2. CASE t # s
      <4>1. cached'[t] = cached[t]
        BY <2>1, <3>2 DEF KeyTypeOK
      <4> QED BY <1>0, <4>1 DEF EntryRight, Shows, CopyOf
    <3> QED BY <3>1, <3>2
  <2>7. cached' \in [Secrets -> Copy \cup {NoCopy}]
    BY <1>1, <2>1 DEF KeyTypeOK
  <2> QED BY <1>0, <1>1, <2>2, <2>3, <2>5, <2>6, <2>7, Held, AtType, CallerStep
<1>3. CASE caller[c].gen # generation
  <2>1. Goes(c, "look") /\ UNCHANGED cached
    BY <1>3 DEF Remember
  <2>2. "look" \in Walking \ ({"remember"} \cup Answering)
    BY DEF Walking, Answering
  <2> QED BY <1>0, <2>1, <2>2, Held, GoesAt, OnTheWay DEF cacheVars
<1> QED BY <1>2, <1>3

-----------------------------------------------------------------------------
(* The invariant, and what it is for.                                      *)

LEMMA KeyBegin == KeyInit => KeyInv
<1> SUFFICES ASSUME KeyInit PROVE KeyInv
  OBVIOUS
<1> USE DEF KeyInit
<1>1. KeyTypeOK
  BY KeyAssumption DEF KeyAssumption, KeyTypeOK, EditorState, CallerState
<1>2. \A s \in Secrets : EntryRight(s)
  BY DEF EntryRight
<1>3. \A c \in Callers : CallerRight(c)
  BY DEF CallerRight, AtRest, Answering
<1> QED BY <1>1, <1>2, <1>3 DEF KeyInv

LEMMA KeyGo == KeyInv /\ [KeyNext]_keyVars => KeyInv'
<1> SUFFICES ASSUME KeyInv, [KeyNext]_keyVars PROVE KeyInv'
  OBVIOUS
<1>1. ASSUME NEW e \in Editors, Edit(e) PROVE KeyInv'
  <2>1. Tables'
    BY <1>1, KeyAssumption, EditTypes DEF KeyInv
  <2>2. CASE ClearCache(e)
    BY <2>2, KeyAssumption, ClearKeeps
  <2>3. CASE UNCHANGED <<cacheVars, day, caller>> /\ ver' = ver + 1
    BY <2>1, <2>3, Numbered
  <2>4. CASE UNCHANGED <<cacheVars, day, caller, keyRow, ownerRow, ver>>
    <3>1. KeyTypeOK'
      BY <2>1, <2>4 DEF KeyInv, KeyTypeOK, Tables, cacheVars
    <3> QED BY <2>4, <3>1, Unnumbered
  <2> QED BY <1>1, <2>2, <2>3, <2>4
          DEF Edit, ReadKey, Rotate, SetUser, ReadAccount, DeleteOwner, WriteKey, WriteAccount,
              Changed, tables
<1>2. ASSUME NEW k \in Keys, Create(k) PROVE KeyInv'
  BY <1>2, KeyAssumption, CreateKeyKeeps
<1>3. ASSUME NEW c \in Callers, Ask(c) \/ Authenticate(c) \/ Reply(c) PROVE KeyInv'
  BY <1>3, KeyAssumption, AskKeyKeeps, LookKeeps, FetchKeeps, RememberKeyKeeps, CheckKeeps,
     StampKeeps, UseKeeps, ReplyKeeps DEF Authenticate
<1>4. CASE Midnight \/ UNCHANGED keyVars
  <2>1. UNCHANGED <<keyRow, ownerRow, minted, ver, cached, generation, settled, caller, editor>>
    BY <1>4 DEF Midnight, keyVars, tables, cacheVars
  <2>2. day' \in 0..1
    BY <1>4 DEF Midnight, keyVars, KeyInv, KeyTypeOK
  <2>3. KeyTypeOK'
    BY <2>1, <2>2 DEF KeyInv, KeyTypeOK
  <2> QED BY <2>1, <2>3, Unnumbered DEF cacheVars
<1> QED BY <1>1, <1>2, <1>3, <1>4 DEF KeyNext

LEMMA KeyInvHolds == KeySpec => []KeyInv
BY KeyBegin, KeyGo, PTL DEF KeySpec

\* The rows, the cache and the requests keep their types (auth/api_keys.go,
\* auth/api_keys_cache.go).
THEOREM KeysTyped == KeySpec => []KeyTypeOK
BY KeyInvHolds, PTL DEF KeyInv

\* So the cache is fresh, as the run checks it.
LEMMA FreshThen == KeyInv => KeysFresh
<1> SUFFICES ASSUME KeyInv PROVE KeysFresh
  OBVIOUS
<1> USE DEF KeyInv
<1>1. CacheFresh
  <2>1. ASSUME NEW s \in Secrets, cached[s] # NoCopy PROVE cached[s].ver >= settled
    <3>1. settled <= cached[s].ver /\ cached[s] \in Copy
      BY <2>1 DEF EntryRight, KeyTypeOK
    <3>2. cached[s].ver \in Int /\ settled \in Int
      BY <3>1 DEF KeyTypeOK, Copy
    <3> QED BY <3>1, <3>2
  <2> QED BY <2>1 DEF CacheFresh
<1>2. AuthFresh
  <2>1. ASSUME NEW c \in Callers, caller[c].pc = "granted" PROVE caller[c].item.ver >= caller[c].floor
    <3>1. caller[c] # AtRest /\ caller[c].pc \in Answering
      BY <2>1 DEF AtRest, Answering
    <3>2. caller[c].floor <= caller[c].item.ver /\ caller[c].item \in Copy \cup {NoCopy} /\ caller[c].floor \in Int
      BY <3>1, Held
    <3>3. caller[c].item.ver \in Int
      BY <3>2 DEF Copy, NoCopy
    <3> QED BY <3>2, <3>3
  <2> QED BY <2>1 DEF AuthFresh
<1>3. CacheAgrees
  <2>1. ASSUME ver = settled, NEW s \in Secrets, cached[s] # NoCopy
        PROVE  \E k \in Keys : keyRow[k].secret = s /\ [cached[s] EXCEPT !.ver = ver] = CopyOf(k)
    <3>1. cached[s] \in Copy /\ settled <= cached[s].ver /\ cached[s].ver <= ver
      BY <2>1 DEF EntryRight, KeyTypeOK
    <3>2. cached[s].ver = ver
      BY <2>1, <3>1 DEF KeyTypeOK, Copy
    <3>3. PICK k \in Keys : keyRow[k].secret = s /\ cached[s] = CopyOf(k)
      BY <2>1, <3>2 DEF EntryRight, Shows
    <3>4. [cached[s] EXCEPT !.ver = ver] = cached[s]
      BY <3>1, <3>2 DEF Copy
    <3> QED BY <3>3, <3>4
  <2> QED BY <2>1 DEF CacheAgrees
<1> QED BY <1>1, <1>2, <1>3 DEF KeysFresh

\* No entry of the cache and no grant is older than the changes that were
\* answered before, and while no change is on its way the cache says what the
\* tables say (auth/api_keys_cache.go:48-110).
THEOREM CacheNeverStale == KeySpec => []KeysFresh
BY FreshThen, KeyInvHolds, PTL

-----------------------------------------------------------------------------
(* Settings.                                                               *)

Putters == A
Absent == None
env == s1
table == s2
lifetime == s3
put == s4
crossed == s5
puts == s6
USE DEF Putters, Absent, env, table, lifetime, put, crossed, puts

\* A lifetime that is in the table, and that no variable overrules, is what the
\* service is to work with.
LEMMA StoredResolves ==
    ASSUME Set!SetInv, Set!Writable(Life, table[Life]), table[Life] # Absent
    PROVE  Set!BootLifetime = table[Life]
<1>1. Life \in Set!Settable /\ Absent \notin Good \cup {Bad} /\ Default \in Good /\ Token # Life
  BY SettingsAssumed DEF Set!SettingsAssumption
<1>2. table[Life] \in Good /\ table[Life] # Bad
  BY <1>1 DEF Set!SetInv, Set!SetTypeOK, Set!Writable, Set!Parses
<1>3. Life \notin Override => env[Life] = Absent
  BY <1>1 DEF Set!SetInv, Set!Environments, Set!Writable
<1> DEFINE sources == IF Life \in Override THEN <<table[Life], env[Life], Default>>
                      ELSE <<env[Life], table[Life], Default>>
           First(n) == sources[n] # Absent /\ \A m \in 1..(n - 1) : sources[m] = Absent
<1>4. \E k \in 1..3 : sources[k] = table[Life] /\ First(k)
  <2>1. CASE Life \in Override
    <3>1. sources[1] = table[Life] /\ First(1)
      BY <1>2, <1>1, <2>1
    <3> QED BY <3>1
  <2>2. CASE Life \notin Override
    <3>1. sources[2] = table[Life] /\ sources[1] = Absent
      BY <1>3, <2>2
    <3>2. First(2)
      BY <3>1, <1>1, <1>2
    <3> QED BY <3>1, <3>2
  <2> QED BY <2>1, <2>2
<1>5. \A j, k \in 1..3 : First(j) /\ First(k) => j = k
  <2> SUFFICES ASSUME NEW j \in 1..3, NEW k \in 1..3, First(j), First(k), j < k PROVE FALSE
    OBVIOUS
  <2>1. j \in 1..(k - 1)
    OBVIOUS
  <2> QED BY <2>1
<1>6. Set!Resolved(Life) = table[Life]
  <2> HIDE DEF sources
  <2>1. PICK k \in 1..3 : sources[k] = table[Life] /\ First(k)
    BY <1>4
  <2>2. (CHOOSE n \in 1..3 : First(n)) = k
    BY <2>1, <1>5
  <2> QED BY <2>1, <2>2 DEF Set!Resolved, sources
<1> QED BY <1>2, <1>6 DEF Set!BootLifetime, Set!Parses

\* Whatever is set, the service has something to start with.
LEMMA BootGood ==
    env \in Set!Environments /\ table \in [Set!Settable \cup {Token} -> Good \cup {Bad, Absent}] /\ table[Life] \in Good \cup {Absent}
        => Set!BootLifetime \in Good
<1> SUFFICES ASSUME env \in Set!Environments, table[Life] \in Good \cup {Absent}
             PROVE  Set!BootLifetime \in Good
  OBVIOUS
<1>1. Life \in Set!Settable /\ Absent \notin Good \cup {Bad} /\ Default \in Good /\ Token # Life /\ PutLimit \in Nat
  BY SMTT(60), SettingsAssumed DEF Set!SettingsAssumption
<1>3. Set!Resolved(Life) \in Good \cup {Bad}
  <2> DEFINE sources == IF Life \in Override THEN <<table[Life], env[Life], Default>>
                        ELSE <<env[Life], table[Life], Default>>
             First(n) == sources[n] # Absent /\ \A m \in 1..(n - 1) : sources[m] = Absent
  <2>1. table[Life] \in Good \cup {Bad, Absent} /\ env[Life] \in Good \cup {Bad, Absent}
    BY <1>1 DEF Set!Environments
  <2>2. \A n \in 1..3 : sources[n] \in Good \cup {Bad, Absent}
    BY <1>1, <2>1
  <2>3. \E n \in 1..3 : First(n)
    <3>1. sources[1] # Absent \/ sources[2] # Absent \/ sources[3] # Absent
      BY <1>1
    <3> HIDE DEF sources
    <3>2. CASE sources[1] # Absent
      <4>1. First(1)
        BY <3>2
      <4> QED BY <4>1
    <3>3. CASE sources[1] = Absent /\ sources[2] # Absent
      <4>1. First(2)
        BY <3>3
      <4> QED BY <4>1
    <3>4. CASE sources[1] = Absent /\ sources[2] = Absent /\ sources[3] # Absent
      <4>1. First(3)
        BY <3>4
      <4> QED BY <4>1
    <3> QED BY <3>1, <3>2, <3>3, <3>4
  <2> HIDE DEF sources
  <2>4. (CHOOSE n \in 1..3 : First(n)) \in 1..3 /\ First(CHOOSE n \in 1..3 : First(n))
    BY <2>3
  <2> QED BY <2>2, <2>4 DEF Set!Resolved, sources
<1> QED BY <1>1, <1>3 DEF Set!BootLifetime, Set!Parses

LEMMA SettingsBegin == Set!SetInit => Set!SetInv
<1> SUFFICES ASSUME Set!SetInit PROVE Set!SetInv
  OBVIOUS
<1>1. Life \in Set!Settable /\ Absent \notin Good \cup {Bad} /\ PutLimit \in Nat
  BY SettingsAssumed DEF Set!SettingsAssumption
<1>2. table \in [Set!Settable \cup {Token} -> Good \cup {Bad, Absent}] /\ \A k \in Set!Settable : table[k] = Absent
  BY DEF Set!SetInit
<1>3. Set!AtRest \in Set!Request /\ Set!AtRest.pc = "idle"
  BY DEF Set!AtRest, Set!Request
<1>4. \A q \in Putters : put[q] = Set!AtRest
  BY DEF Set!SetInit
<1>5. put \in [Putters -> Set!Request] /\ \A q \in Putters : put[q].pc = "idle" /\ Life \notin Set!Wanted(q)
  BY <1>1, <1>3, <1>4 DEF Set!SetInit, Set!Wanted, Set!AtRest
<1>6. lifetime = Set!BootLifetime /\ lifetime \in Good
  BY <1>1, <1>2, BootGood DEF Set!SetInit
<1>7. Set!SetTypeOK
  BY <1>1, <1>2, <1>5, <1>6 DEF Set!SetInit, Set!SetTypeOK, Set!Environments
<1>8. Set!StoresVetted /\ Set!StoresWanted /\ Set!OneTells /\ Set!LifetimeTold
  BY <1>5, <1>6 DEF Set!StoresVetted, Set!StoresWanted, Set!OneTells, Set!LifetimeTold
<1> QED BY <1>2, <1>5, <1>7, <1>8 DEF Set!SetInit, Set!SetInv

\* Requests that do not write the table leave the lifetime as it was told.
LEMMA ToldKept ==
    ASSUME env' = env, table'[Life] = table[Life], lifetime' = lifetime,
           crossed => crossed', \A q \in Putters : put[q].pc = "tell" => put'[q].pc = "tell",
           Set!LifetimeTold
    PROVE  Set!LifetimeTold'
<1>1. Set!BootLifetime' = Set!BootLifetime
  BY DEF Set!BootLifetime, Set!Resolved, Set!Parses
<1> QED BY <1>1 DEF Set!LifetimeTold


\* A step of one request that writes nothing.
LEMMA WritesNothing ==
    ASSUME Set!SetInv, NEW q \in Putters, UNCHANGED <<env, table, lifetime, crossed, puts>>,
           NEW r \in Set!Request, put' = [put EXCEPT ![q] = r],
           r.want = put[q].want \/ \A k \in Set!Settable \cup {Token} : r.want[k] = Absent,
           r.pc \in {"token", "store", "tell"} => r.want = put[q].want /\ r.user = put[q].user
               /\ Set!Vetted(q) /\ (Set!NeedsUser(q) => put[q].user),
           r.pc = "token" => Token \in Set!Wanted(q), put[q].pc # "tell", r.pc # "tell"
    PROVE  Set!SetInv'
<1>0. Life \in Set!Settable
  BY SettingsAssumed DEF Set!SettingsAssumption
<1>1. put \in [Putters -> Set!Request] /\ put' \in [Putters -> Set!Request] /\ put'[q] = r
  BY DEF Set!SetInv
<1>2. \A o \in Putters : o # q => put'[o] = put[o]
  BY <1>1
<1>4. \A o \in Putters : put'[o].want = put[o].want => (Set!Vetted(o)' <=> Set!Vetted(o)) /\ Set!Wanted(o)' = Set!Wanted(o) /\ (Set!NeedsUser(o)' <=> Set!NeedsUser(o))
  BY DEF Set!Vetted, Set!Wanted, Set!Writable, Set!NeedsUser
<1>5. Set!LifetimeTold'
  BY <1>1, <1>2, ToldKept DEF Set!SetInv
<1>6. Set!StoresVetted' /\ Set!StoresWanted'
  BY <1>1, <1>2, <1>4 DEF Set!SetInv, Set!StoresVetted, Set!StoresWanted
<1>a. Set!OneTells'
  <2>1. \A p \in Putters : put'[p].pc = "tell" => p # q /\ put'[p] = put[p]
    BY <1>1, <1>2
  <2> QED BY <2>1 DEF Set!OneTells, Set!SetInv
<1>7. Set!SetTypeOK'
  BY <1>1 DEF Set!SetInv, Set!SetTypeOK, Set!Request
<1> QED BY <1>1, <1>5, <1>6, <1>a, <1>7 DEF Set!SetInv

\* A request stores one key.
LEMMA WritesOne ==
    ASSUME Set!SetInv, NEW q \in Putters, UNCHANGED <<env, lifetime, puts>>, NEW k \in Set!Wanted(q),
           crossed' = IF k = Life THEN (\E o \in Putters \ {q} : put[o].pc = "tell") ELSE crossed,
           table' = [table EXCEPT ![k] = put[q].want[k]],
           put[q].pc \in {"token", "store"}, NEW pc \in {"store", "tell"}, NEW at \in Int,
           put' = [put EXCEPT ![q] = [put[q] EXCEPT !.pc = pc, !.at = at]], pc = "tell" <=> k = Life
    PROVE  Set!SetInv'
<1>0. Life \in Set!Settable /\ Token \notin Set!Settable /\ Bad \notin Good
  BY SettingsAssumed DEF Set!SettingsAssumption
<1>1. /\ put \in [Putters -> Set!Request] /\ table \in [Set!Settable \cup {Token} -> Good \cup {Bad, Absent}]
      /\ Set!StoresVetted /\ Set!StoresWanted /\ Set!OneTells /\ Set!LifetimeTold /\ Set!SetTypeOK
  BY DEF Set!SetInv
<1>2. [put[q] EXCEPT !.pc = pc, !.at = at] \in Set!Request
  BY <1>1 DEF Set!Request
<1>3. put' \in [Putters -> Set!Request] /\ put'[q].pc = pc /\ put'[q].want = put[q].want /\ put'[q].user = put[q].user
  BY <1>1, <1>2 DEF Set!Request
<1>4. \A o \in Putters : o # q => put'[o] = put[o]
  BY <1>1
<1>5. k \in Set!Settable \cup {Token} /\ put[q].want[k] \in Good \cup {Bad} /\ (k # Token => put[q].want[k] \in Good)
  BY <1>1 DEF Set!Wanted, Set!Vetted, Set!Writable, Set!Parses, Set!StoresVetted, Set!Request
<1>6. table' \in [Set!Settable \cup {Token} -> Good \cup {Bad, Absent}] /\ table'[k] = put[q].want[k]
      /\ \A j \in Set!Settable \cup {Token} : j # k => table'[j] = table[j]
  BY <1>1, <1>5
<1>7. \A o \in Putters : /\ put'[o].want = put[o].want /\ put'[o].user = put[o].user
                         /\ (Set!Vetted(o)' <=> Set!Vetted(o)) /\ Set!Wanted(o)' = Set!Wanted(o) /\ (Set!NeedsUser(o)' <=> Set!NeedsUser(o))
  BY <1>3, <1>4 DEF Set!Vetted, Set!Wanted, Set!Writable, Set!NeedsUser
<1>8. Set!SetTypeOK'
  BY <1>0, <1>1, <1>3, <1>4, <1>5, <1>6 DEF Set!SetTypeOK
<1>9. Set!StoresVetted' /\ Set!StoresWanted'
  BY <1>1, <1>3, <1>4, <1>7 DEF Set!StoresVetted, Set!StoresWanted
<1>10. Set!LifetimeTold'
  <2>1. CASE k = Life
    BY <1>3, <2>1 DEF Set!LifetimeTold
  <2>2. CASE k # Life
    <3>1. \A o \in Putters : put[o].pc = "tell" => put'[o].pc = "tell"
      BY <1>4
    <3>2. table'[Life] = table[Life] /\ crossed' = crossed /\ env' = env /\ lifetime' = lifetime
      BY <1>0, <1>6, <2>2
    <3>3. crossed => crossed'
      BY <3>2
    <3> QED BY <1>1, <3>1, <3>2, <3>3, ToldKept
  <2> QED BY <2>1, <2>2
<1>12. Set!OneTells'
  <2>1. CASE k = Life
    <3>1. ~crossed' => \A o \in Putters : put'[o].pc = "tell" => o = q
      BY <1>4, <2>1
    <3> QED BY <1>3, <1>6, <2>1, <3>1 DEF Set!OneTells
  <2>2. CASE k # Life
    <3>1. table'[Life] = table[Life] /\ crossed' = crossed /\ put'[q].pc # "tell"
      BY <1>0, <1>3, <1>6, <2>2
    <3>2. \A o \in Putters : put'[o].pc = "tell" => put'[o] = put[o]
      BY <1>4, <3>1
    <3> QED BY <1>1, <3>1, <3>2 DEF Set!OneTells
  <2> QED BY <2>1, <2>2
<1>13. crossed' \in BOOLEAN
  BY DEF Set!SetInv
<1> QED BY <1>3, <1>6, <1>8, <1>9, <1>10, <1>12, <1>13 DEF Set!SetInv

\* A request is made.
LEMMA AskKeeps ==
    ASSUME Set!SetInv, NEW q \in Putters, Set!Ask(q) PROVE Set!SetInv'
<1>0. Life \in Set!Settable /\ Absent \notin Good \cup {Bad} /\ PutLimit \in Nat
  BY SettingsAssumed DEF Set!SettingsAssumption
<1>1. /\ put \in [Putters -> Set!Request] /\ table \in [Set!Settable \cup {Token} -> Good \cup {Bad, Absent}]
      /\ Set!StoresVetted /\ Set!StoresWanted /\ Set!OneTells /\ Set!LifetimeTold /\ Set!SetTypeOK
  BY DEF Set!SetInv
<1>2. PICK few \in SUBSET (Set!Settable \cup {Token}), user \in BOOLEAN : \E v \in [few -> Good \cup {Bad}] :
         put' = [put EXCEPT ![q] = [pc |-> "vet", user |-> user, at |-> 1,
                    want |-> [k \in Set!Settable \cup {Token} |-> IF k \in few THEN v[k] ELSE Absent]]]
  BY DEF Set!Ask
<1>3. PICK v \in [few -> Good \cup {Bad}] :
         put' = [put EXCEPT ![q] = [pc |-> "vet", user |-> user, at |-> 1,
                    want |-> [k \in Set!Settable \cup {Token} |-> IF k \in few THEN v[k] ELSE Absent]]]
  BY <1>2
<1> DEFINE r == [pc |-> "vet", user |-> user, at |-> 1,
                 want |-> [k \in Set!Settable \cup {Token} |-> IF k \in few THEN v[k] ELSE Absent]]
<1>4. r \in Set!Request /\ r.pc = "vet"
  BY <1>0 DEF Set!Request
<1>a. puts' \in 0..PutLimit
  <2>1. puts \in 0..PutLimit /\ puts < PutLimit /\ puts' = puts + 1
    BY DEF Set!Ask, Set!SetInv, Set!SetTypeOK
  <2> QED BY <1>0, <2>1
<1>5. put' = [put EXCEPT ![q] = r] /\ put[q].pc = "idle" /\ UNCHANGED <<env, table, lifetime, crossed>>
  BY <1>3 DEF Set!Ask
<1> HIDE DEF r
<1>6. put' \in [Putters -> Set!Request] /\ put'[q] = r /\ \A o \in Putters : o # q => put'[o] = put[o]
  BY <1>1, <1>4, <1>5
<1>7. \A o \in Putters : o # q => (Set!Vetted(o)' <=> Set!Vetted(o)) /\ Set!Wanted(o)' = Set!Wanted(o) /\ (Set!NeedsUser(o)' <=> Set!NeedsUser(o))
  BY <1>5, <1>6 DEF Set!Vetted, Set!Wanted, Set!Writable, Set!NeedsUser
<1>9. Set!StoresVetted' /\ Set!StoresWanted'
  BY <1>1, <1>4, <1>6, <1>7 DEF Set!StoresVetted, Set!StoresWanted
<1>10. Set!LifetimeTold'
  BY <1>1, <1>5, <1>6, ToldKept
<1>11. Set!OneTells'
  <2>1. \A p \in Putters : put'[p].pc = "tell" => put'[p] = put[p]
    BY <1>4, <1>6
  <2> QED BY <1>1, <1>5, <2>1 DEF Set!OneTells
<1>12. Set!SetTypeOK' /\ crossed' \in BOOLEAN
  BY <1>1, <1>a, <1>4, <1>5, <1>6 DEF Set!SetTypeOK, Set!Request, Set!SetInv
<1> QED BY <1>1, <1>5, <1>6, <1>9, <1>10, <1>11, <1>12 DEF Set!SetInv

\* The service is told.
LEMMA TellKeeps ==
    ASSUME Set!SetInv, NEW q \in Putters, Set!Tell(q) PROVE Set!SetInv'
<1>0. Life \in Set!Settable /\ Token \notin Set!Settable /\ Bad \notin Good /\ Absent \notin Good
  BY SettingsAssumed DEF Set!SettingsAssumption
<1>1. /\ put \in [Putters -> Set!Request] /\ Set!StoresVetted /\ Set!StoresWanted /\ Set!OneTells /\ Set!LifetimeTold /\ Set!SetTypeOK
  BY DEF Set!SetInv
<1>2. /\ put[q].pc = "tell" /\ lifetime' = put[q].want[Life] /\ put' = [put EXCEPT ![q] = [put[q] EXCEPT !.pc = "store"]]
      /\ UNCHANGED <<env, table, crossed, puts>>
  BY DEF Set!Tell
<1>3. put[q].want[Life] \in Good /\ Set!Writable(Life, put[q].want[Life])
  BY <1>0, <1>1, <1>2 DEF Set!Wanted, Set!Vetted, Set!Writable, Set!Parses, Set!StoresVetted, Set!StoresWanted, Set!Request
<1>4. [put[q] EXCEPT !.pc = "store"] \in Set!Request
  BY <1>1 DEF Set!Request
<1>5. put' \in [Putters -> Set!Request] /\ put'[q].want = put[q].want /\ put'[q].user = put[q].user /\ put'[q].pc = "store"
  BY <1>1, <1>2, <1>4 DEF Set!Request
<1>6. \A o \in Putters : o # q => put'[o] = put[o]
  BY <1>1, <1>2
<1>7. \A o \in Putters : put'[o].want = put[o].want /\ put'[o].user = put[o].user /\ (Set!Vetted(o)' <=> Set!Vetted(o)) /\ Set!Wanted(o)' = Set!Wanted(o) /\ (Set!NeedsUser(o)' <=> Set!NeedsUser(o))
  BY <1>2, <1>5, <1>6 DEF Set!Vetted, Set!Wanted, Set!Writable, Set!NeedsUser
<1>8. ~crossed => Set!BootLifetime = lifetime'
  BY <1>0, <1>1, <1>2, <1>3, StoredResolves DEF Set!OneTells
<1>9. Set!BootLifetime' = Set!BootLifetime
  BY <1>2 DEF Set!BootLifetime, Set!Resolved, Set!Parses
<1>10. Set!LifetimeTold'
  BY <1>2, <1>8, <1>9 DEF Set!LifetimeTold
<1>11. Set!StoresVetted' /\ Set!StoresWanted' /\ Set!OneTells'
  BY <1>1, <1>2, <1>5, <1>6, <1>7 DEF Set!StoresVetted, Set!StoresWanted, Set!OneTells
<1>12. Set!SetTypeOK'
  BY <1>1, <1>2, <1>3, <1>5 DEF Set!SetTypeOK, Set!Request
<1> QED BY <1>2, <1>5, <1>10, <1>11, <1>12 DEF Set!SetInv

\* The manager is started again.
LEMMA RebootKeeps ==
    ASSUME Set!SetInv, Set!Reboot PROVE Set!SetInv'
<1>0. Life \in Set!Settable /\ PutLimit \in Nat
  BY SettingsAssumed DEF Set!SettingsAssumption
<1>1. /\ env' \in Set!Environments /\ put' = [q \in Putters |-> Set!AtRest] /\ ~crossed' /\ crossed' \in BOOLEAN /\ table' = table
      /\ lifetime' = Set!BootLifetime'
  BY DEF Set!Reboot
<1>a. puts' \in 0..PutLimit
  <2>1. puts \in 0..PutLimit /\ puts < PutLimit /\ puts' = puts + 1
    BY DEF Set!Reboot, Set!SetInv, Set!SetTypeOK
  <2> QED BY <1>0, <2>1
<1>2. Set!AtRest \in Set!Request /\ Set!AtRest.pc = "idle" /\ Set!AtRest.want[Life] = Absent
  BY <1>0 DEF Set!AtRest, Set!Request
<1>3. put' \in [Putters -> Set!Request] /\ \A q \in Putters : put'[q].pc = "idle" /\ Life \notin Set!Wanted(q)'
  BY <1>1, <1>2 DEF Set!Wanted
<1>4. table' \in [Set!Settable \cup {Token} -> Good \cup {Bad, Absent}] /\ table'[Life] \in Good \cup {Absent}
  BY <1>0, <1>1 DEF Set!SetInv, Set!SetTypeOK
<1>5. lifetime' \in Good
  <2>1. (env \in Set!Environments /\ table \in [Set!Settable \cup {Token} -> Good \cup {Bad, Absent}]
            /\ table[Life] \in Good \cup {Absent})'
    BY <1>1, <1>4
  <2>2. (Set!BootLifetime \in Good)'
    BY <2>1, BootGood, PTL
  <2> QED BY <1>1, <2>2
<1>6. Set!SetTypeOK'
  BY <1>1, <1>a, <1>3, <1>5 DEF Set!SetTypeOK, Set!SetInv, Set!Environments
<1>7. Set!StoresVetted' /\ Set!StoresWanted' /\ Set!OneTells' /\ Set!LifetimeTold'
  BY <1>1, <1>3 DEF Set!StoresVetted, Set!StoresWanted, Set!OneTells, Set!LifetimeTold
<1> QED BY <1>1, <1>3, <1>4, <1>6, <1>7 DEF Set!SetInv

LEMMA SettingsGo == Set!SetInv /\ [Set!SetNext]_(Set!setVars) => Set!SetInv'
<1> SUFFICES ASSUME Set!SetInv, [Set!SetNext]_(Set!setVars) PROVE Set!SetInv'
  OBVIOUS
<1>0. put \in [Putters -> Set!Request]
  BY DEF Set!SetInv
<1>1. ASSUME NEW q \in Putters, Set!Refuse(q), put[q].pc # "tell" PROVE Set!SetInv'
  <2>1. Set!AtRest \in Set!Request /\ Set!AtRest.pc = "idle" /\ \A k \in Set!Settable \cup {Token} : Set!AtRest.want[k] = Absent
    BY DEF Set!AtRest, Set!Request
  <2> QED BY <1>1, <2>1, WritesNothing DEF Set!Refuse
<1>2. ASSUME NEW q \in Putters, Set!Vet(q) PROVE Set!SetInv'
  <2>1. CASE Set!Refuse(q)
    BY <1>1, <1>2, <2>1 DEF Set!Vet
  <2>2. CASE ~Set!Refuse(q)
    <3> DEFINE r == [put[q] EXCEPT !.pc = IF Token \in Set!Wanted(q) THEN "token" ELSE "store"]
    <3>1. /\ Set!Vetted(q) /\ (Set!NeedsUser(q) => put[q].user) /\ put[q].pc = "vet" /\ put' = [put EXCEPT ![q] = r]
          /\ UNCHANGED <<env, table, lifetime, crossed, puts>>
      BY <1>2, <2>2 DEF Set!Vet
    <3>2. /\ r \in Set!Request /\ r.want = put[q].want /\ r.user = put[q].user
          /\ r.pc \in {"token", "store"} /\ (r.pc = "token" => Token \in Set!Wanted(q))
      BY <1>0 DEF Set!Request
    <3> HIDE DEF r
    <3> QED BY <3>1, <3>2, WritesNothing
  <2> QED BY <2>1, <2>2
<1>3. ASSUME NEW q \in Putters, put[q].pc = "store", Set!Skip(q) PROVE Set!SetInv'
  <2> DEFINE r == [put[q] EXCEPT !.at = @ + 1]
  <2>1. put' = [put EXCEPT ![q] = r] /\ UNCHANGED <<env, table, lifetime, crossed, puts>>
    BY <1>3 DEF Set!Skip
  <2>a. put[q] \in Set!Request /\ put[q].at + 1 \in Int
    BY <1>0 DEF Set!Request
  <2>2. r \in Set!Request /\ r.want = put[q].want /\ r.pc = put[q].pc /\ r.user = put[q].user
    BY <2>a DEF Set!Request
  <2>3. Set!Vetted(q) /\ (Set!NeedsUser(q) => put[q].user)
    BY <1>3 DEF Set!SetInv, Set!StoresVetted
  <2> HIDE DEF r
  <2> QED BY <1>3, <2>1, <2>2, <2>3, WritesNothing
<1>4. ASSUME NEW q \in Putters, Set!StoreToken(q) PROVE Set!SetInv'
  <2>1. CASE Set!Refuse(q)
    BY <1>1, <1>4, <2>1 DEF Set!StoreToken
  <2>2. CASE ~Set!Refuse(q)
    <3>1. /\ put[q].pc = "token" /\ put' = [put EXCEPT ![q].pc = "store"]
          /\ table' = [table EXCEPT ![Token] = put[q].want[Token]] /\ UNCHANGED <<env, lifetime, crossed, puts>>
      BY <1>4, <2>2 DEF Set!StoreToken
    <3>2. Token \in Set!Wanted(q)
      BY <3>1 DEF Set!SetInv, Set!StoresWanted
    <3>3. put' = [put EXCEPT ![q] = [put[q] EXCEPT !.pc = "store", !.at = put[q].at]] /\ put[q].at \in Int
      BY <1>0, <3>1 DEF Set!Request
    <3>4. Token # Life
      BY SettingsAssumed DEF Set!SettingsAssumption
    <3> QED BY <3>1, <3>2, <3>3, <3>4, WritesOne
  <2> QED BY <2>1, <2>2
<1>5. ASSUME NEW q \in Putters, Set!Store(q) PROVE Set!SetInv'
  <2> DEFINE k == Order[put[q].at]
  <2>1. put[q].pc = "store" /\ put[q].at \in 1..Len(Order) /\ k \in Set!Settable
    BY <1>5 DEF Set!Store, Set!Settable
  <2>2. CASE Set!Skip(q) \/ Set!Refuse(q)
    BY SMTT(60), <1>1, <1>3, <2>1, <2>2
  <2>3. CASE ~Set!Skip(q) /\ ~Set!Refuse(q)
    <3>1. /\ k \in Set!Wanted(q) /\ table' = [table EXCEPT ![k] = put[q].want[k]]
          /\ put' = [put EXCEPT ![q].at = @ + 1, ![q].pc = IF k = Life THEN "tell" ELSE "store"]
          /\ UNCHANGED <<env, lifetime, puts>>
          /\ crossed' = IF k = Life THEN (\E o \in Putters \ {q} : put[o].pc = "tell") ELSE crossed
      BY <1>5, <2>1, <2>3 DEF Set!Store, Set!Wanted
    <3> DEFINE pc == IF k = Life THEN "tell" ELSE "store"
               at == put[q].at + 1
    <3>2. put' = [put EXCEPT ![q] = [put[q] EXCEPT !.pc = pc, !.at = at]]
      <4>1. [put[q] EXCEPT !.pc = pc, !.at = at] = [put[q] EXCEPT !.at = at, !.pc = pc]
        BY <1>0 DEF Set!Request
      <4>2. put' = [put EXCEPT ![q] = [put[q] EXCEPT !.at = at, !.pc = pc]]
        BY <3>1
      <4> QED BY <4>1, <4>2
    <3>a. at \in Int
      BY <1>0 DEF Set!Request
    <3>3. pc \in {"store", "tell"} /\ (pc = "tell" <=> k = Life)
      OBVIOUS
    <3> HIDE DEF pc, at
    <3> QED BY ZenonT(60), <2>1, <3>1, <3>2, <3>a, <3>3, WritesOne
  <2> QED BY <2>2, <2>3
<1>6. CASE UNCHANGED Set!setVars
  <2>1. UNCHANGED <<env, table, lifetime, put, crossed, puts>>
    BY <1>6 DEF Set!setVars
  <2>2. Set!BootLifetime' = Set!BootLifetime /\ \A q \in Putters : (Set!Vetted(q)' <=> Set!Vetted(q)) /\ Set!Wanted(q)' = Set!Wanted(q) /\ (Set!NeedsUser(q)' <=> Set!NeedsUser(q))
    BY <2>1 DEF Set!BootLifetime, Set!Resolved, Set!Vetted, Set!Wanted, Set!Writable, Set!Parses, Set!NeedsUser
  <2> QED BY <2>1, <2>2 DEF Set!SetInv, Set!SetTypeOK, Set!LifetimeTold, Set!StoresVetted, Set!StoresWanted, Set!OneTells
<1> QED BY <1>1, <1>2, <1>4, <1>5, <1>6, AskKeeps, TellKeeps, RebootKeeps DEF Set!SetNext, Set!Reply

\* What a step of the settings stores was vetted with the request it came in.
LEMMA WholeKept == Set!SetInv /\ [Set!SetNext]_(Set!setVars) => Set!VettedAsWhole
<1>1. ASSUME Set!SetInv, [Set!SetNext]_(Set!setVars), NEW k \in Set!Settable \cup {Token}, table'[k] # table[k]
      PROVE  \E q \in Putters : /\ table'[k] = put[q].want[k] /\ Set!Vetted(q)
                                /\ (Set!Wanted(q) \cap Sensitive = {} \/ put[q].user)
  <2>1. PICK q \in Putters : Set!StoreToken(q) \/ Set!Store(q)
    BY <1>1 DEF Set!SetNext, Set!setVars, Set!Ask, Set!Vet, Set!Tell, Set!Reply, Set!Refuse, Set!Reboot
  <2>2. table'[k] = put[q].want[k] /\ put[q].pc \in {"token", "store"}
    BY <1>1, <2>1 DEF Set!StoreToken, Set!Store, Set!Refuse, Set!Skip, Set!SetInv
  <2> QED BY <1>1, <2>2 DEF Set!SetInv, Set!StoresVetted, Set!NeedsUser
<1> QED BY <1>1 DEF Set!VettedAsWhole

-----------------------------------------------------------------------------
(* Tickets.                                                                *)

Logins == A
Sockets == B
Issuers == C
live == s1
held == s2
numbered == s3
now == s4
issuer == s5
socket == s6
opened == s7
USE DEF Logins, Sockets, Issuers, live, held, numbered, now, issuer, socket, opened

\* Tickets counts sets as FiniteSets does.
LEMMA TicketCounts ==
    (\A S : Tkt!Cardinality(S) = Cardinality(S)) /\ \A S : Tkt!IsFiniteSet(S) <=> IsFiniteSet(S)
<1>1. \A S : Tkt!Cardinality(S) = Cardinality(S)
  BY DEF Tkt!Cardinality, Cardinality
<1>2. \A S : Tkt!IsFiniteSet(S) <=> IsFiniteSet(S)
  BY DEF Tkt!IsFiniteSet, IsFiniteSet
<1> QED BY <1>1, <1>2

\* A set of numbers that is not empty has a least one.
LEMMA Least ==
    ASSUME NEW S, S \subseteq Nat, S # {}
    PROVE  \E n \in S : \A m \in S : n <= m
<1>1. \E n \in S : \A m \in S : <<m, n>> \notin OpToRel(<, Nat)
  BY NatLessThanWellFounded, WFMin, Zenon
<1>2. \A m, n \in Nat : m < n => <<m, n>> \in OpToRel(<, Nat)
  BY DEF OpToRel
<1>3. \A m, n \in Nat : ~(m < n) => n <= m
  OBVIOUS
<1> QED BY <1>1, <1>2, <1>3

\* The oldest of some tickets is one of them.
LEMMA OldestIn ==
    ASSUME NEW S, S \subseteq Tkt!Ticket, S # {}
    PROVE  Tkt!Oldest(S) \in S
<1> DEFINE numbers == {t.id : t \in S}
<1>1. numbers \subseteq Nat /\ numbers # {}
  BY TicketAssumed DEF Tkt!Ticket, Tkt!TicketAssumption
<1>2. PICK n \in numbers : \A m \in numbers : n <= m
  BY <1>1, Least
<1>3. \E t \in S : \A u \in S : t.id <= u.id
  BY <1>2
<1> QED BY <1>3 DEF Tkt!Oldest

\* What makes room for one more.
LEMMA FitsIn ==
    ASSUME NEW S, S \subseteq Tkt!Ticket, IsFiniteSet(S), NEW T, T \subseteq S, NEW limit \in Nat \ {0}
    PROVE  /\ Tkt!Fits(S, T, limit) \subseteq S
           /\ Cardinality(T) < limit => Tkt!Fits(S, T, limit) = S
           /\ Cardinality(T) >= limit => \E t \in T : Tkt!Fits(S, T, limit) = S \ {t}
<1>1. IsFiniteSet(T) /\ Cardinality(T) \in Nat
  BY FS_Subset, FS_CardinalityType
<1>2. Cardinality(T) >= limit => T # {}
  BY <1>1, FS_EmptySet
<1> QED BY TicketCounts, <1>1, <1>2, OldestIn DEF Tkt!Fits

\* There is room for a new ticket, of the session's own and in all.
LEMMA RoomMade ==
    ASSUME Tkt!TicketInv, NEW x \in Logins
    PROVE  /\ Tkt!RoomFor(x) \subseteq held /\ Cardinality(Tkt!RoomFor(x)) < Global
           /\ Cardinality(Tkt!Owned(Tkt!RoomFor(x), x)) < PerSession
           /\ \/ Cardinality(Tkt!Owned({t \in held : t.id > now}, x)) < PerSession
              \/ {t \in held : t.id > now /\ t.login # x} \subseteq Tkt!RoomFor(x)
<1> DEFINE valid == {t \in held : t.id > now}
           own   == Tkt!Fits(valid, Tkt!Owned(valid, x), PerSession)
           room  == Tkt!Fits(own, own, Global)
<1>1. PerSession \in Nat \ {0} /\ Global \in Nat \ {0}
  BY TicketAssumed DEF Tkt!TicketAssumption
<1>2. /\ held \subseteq Tkt!Ticket /\ IsFiniteSet(held) /\ Cardinality(held) <= Global
      /\ Cardinality(Tkt!Owned(held, x)) <= PerSession /\ IsFiniteSet(Tkt!Owned(held, x))
  BY TicketCounts, FS_Subset DEF Tkt!TicketInv, Tkt!TicketTypeOK, Tkt!TicketsBounded, Tkt!Owned
<1>3. valid \subseteq held /\ Tkt!Owned(valid, x) \subseteq Tkt!Owned(held, x) /\ Tkt!Owned(valid, x) \subseteq valid
  BY DEF Tkt!Owned
<1>4. /\ valid \subseteq Tkt!Ticket /\ IsFiniteSet(valid) /\ Cardinality(valid) \in Nat
      /\ Cardinality(valid) <= Global
      /\ IsFiniteSet(Tkt!Owned(valid, x)) /\ Cardinality(Tkt!Owned(valid, x)) \in Nat
      /\ Cardinality(Tkt!Owned(valid, x)) <= PerSession
  <2>1. IsFiniteSet(valid) /\ Cardinality(valid) <= Cardinality(held) /\ Cardinality(valid) \in Nat /\ Cardinality(held) \in Nat
    BY <1>2, <1>3, FS_Subset, FS_CardinalityType
  <2>2. /\ IsFiniteSet(Tkt!Owned(valid, x)) /\ Cardinality(Tkt!Owned(valid, x)) <= Cardinality(Tkt!Owned(held, x))
        /\ Cardinality(Tkt!Owned(valid, x)) \in Nat /\ Cardinality(Tkt!Owned(held, x)) \in Nat
    BY <1>2, <1>3, FS_Subset, FS_CardinalityType
  <2> QED BY <1>1, <1>2, <1>3, <2>1, <2>2
<1> HIDE DEF valid
<1>5. /\ own \subseteq valid
      /\ Cardinality(Tkt!Owned(valid, x)) < PerSession => own = valid
      /\ Cardinality(Tkt!Owned(valid, x)) >= PerSession => \E t \in Tkt!Owned(valid, x) : own = valid \ {t}
  BY <1>1, <1>3, <1>4, FitsIn
<1> HIDE DEF own
<1>6. Cardinality(Tkt!Owned(own, x)) < PerSession /\ IsFiniteSet(Tkt!Owned(own, x))
  <2>1. CASE Cardinality(Tkt!Owned(valid, x)) < PerSession
    BY <1>4, <1>5, <2>1
  <2>2. CASE Cardinality(Tkt!Owned(valid, x)) >= PerSession
    <3>1. PICK t \in Tkt!Owned(valid, x) : own = valid \ {t}
      BY <1>5, <2>2
    <3>2. Tkt!Owned(own, x) = Tkt!Owned(valid, x) \ {t}
      BY <3>1 DEF Tkt!Owned
    <3>3. t \in Tkt!Owned(valid, x) /\ IsFiniteSet(Tkt!Owned(own, x)) /\ Cardinality(Tkt!Owned(own, x)) = Cardinality(Tkt!Owned(valid, x)) - 1
      BY <1>4, <3>2, FS_RemoveElement
    <3> QED BY <1>1, <1>4, <3>3
  <2> QED BY <1>1, <1>4, <2>1, <2>2
<1>7. own \subseteq Tkt!Ticket /\ IsFiniteSet(own) /\ Cardinality(own) \in Nat /\ Cardinality(own) <= Global
  <2>1. IsFiniteSet(own) /\ Cardinality(own) <= Cardinality(valid) /\ Cardinality(own) \in Nat
    BY <1>4, <1>5, FS_Subset, FS_CardinalityType
  <2> QED BY <1>1, <1>4, <1>5, <2>1
<1>8. /\ room \subseteq own
      /\ Cardinality(own) < Global => room = own
      /\ Cardinality(own) >= Global => \E t \in own : room = own \ {t}
  BY <1>1, <1>7, FitsIn
<1>9. room = Tkt!RoomFor(x)
  BY DEF Tkt!RoomFor, valid, own
<1> HIDE DEF room
<1>10. Cardinality(room) < Global
  <2>1. CASE Cardinality(own) < Global
    BY <1>8, <2>1
  <2>2. CASE Cardinality(own) >= Global
    <3>1. PICK t \in own : room = own \ {t}
      BY <1>8, <2>2
    <3>2. Cardinality(room) = Cardinality(own) - 1
      BY <1>7, <3>1, FS_RemoveElement
    <3> QED BY <1>1, <1>7, <3>2
  <2> QED BY <1>1, <1>7, <2>1, <2>2
<1>11. Cardinality(Tkt!Owned(room, x)) < PerSession
  <2>1. Tkt!Owned(room, x) \subseteq Tkt!Owned(own, x)
    BY <1>8 DEF Tkt!Owned
  <2>2. /\ Cardinality(Tkt!Owned(room, x)) <= Cardinality(Tkt!Owned(own, x))
        /\ Cardinality(Tkt!Owned(room, x)) \in Nat /\ Cardinality(Tkt!Owned(own, x)) \in Nat
    BY <1>6, <2>1, FS_Subset, FS_CardinalityType
  <2> QED BY <1>1, <1>6, <2>2
<1>12. Cardinality(Tkt!Owned(valid, x)) >= PerSession => {t \in valid : t.login # x} \subseteq room
  <2> SUFFICES ASSUME Cardinality(Tkt!Owned(valid, x)) >= PerSession
               PROVE  {t \in valid : t.login # x} \subseteq room
    OBVIOUS
  <2>1. PICK t \in Tkt!Owned(valid, x) : own = valid \ {t}
    BY <1>5
  <2>2. t \in valid /\ t.login = x
    BY DEF Tkt!Owned
  <2>3. Cardinality(own) = Cardinality(valid) - 1
    BY <1>4, <2>1, <2>2, FS_RemoveElement
  <2>4. room = own
    BY <1>1, <1>4, <1>8, <2>3
  <2> QED BY <2>1, <2>2, <2>4
<1>13. {t \in held : t.id > now /\ t.login # x} = {t \in valid : t.login # x}
  BY DEF valid
<1>14. room \subseteq held
  BY <1>3, <1>5, <1>8
<1> QED BY <1>1, <1>4, <1>9, <1>10, <1>11, <1>12, <1>13, <1>14 DEF valid

\* Fewer tickets are within the limits that more are.
LEMMA FewerBounded ==
    ASSUME Tkt!TicketInv, held' \subseteq held
    PROVE  IsFiniteSet(held') /\ Tkt!TicketsBounded'
<1>1. IsFiniteSet(held) /\ Tkt!TicketsBounded
  BY TicketCounts DEF Tkt!TicketInv
<1>2. PerSession \in Nat /\ Global \in Nat
  BY TicketAssumed DEF Tkt!TicketAssumption
<1>3. IsFiniteSet(held') /\ Cardinality(held') <= Global
  <2>1. IsFiniteSet(held') /\ Cardinality(held') <= Cardinality(held) /\ Cardinality(held) \in Nat /\ Cardinality(held') \in Nat
    BY <1>1, FS_Subset, FS_CardinalityType
  <2> QED BY TicketCounts, <1>1, <1>2, <2>1 DEF Tkt!TicketsBounded
<1>4. ASSUME NEW x \in Logins PROVE Cardinality(Tkt!Owned(held', x)) <= PerSession
  <2>1. Tkt!Owned(held', x) \subseteq Tkt!Owned(held, x) /\ IsFiniteSet(Tkt!Owned(held, x))
    BY <1>1, FS_Subset DEF Tkt!Owned
  <2>2. /\ Cardinality(Tkt!Owned(held', x)) <= Cardinality(Tkt!Owned(held, x))
        /\ Cardinality(Tkt!Owned(held, x)) \in Nat /\ Cardinality(Tkt!Owned(held', x)) \in Nat
    BY <2>1, FS_Subset, FS_CardinalityType
  <2> QED BY TicketCounts, <1>1, <1>2, <2>2 DEF Tkt!TicketsBounded
<1> QED BY TicketCounts, <1>3, <1>4 DEF Tkt!TicketsBounded

LEMMA TicketBegin == Tkt!TicketInit => Tkt!TicketInv
<1> SUFFICES ASSUME Tkt!TicketInit PROVE Tkt!TicketInv
  OBVIOUS
<1>1. TicketLimit \in Nat /\ PerSession \in Nat /\ Global \in Nat
  BY TicketAssumed DEF Tkt!TicketAssumption
<1>2. IsFiniteSet({}) /\ Cardinality({}) = 0 /\ \A x \in Logins : Tkt!Owned({}, x) = {}
  BY FS_EmptySet DEF Tkt!Owned
<1>3. Tkt!TicketsBounded /\ IsFiniteSet(held)
  <2>1. held = {}
    BY DEF Tkt!TicketInit
  <2> QED BY TicketCounts, <1>1, <1>2, <2>1 DEF Tkt!TicketsBounded
<1>4. Tkt!TicketTypeOK
  BY <1>1 DEF Tkt!TicketInit, Tkt!TicketTypeOK, Tkt!Resting, Tkt!Shut
<1>5. Tkt!OneIssues /\ Tkt!OneKeeps /\ Tkt!OneLooks /\ Tkt!OnePlace /\ Tkt!TicketOnce
  BY <1>1 DEF Tkt!TicketInit, Tkt!OneIssues, Tkt!OneKeeps, Tkt!OneLooks, Tkt!OnePlace, Tkt!TicketOnce, Tkt!Nowhere, Tkt!Issuing, Tkt!Kept, Tkt!Looking, Tkt!Resting, Tkt!Shut
<1> QED BY TicketCounts, <1>3, <1>4, <1>5 DEF Tkt!TicketInv

\* A ticket is numbered.
LEMMA VouchKeeps ==
    ASSUME Tkt!TicketInv, NEW i \in Issuers, NEW x \in Logins, Tkt!Vouch(i, x) PROVE Tkt!TicketInv'
<1>1. TicketLimit \in Nat /\ Tkt!TicketTypeOK /\ Tkt!OneIssues /\ Tkt!OneKeeps /\ Tkt!OneLooks /\ Tkt!OnePlace /\ Tkt!TicketOnce
  BY TicketCounts, TicketAssumed DEF Tkt!TicketAssumption, Tkt!TicketInv
<1>2. numbered + 1 \in 1..TicketLimit /\ numbered' = numbered + 1
  BY <1>1 DEF Tkt!Vouch, Tkt!TicketTypeOK
<1> DEFINE t == [id |-> numbered + 1, login |-> x]
<1>3. t \in Tkt!Ticket /\ t.id = numbered + 1 /\ t # Tkt!Resting
  BY <1>2 DEF Tkt!Ticket, Tkt!Resting
<1>4. issuer' = [issuer EXCEPT ![i] = t] /\ UNCHANGED <<live, held, now, socket, opened>>
  BY DEF Tkt!Vouch
<1> HIDE DEF t
<1>5. /\ issuer' \in [Issuers -> Tkt!Ticket \cup {Tkt!Resting}] /\ issuer'[i].id = numbered'
      /\ \A j \in Issuers : j # i => issuer'[j] = issuer[j]
  BY <1>1, <1>2, <1>3, <1>4 DEF Tkt!TicketTypeOK
<1>6. Tkt!TicketTypeOK'
  BY <1>1, <1>2, <1>4, <1>5 DEF Tkt!TicketTypeOK
<1>7. numbered \in Nat /\ Tkt!Nowhere(numbered') /\ opened[numbered'] = 0
  BY <1>1, <1>2 DEF Tkt!OnePlace, Tkt!TicketTypeOK
<1>8. \A id \in 1..TicketLimit : /\ (Tkt!Kept(id)' <=> Tkt!Kept(id)) /\ (Tkt!Looking(id)' <=> Tkt!Looking(id))
                                 /\ (Tkt!Issuing(id)' => Tkt!Issuing(id) \/ id = numbered')
  BY <1>4, <1>5 DEF Tkt!Kept, Tkt!Looking, Tkt!Issuing
<1>9. \A j \in Issuers : issuer[j].id # numbered'
  BY <1>7 DEF Tkt!Nowhere, Tkt!Issuing
<1>a. Tkt!OneIssues'
  BY <1>1, <1>5, <1>9 DEF Tkt!OneIssues
<1>b. Tkt!OnePlace'
  BY <1>1, <1>2, <1>4, <1>7, <1>8 DEF Tkt!OnePlace, Tkt!Nowhere
<1>c. Tkt!OneKeeps' /\ Tkt!OneLooks'
  BY <1>1, <1>4 DEF Tkt!OneKeeps, Tkt!OneLooks
<1> QED BY TicketCounts, <1>1, <1>4, <1>6, <1>a, <1>b, <1>c, FewerBounded DEF Tkt!TicketInv, Tkt!TicketOnce

\* A ticket is stored.
LEMMA IssueKeeps ==
    ASSUME Tkt!TicketInv, NEW i \in Issuers, Tkt!Issue(i) PROVE Tkt!TicketInv'
<1>1. /\ TicketLimit \in Nat /\ PerSession \in Nat \ {0} /\ Global \in Nat \ {0}
      /\ Tkt!TicketTypeOK /\ Tkt!OneIssues /\ Tkt!OneKeeps /\ Tkt!OneLooks /\ Tkt!OnePlace /\ Tkt!TicketOnce /\ IsFiniteSet(held) /\ Tkt!TicketsBounded
  BY TicketCounts, TicketAssumed DEF Tkt!TicketAssumption, Tkt!TicketInv
<1>t. PICK t \in Tkt!Ticket : t = issuer[i] /\ t # Tkt!Resting
  BY <1>1 DEF Tkt!Issue, Tkt!TicketTypeOK
<1> DEFINE x == t.login
           room == Tkt!RoomFor(x)
<1>2. t \in Tkt!Ticket /\ t.id \in 1..TicketLimit /\ x \in Logins /\ t # Tkt!Resting /\ issuer[i] = t
  BY <1>t DEF Tkt!Ticket
<1>3. held' = room \cup {t} /\ issuer' = [issuer EXCEPT ![i] = Tkt!Resting] /\ UNCHANGED <<live, numbered, now, socket, opened>>
  BY <1>2 DEF Tkt!Issue
<1>4. room \subseteq held /\ Cardinality(room) < Global /\ Cardinality(Tkt!Owned(room, x)) < PerSession
  BY <1>2, RoomMade
<1>5. Tkt!Issuing(t.id) /\ (~Tkt!Kept(t.id) /\ ~Tkt!Looking(t.id) /\ opened[t.id] = 0)
  BY <1>1, <1>2 DEF Tkt!OnePlace, Tkt!Nowhere, Tkt!Issuing
<1> HIDE DEF room, x
<1>6. /\ issuer' \in [Issuers -> Tkt!Ticket \cup {Tkt!Resting}] /\ issuer'[i] = Tkt!Resting
      /\ \A j \in Issuers : j # i => issuer'[j] = issuer[j]
  BY <1>1, <1>3 DEF Tkt!TicketTypeOK
<1>7. Tkt!TicketTypeOK'
  BY <1>1, <1>2, <1>3, <1>4, <1>6 DEF Tkt!TicketTypeOK
<1>8. ~Tkt!Issuing(t.id)'
  <2>1. Tkt!Resting.id = 0
    BY DEF Tkt!Resting
  <2>2. \A j \in Issuers : j # i => issuer[j].id # t.id
    BY <1>1, <1>2 DEF Tkt!OneIssues
  <2> QED BY <1>2, <1>6, <2>1, <2>2 DEF Tkt!Issuing
<1>9. \A id \in 1..TicketLimit : /\ (Tkt!Issuing(id)' => Tkt!Issuing(id) /\ id # t.id) /\ (Tkt!Looking(id)' <=> Tkt!Looking(id))
                                 /\ (Tkt!Kept(id)' => Tkt!Kept(id) \/ id = t.id)
  <2>1. Tkt!Resting.id = 0
    BY DEF Tkt!Resting
  <2>2. \A id \in 1..TicketLimit : Tkt!Issuing(id)' => Tkt!Issuing(id) /\ id # t.id
    BY <1>6, <1>8, <2>1 DEF Tkt!Issuing
  <2> QED BY <1>3, <1>4, <2>2 DEF Tkt!Looking, Tkt!Kept
<1>10. Tkt!OneKeeps'
  BY <1>1, <1>3, <1>4, <1>5 DEF Tkt!OneKeeps, Tkt!Kept
<1>a. Tkt!OneIssues'
  <2>1. \A j \in Issuers : issuer'[j] # Tkt!Resting => issuer'[j].id # 0 /\ j # i
    BY <1>6 DEF Tkt!Ticket
  <2>2. issuer'[i].id = 0
    BY <1>6 DEF Tkt!Resting
  <2> QED BY <1>1, <1>6, <2>1, <2>2 DEF Tkt!OneIssues
<1>b. Tkt!OnePlace'
  <2>1. Tkt!Issuing(t.id) => ~(t.id > numbered)
    BY <1>1, <1>2 DEF Tkt!OnePlace, Tkt!Nowhere
  <2> QED BY <1>1, <1>3, <1>5, <1>9, <2>1 DEF Tkt!OnePlace, Tkt!Nowhere
<1>11. Tkt!OneLooks'
  BY <1>1, <1>3 DEF Tkt!OneLooks
<1>12. IsFiniteSet(room) /\ Cardinality(room) \in Nat
  BY <1>1, <1>4, FS_Subset, FS_CardinalityType
<1>13. IsFiniteSet(held') /\ Cardinality(held') <= Global
  <2>1. /\ IsFiniteSet(held')
        /\ Cardinality(held') = IF t \in room THEN Cardinality(room) ELSE Cardinality(room) + 1
    BY <1>3, <1>12, FS_AddElement
  <2> QED BY <1>1, <1>4, <1>12, <2>1
<1>14. ASSUME NEW y \in Logins PROVE Cardinality(Tkt!Owned(held', y)) <= PerSession
  <2>0. IsFiniteSet(Tkt!Owned(room, y)) /\ Cardinality(Tkt!Owned(room, y)) \in Nat
    <3>1. Tkt!Owned(room, y) \subseteq room
      BY DEF Tkt!Owned
    <3> QED BY <1>12, <3>1, FS_Subset, FS_CardinalityType
  <2>1. CASE y = x
    <3>1. Tkt!Owned(held', x) = Tkt!Owned(room, x) \cup {t}
      BY <1>3 DEF Tkt!Owned, x
    <3>2. Cardinality(Tkt!Owned(held', x)) = IF t \in Tkt!Owned(room, x) THEN Cardinality(Tkt!Owned(room, x)) ELSE Cardinality(Tkt!Owned(room, x)) + 1
      BY <2>0, <2>1, <3>1, FS_AddElement
    <3> QED BY <1>1, <1>4, <2>0, <2>1, <3>2
  <2>2. CASE y # x
    <3>1. Tkt!Owned(held', y) = Tkt!Owned(room, y) /\ Tkt!Owned(room, y) \subseteq Tkt!Owned(held, y)
      BY <1>3, <1>4, <2>2 DEF Tkt!Owned, x
    <3>2. IsFiniteSet(Tkt!Owned(held, y))
      BY <1>1, FS_Subset DEF Tkt!Owned
    <3>3. Cardinality(Tkt!Owned(room, y)) <= Cardinality(Tkt!Owned(held, y)) /\ Cardinality(Tkt!Owned(held, y)) \in Nat
      BY <3>1, <3>2, FS_Subset, FS_CardinalityType
    <3> QED BY TicketCounts, <1>1, <2>0, <3>1, <3>3 DEF Tkt!TicketsBounded
  <2> QED BY <2>1, <2>2
<1> QED BY TicketCounts, <1>1, <1>3, <1>7, <1>10, <1>11, <1>a, <1>b, <1>13, <1>14 DEF Tkt!TicketInv, Tkt!TicketOnce, Tkt!TicketsBounded

\* A ticket is presented, and taken out.
LEMMA ConsumeKeeps ==
    ASSUME Tkt!TicketInv, NEW k \in Sockets, Tkt!Consume(k) PROVE Tkt!TicketInv'
<1>1. TicketLimit \in Nat /\ Tkt!TicketTypeOK /\ Tkt!OneIssues /\ Tkt!OneKeeps /\ Tkt!OneLooks /\ Tkt!OnePlace /\ Tkt!TicketOnce
  BY TicketCounts, TicketAssumed DEF Tkt!TicketAssumption, Tkt!TicketInv
<1>t. PICK t \in Tkt!Ticket : t = socket[k].ticket
  BY <1>1 DEF Tkt!Consume, Tkt!TicketTypeOK, Tkt!Shut
<1> DEFINE s == IF Tkt!Usable(t) THEN [socket[k] EXCEPT !.pc = "looks"] ELSE Tkt!Shut
<1>2. socket[k].pc = "asks" /\ socket[k] \in [pc : {"asks", "looks", "open"}, ticket : Tkt!Ticket] /\ t = socket[k].ticket
  BY <1>1, <1>t DEF Tkt!Consume, Tkt!TicketTypeOK, Tkt!Shut
<1>3. socket' = [socket EXCEPT ![k] = s] /\ held' = held \ {t} /\ UNCHANGED <<live, numbered, now, issuer, opened>>
  BY <1>t DEF Tkt!Consume
<1>4. /\ s \in {Tkt!Shut} \cup [pc : {"asks", "looks", "open"}, ticket : Tkt!Ticket]
      /\ s.pc = "looks" => t \in held /\ s.ticket = t
  BY <1>2 DEF Tkt!Usable, Tkt!Shut
<1> HIDE DEF s
<1>5. /\ socket' \in [Sockets -> {Tkt!Shut} \cup [pc : {"asks", "looks", "open"}, ticket : Tkt!Ticket]]
      /\ socket'[k] = s /\ \A l \in Sockets : l # k => socket'[l] = socket[l]
  BY <1>1, <1>3, <1>4 DEF Tkt!TicketTypeOK
<1>6. Tkt!TicketTypeOK'
  BY <1>1, <1>3, <1>5 DEF Tkt!TicketTypeOK
<1>7. \A id \in 1..TicketLimit : /\ (Tkt!Issuing(id)' <=> Tkt!Issuing(id)) /\ (Tkt!Kept(id)' => Tkt!Kept(id))
                                 /\ (Tkt!Looking(id)' => Tkt!Looking(id) \/ (t \in held /\ id = t.id))
  BY <1>3, <1>4, <1>5 DEF Tkt!Issuing, Tkt!Kept, Tkt!Looking
<1>8. t \in held => Tkt!Kept(t.id) /\ ~Tkt!Kept(t.id)'
  BY <1>1, <1>3 DEF Tkt!Kept, Tkt!OneKeeps
<1>9. t.id \in 1..TicketLimit
  BY DEF Tkt!Ticket
<1>a. Tkt!OneLooks'
  <2>1. t \in held => ~Tkt!Looking(t.id)
    BY <1>1, <1>8, <1>9 DEF Tkt!OnePlace
  <2>2. t \in held => \A l \in Sockets : socket[l].pc = "looks" => socket[l].ticket.id # t.id
    BY <2>1 DEF Tkt!Looking
  <2>3. ASSUME NEW j \in Sockets, NEW l \in Sockets, j # l, socket'[j].pc = "looks", socket'[l].pc = "looks"
        PROVE  socket'[j].ticket.id # socket'[l].ticket.id
    <3>1. CASE j = k
      BY <1>4, <1>5, <2>2, <2>3, <3>1
    <3>2. CASE l = k
      BY <1>4, <1>5, <2>2, <2>3, <3>2
    <3>3. CASE j # k /\ l # k
      BY <1>1, <1>5, <2>3, <3>3 DEF Tkt!OneLooks
    <3> QED BY <3>1, <3>2, <3>3
  <2> QED BY <2>3 DEF Tkt!OneLooks
<1>b. Tkt!OnePlace'
  BY <1>1, <1>3, <1>7, <1>8 DEF Tkt!OnePlace, Tkt!Nowhere
<1>10. Tkt!OneIssues' /\ Tkt!OneKeeps'
  BY <1>1, <1>3 DEF Tkt!OneIssues, Tkt!OneKeeps
<1> QED BY TicketCounts, <1>1, <1>3, <1>6, <1>10, <1>a, <1>b, FewerBounded DEF Tkt!TicketInv, Tkt!TicketOnce

\* A socket is opened, or not.
LEMMA OpenKeeps ==
    ASSUME Tkt!TicketInv, NEW k \in Sockets, Tkt!OpenSocket(k) PROVE Tkt!TicketInv'
<1>1. TicketLimit \in Nat /\ Tkt!TicketTypeOK /\ Tkt!OneIssues /\ Tkt!OneKeeps /\ Tkt!OneLooks /\ Tkt!OnePlace /\ Tkt!TicketOnce
  BY TicketCounts, TicketAssumed DEF Tkt!TicketAssumption, Tkt!TicketInv
<1>n. PICK n \in 1..TicketLimit : n = socket[k].ticket.id
  BY <1>1 DEF Tkt!OpenSocket, Tkt!TicketTypeOK, Tkt!Shut, Tkt!Ticket
<1>2. socket[k].pc = "looks" /\ socket[k] \in [pc : {"asks", "looks", "open"}, ticket : Tkt!Ticket] /\ socket[k].ticket.id = n
  BY <1>1, <1>n DEF Tkt!OpenSocket, Tkt!TicketTypeOK, Tkt!Shut
<1>3. PICK s \in {Tkt!Shut, [socket[k] EXCEPT !.pc = "open"]} : socket' = [socket EXCEPT ![k] = s]
  BY DEF Tkt!OpenSocket
<1>4. (UNCHANGED opened \/ opened' = [opened EXCEPT ![n] = @ + 1]) /\ UNCHANGED <<live, held, numbered, now, issuer>>
  BY <1>2 DEF Tkt!OpenSocket
<1>5. s \in {Tkt!Shut} \cup [pc : {"asks", "looks", "open"}, ticket : Tkt!Ticket] /\ s.pc # "looks"
  BY <1>2 DEF Tkt!Shut
<1>6. /\ socket' \in [Sockets -> {Tkt!Shut} \cup [pc : {"asks", "looks", "open"}, ticket : Tkt!Ticket]]
      /\ socket'[k] = s /\ \A l \in Sockets : l # k => socket'[l] = socket[l]
  BY <1>1, <1>3, <1>5 DEF Tkt!TicketTypeOK
<1>7. Tkt!Looking(n) /\ opened[n] = 0
  BY <1>1, <1>2 DEF Tkt!Looking, Tkt!OnePlace, Tkt!Nowhere, Tkt!TicketTypeOK
<1>8. ~Tkt!Issuing(n) /\ ~Tkt!Kept(n) /\ ~(n > numbered) /\ ~Tkt!Looking(n)'
  <2>1. ~Tkt!Issuing(n) /\ ~Tkt!Kept(n) /\ ~(n > numbered)
    BY <1>1, <1>2, <1>7 DEF Tkt!OnePlace, Tkt!Nowhere
  <2>2. \A l \in Sockets : l # k /\ socket[l].pc = "looks" => socket[l].ticket.id # n
    BY <1>1, <1>2 DEF Tkt!OneLooks
  <2>3. ~Tkt!Looking(n)'
    BY <1>5, <1>6, <2>2 DEF Tkt!Looking
  <2> QED BY <2>1, <2>3
<1>9. opened' \in [1..TicketLimit -> Nat] /\ opened'[n] <= 1 /\ \A id \in 1..TicketLimit : id # n => opened'[id] = opened[id]
  <2>1. opened \in [1..TicketLimit -> Nat]
    BY <1>1 DEF Tkt!TicketTypeOK
  <2>2. CASE UNCHANGED opened
    BY <1>7, <2>1, <2>2
  <2>3. CASE opened' = [opened EXCEPT ![n] = @ + 1]
    <3>1. opened' = [opened EXCEPT ![n] = 1]
      BY <1>7, <2>3
    <3> QED BY <1>2, <2>1, <3>1
  <2> QED BY <1>4, <2>2, <2>3
<1>10. Tkt!TicketTypeOK' /\ Tkt!TicketOnce'
  BY <1>1, <1>4, <1>6, <1>9 DEF Tkt!TicketTypeOK, Tkt!TicketOnce
<1>11. \A id \in 1..TicketLimit : (Tkt!Issuing(id)' <=> Tkt!Issuing(id)) /\ (Tkt!Kept(id)' <=> Tkt!Kept(id)) /\ (Tkt!Looking(id)' => Tkt!Looking(id) /\ id # n)
  <2>1. \A id \in 1..TicketLimit : Tkt!Looking(id)' => Tkt!Looking(id)
    BY <1>5, <1>6 DEF Tkt!Looking
  <2> QED BY <1>4, <1>8, <2>1 DEF Tkt!Issuing, Tkt!Kept
<1>a. Tkt!OneLooks'
  <2>1. \A j \in Sockets : socket'[j].pc = "looks" => socket'[j] = socket[j]
    BY <1>5, <1>6
  <2> QED BY <1>1, <2>1 DEF Tkt!OneLooks
<1>b. Tkt!OnePlace'
  BY <1>1, <1>4, <1>8, <1>9, <1>11 DEF Tkt!OnePlace, Tkt!Nowhere
<1>12. Tkt!OneIssues' /\ Tkt!OneKeeps'
  BY <1>1, <1>4 DEF Tkt!OneIssues, Tkt!OneKeeps
<1> QED BY TicketCounts, <1>4, <1>10, <1>12, <1>a, <1>b, FewerBounded DEF Tkt!TicketInv

\* The rest leaves tickets where they are.
LEMMA StaysKept ==
    ASSUME Tkt!TicketInv, UNCHANGED <<held, numbered, issuer, opened>>, Tkt!TicketTypeOK',
           \A k \in Sockets : socket'[k].pc = "looks" => socket'[k] = socket[k]
    PROVE  Tkt!TicketInv'
<1>1. Tkt!OneIssues /\ Tkt!OneKeeps /\ Tkt!OneLooks /\ Tkt!OnePlace /\ Tkt!TicketOnce
  BY TicketCounts DEF Tkt!TicketInv
<1>2. \A id : (Tkt!Issuing(id)' <=> Tkt!Issuing(id)) /\ (Tkt!Kept(id)' <=> Tkt!Kept(id)) /\ (Tkt!Looking(id)' => Tkt!Looking(id))
  BY DEF Tkt!Issuing, Tkt!Kept, Tkt!Looking
<1>3. Tkt!OnePlace'
  BY <1>1, <1>2 DEF Tkt!OnePlace, Tkt!Nowhere
<1>4. Tkt!OneIssues' /\ Tkt!OneKeeps' /\ Tkt!OneLooks'
  BY <1>1 DEF Tkt!OneIssues, Tkt!OneKeeps, Tkt!OneLooks
<1> QED BY TicketCounts, <1>1, <1>3, <1>4, FewerBounded DEF Tkt!TicketInv, Tkt!TicketOnce

LEMMA TicketGo == Tkt!TicketInv /\ [Tkt!TicketNext]_(Tkt!ticketVars) => Tkt!TicketInv'
<1> SUFFICES ASSUME Tkt!TicketInv, [Tkt!TicketNext]_(Tkt!ticketVars) PROVE Tkt!TicketInv'
  OBVIOUS
<1>0. Tkt!TicketTypeOK /\ TicketLimit \in Nat
  BY TicketCounts, TicketAssumed DEF Tkt!TicketInv, Tkt!TicketAssumption
<1>1. ASSUME NEW x \in Logins, Tkt!EndLogin(x) PROVE Tkt!TicketInv'
  <2>1. UNCHANGED <<held, numbered, now, issuer, socket, opened>> /\ live' \subseteq live
    BY <1>1 DEF Tkt!EndLogin
  <2>2. Tkt!TicketTypeOK'
    BY <1>0, <2>1 DEF Tkt!TicketTypeOK
  <2> QED BY <2>1, <2>2, StaysKept
<1>2. ASSUME NEW k \in Sockets, Tkt!Offer(k) PROVE Tkt!TicketInv'
  <2>1. PICK t \in held : socket' = [socket EXCEPT ![k] = [pc |-> "asks", ticket |-> t]]
    BY <1>2 DEF Tkt!Offer
  <2>2. UNCHANGED <<live, held, numbered, now, issuer, opened>> /\ t \in Tkt!Ticket
    BY <1>0, <1>2 DEF Tkt!Offer, Tkt!TicketTypeOK
  <2> DEFINE s == [pc |-> "asks", ticket |-> t]
  <2>3. s \in [pc : {"asks", "looks", "open"}, ticket : Tkt!Ticket] /\ s.pc = "asks"
    BY <2>2
  <2> HIDE DEF s
  <2>4. /\ socket' \in [Sockets -> {Tkt!Shut} \cup [pc : {"asks", "looks", "open"}, ticket : Tkt!Ticket]]
        /\ socket'[k] = s /\ \A l \in Sockets : l # k => socket'[l] = socket[l]
    BY <1>0, <2>1, <2>3 DEF Tkt!TicketTypeOK, s
  <2>5. Tkt!TicketTypeOK'
    BY <1>0, <2>2, <2>4 DEF Tkt!TicketTypeOK
  <2> QED BY <2>2, <2>3, <2>4, <2>5, StaysKept
<1>3. CASE Tkt!Later
  <2>1. now' \in 0..TicketLimit /\ UNCHANGED <<live, held, numbered, issuer, socket, opened>>
    BY <1>0, <1>3 DEF Tkt!Later, Tkt!TicketTypeOK
  <2>2. Tkt!TicketTypeOK'
    BY <1>0, <2>1 DEF Tkt!TicketTypeOK
  <2> QED BY <2>1, <2>2, StaysKept
<1>4. CASE UNCHANGED Tkt!ticketVars
  <2>1. UNCHANGED <<live, held, numbered, now, issuer, socket, opened>>
    BY <1>4 DEF Tkt!ticketVars
  <2>2. Tkt!TicketTypeOK'
    BY <1>0, <2>1 DEF Tkt!TicketTypeOK
  <2> QED BY <2>1, <2>2, StaysKept
<1> QED BY <1>1, <1>2, <1>3, <1>4, VouchKeeps, IssueKeeps, ConsumeKeeps, OpenKeeps DEF Tkt!TicketNext

\* A step of the tickets takes none of another session's.
LEMMA PaysKept == Tkt!TicketInv /\ [Tkt!TicketNext]_(Tkt!ticketVars) => Tkt!PaysItself
<1>1. ASSUME Tkt!TicketInv, [Tkt!TicketNext]_(Tkt!ticketVars), NEW i \in Issuers,
             issuer[i] # Tkt!Resting, issuer'[i] = Tkt!Resting
      PROVE  \/ Cardinality(Tkt!Owned({t \in held : t.id > now}, issuer[i].login)) < PerSession
             \/ {t \in held : t.id > now /\ t.login # issuer[i].login} \subseteq held'
  <2>1. issuer \in [Issuers -> Tkt!Ticket \cup {Tkt!Resting}]
    BY <1>1 DEF Tkt!TicketInv, Tkt!TicketTypeOK
  <2>2. PICK j \in Issuers : Tkt!Issue(j) \/ \E y \in Logins : Tkt!Vouch(j, y)
    BY <1>1 DEF Tkt!TicketNext, Tkt!ticketVars, Tkt!EndLogin, Tkt!Offer, Tkt!Consume, Tkt!OpenSocket, Tkt!Later
  <2>3. j = i
    <3>1. \A y : issuer' = [issuer EXCEPT ![j] = y] => j = i
      BY <1>1, <2>1
    <3> QED BY <2>2, <3>1 DEF Tkt!Issue, Tkt!Vouch
  <2>4. Tkt!Issue(i) /\ issuer[i].login \in Logins
    BY <1>1, <2>1, <2>2, <2>3 DEF Tkt!Vouch, Tkt!Ticket
  <2> QED BY <1>1, <2>4, RoomMade DEF Tkt!Issue
<1> QED BY <1>1, TicketCounts DEF Tkt!PaysItself

-----------------------------------------------------------------------------
(* Identity providers.                                                     *)

Ids == A
Admins == B
Patient == TRUE
provider == s1
secret == s2
local == s3
policyMu == s4
admin == s5
spent == s6
passed == s7
USE DEF Ids, Admins, Patient, provider, secret, local, policyMu, admin, spent, passed

LEMMA ProviderBegin == Prov!ProviderInit => Prov!ProviderInv
<1> SUFFICES ASSUME Prov!ProviderInit PROVE Prov!ProviderInv
  OBVIOUS
<1>1. ConfigLimit \in Nat
  BY ProviderAssumed DEF Prov!ProviderAssumption
<1>2. \A a \in Admins : admin[a] = Prov!Quiet /\ admin[a].op = "none"
  BY DEF Prov!ProviderInit, Prov!Quiet
<1>3. \A p \in Ids : provider[p] = Prov!NoProvider /\ ~provider[p].tested
  BY DEF Prov!ProviderInit, Prov!NoProvider
<1>4. Prov!ProviderTypeOK
  BY <1>1 DEF Prov!ProviderInit, Prov!ProviderTypeOK
<1> QED BY <1>2, <1>3, <1>4 DEF Prov!ProviderInv, Prov!TestedCurrent, Prov!OneInside, Prov!Inside, Prov!IdsSpent, Prov!CreatedAlone

\* What a request that is past the mutex does, the others wait for.
LEMMA InsideKeeps ==
    ASSUME Prov!ProviderInv, Prov!ProviderTypeOK', NEW a \in Admins, Prov!Inside(a),
           NEW r \in Prov!Operation \cup {Prov!Quiet}, admin' = [admin EXCEPT ![a] = r],
           r = Prov!Quiet \/ (r.op = admin[a].op /\ r.id = admin[a].id), policyMu' = policyMu \/ r = Prov!Quiet,
           UNCHANGED spent, Prov!TestedCurrent', Prov!Inside(a)' => Prov!Holds(a)',
           \A p \in Ids : provider[p] = Prov!NoProvider => provider'[p] = Prov!NoProvider,
           \A p \in Ids : p # admin[a].id \/ admin[a].op = "settings" => provider'[p] = provider[p]
    PROVE  Prov!ProviderInv'
<1>1. /\ Prov!ProviderTypeOK /\ Prov!OneInside /\ Prov!IdsSpent /\ Prov!CreatedAlone /\ policyMu = a
      /\ admin[a].op \notin {"none", "create"}
  BY DEF Prov!ProviderInv, Prov!OneInside, Prov!Inside
<1>2. admin'[a] = r /\ \A b \in Admins : b # a => admin'[b] = admin[b] /\ ~Prov!Inside(b)
  BY <1>1 DEF Prov!ProviderTypeOK, Prov!OneInside
<1>3. Prov!Quiet.op = "none"
  BY DEF Prov!Quiet
<1>4. \A b \in Admins : b # a => ~Prov!Inside(b)'
  BY <1>2 DEF Prov!Inside
<1>5. Prov!OneInside'
  BY <1>1, <1>2, <1>3, <1>4 DEF Prov!OneInside, Prov!Inside
<1>6. \A b \in Admins : (admin'[b].op = admin[b].op /\ admin'[b].id = admin[b].id) \/ admin'[b].op = "none"
  BY <1>2, <1>3
<1>7. Prov!IdsSpent'
  BY <1>1, <1>6 DEF Prov!IdsSpent
<1>8. ASSUME NEW b \in Admins, admin'[b].op = "create"
      PROVE  /\ ~provider'[admin'[b].id].tested
             /\ \A o \in Admins \ {b} : admin'[o].op \notin {"none", "settings"} => admin'[o].id # admin'[b].id
  <2>1. admin[b].op = "create" /\ admin'[b].id = admin[b].id /\ b # a
    BY <1>1, <1>2, <1>3, <1>6, <1>8
  <2>2. admin[b].id \in Ids
    BY <1>1, <2>1, <1>3 DEF Prov!ProviderTypeOK, Prov!Operation
  <2>3. admin[b].id # admin[a].id \/ admin[a].op = "settings"
    BY <1>1, <2>1 DEF Prov!CreatedAlone
  <2> QED BY <1>1, <1>6, <2>1, <2>2, <2>3 DEF Prov!CreatedAlone
<1>9. Prov!CreatedAlone'
  BY <1>8 DEF Prov!CreatedAlone
<1> QED BY <1>4, <1>5, <1>7, <1>9 DEF Prov!ProviderInv

\* The creation of a provider concerns no request that is past the mutex.
LEMMA CreateKeeps ==
    ASSUME Prov!ProviderInv, Prov!ProviderTypeOK', NEW a \in Admins, admin[a].op = "create",
           NEW r \in Prov!Operation \cup {Prov!Quiet}, admin' = [admin EXCEPT ![a] = r],
           r = Prov!Quiet \/ (r.op = "create" /\ r.id = admin[a].id),
           policyMu' = policyMu \/ (policyMu = a /\ r = Prov!Quiet), UNCHANGED <<local, passed, spent>>, secret \subseteq secret',
           \A p \in Ids : p # admin[a].id => provider'[p] = provider[p],
           ~provider'[admin[a].id].tested
    PROVE  Prov!ProviderInv' /\ \A S \in SUBSET Ids : Prov!Usable(S)' = Prov!Usable(S)
<1>1. Prov!ProviderTypeOK /\ Prov!OneInside /\ Prov!IdsSpent /\ Prov!CreatedAlone /\ Prov!TestedCurrent
  BY DEF Prov!ProviderInv
<1>2. admin'[a] = r /\ \A b \in Admins : b # a => admin'[b] = admin[b]
  BY <1>1 DEF Prov!ProviderTypeOK
<1>3. Prov!Quiet.op = "none"
  BY DEF Prov!Quiet
<1>4. admin[a].id \in Ids /\ admin[a].id \in spent /\ ~provider[admin[a].id].tested
  BY <1>1, <1>3 DEF Prov!ProviderTypeOK, Prov!Operation, Prov!IdsSpent, Prov!CreatedAlone
<1>5. \A b \in Admins : admin'[b] = admin[b] \/ (b = a /\ admin'[b].op \in {"none", "create"})
  BY <1>2, <1>3
<1>6. \A S \in SUBSET Ids : Prov!Usable(S)' = Prov!Usable(S)
  <2>1. \A p \in Ids : (provider'[p].on /\ provider'[p].tested) <=> (provider[p].on /\ provider[p].tested)
    BY <1>4
  <2> QED BY <2>1 DEF Prov!Usable
<1>7. Prov!TestedCurrent'
  BY <1>1, <1>4 DEF Prov!TestedCurrent
<1>8. \A b \in Admins : Prov!Inside(b)' => Prov!Inside(b) /\ b # a /\ admin'[b] = admin[b]
  BY <1>5 DEF Prov!Inside
<1>9. Prov!OneInside'
  BY <1>1, <1>8 DEF Prov!OneInside
<1>10. \A b \in Admins : (admin'[b].op = admin[b].op /\ admin'[b].id = admin[b].id) \/ admin'[b].op = "none"
  BY <1>2, <1>3
<1>11. Prov!IdsSpent'
  BY <1>1, <1>4, <1>10 DEF Prov!IdsSpent
<1>12. Prov!CreatedAlone'
  <2> SUFFICES ASSUME NEW b \in Admins, admin'[b].op = "create"
               PROVE  /\ ~provider'[admin'[b].id].tested
                      /\ \A o \in Admins \ {b} : admin'[o].op \notin {"none", "settings"} => admin'[o].id # admin'[b].id
    BY DEF Prov!CreatedAlone
  <2>1. admin[b].op = "create" /\ admin'[b].id = admin[b].id
    BY <1>10
  <2>2. admin[b].id \in Ids
    BY <1>1, <2>1, <1>3 DEF Prov!ProviderTypeOK, Prov!Operation
  <2> QED BY <1>1, <1>10, <2>1, <2>2 DEF Prov!CreatedAlone
<1>13. ASSUME NEW b \in Admins, Prov!Inside(b)' PROVE Prov!Holds(b)'
  <2>1. Prov!Inside(b) /\ b # a /\ admin'[b] = admin[b] /\ Prov!Holds(b)
    BY <1>8, <1>13 DEF Prov!ProviderInv
  <2>2. admin[b] \in Prov!Operation /\ admin[b].id \in Ids
    BY <1>1, <1>3, <2>1 DEF Prov!ProviderTypeOK, Prov!Operation, Prov!Inside
  <2>3. admin[b].op # "settings" => admin[b].id # admin[a].id /\ provider'[admin[b].id] = provider[admin[b].id]
    BY <1>1, <2>1, <2>2 DEF Prov!CreatedAlone, Prov!Inside
  <2>4. Prov!Usable(Ids)' = Prov!Usable(Ids) /\ Prov!Usable(Ids \ {admin[b].id})' = Prov!Usable(Ids \ {admin[b].id})
    BY <1>6, <2>1
  <2> QED BY <2>1, <2>2, <2>3, <2>4 DEF Prov!Holds, Prov!Usable
<1> QED BY <1>6, <1>7, <1>9, <1>11, <1>12, <1>13 DEF Prov!ProviderInv

\* A request is made.
LEMMA RequestKeeps ==
    ASSUME Prov!ProviderInv, NEW a \in Admins, NEW p \in Ids,
           NEW op \in {"settings", "test", "update", "delete", "create"}, Prov!Request(a, op, p)
    PROVE  Prov!ProviderInv'
<1>1. Prov!ProviderTypeOK /\ Prov!OneInside /\ Prov!IdsSpent /\ Prov!CreatedAlone /\ Prov!TestedCurrent
  BY DEF Prov!ProviderInv
<1> DEFINE r == [op |-> op, pc |-> IF op = "create" THEN "save" ELSE "enter", id |-> p, row |-> Prov!NoProvider, ok |-> FALSE]
<1>2. r \in Prov!Operation /\ r.op = op /\ r.id = p /\ r.pc = (IF op = "create" THEN "save" ELSE "enter")
  BY DEF Prov!Operation
<1>3. admin' = [admin EXCEPT ![a] = r] /\ UNCHANGED <<provider, secret, local, policyMu, passed>> /\ admin[a] = Prov!Quiet
      /\ (op = "create" => p \notin spent) /\ (op \in {"test", "update", "delete"} => p \in spent)
      /\ spent' = IF op = "create" THEN spent \cup {p} ELSE spent
  BY DEF Prov!Request
<1>4. \A b \in Admins : admin[b].op = "create" => admin[b].id # p
  BY ProviderAssumed DEF Prov!Request, Prov!Quiet
<1> HIDE DEF r
<1>5. admin'[a] = r /\ admin' \in [Admins -> Prov!Operation \cup {Prov!Quiet}] /\ \A b \in Admins : b # a => admin'[b] = admin[b]
  BY <1>1, <1>2, <1>3 DEF Prov!ProviderTypeOK
<1>6. Prov!ProviderTypeOK'
  BY <1>1, <1>3, <1>5 DEF Prov!ProviderTypeOK
<1>7. \A b \in Admins : Prov!Inside(b)' => Prov!Inside(b) /\ admin'[b] = admin[b]
  BY <1>2, <1>5 DEF Prov!Inside
<1>8. Prov!OneInside' /\ Prov!TestedCurrent'
  BY <1>1, <1>3, <1>7 DEF Prov!OneInside, Prov!TestedCurrent
<1>9. Prov!IdsSpent'
  BY <1>1, <1>2, <1>3, <1>5 DEF Prov!IdsSpent
<1>10. Prov!CreatedAlone'
  <2> SUFFICES ASSUME NEW b \in Admins, admin'[b].op = "create"
               PROVE  /\ ~provider'[admin'[b].id].tested
                      /\ \A o \in Admins \ {b} : admin'[o].op \notin {"none", "settings"} => admin'[o].id # admin'[b].id
    BY DEF Prov!CreatedAlone
  <2>1. CASE b = a
    <3>1. op = "create" /\ p \notin spent /\ admin'[a].id = p
      BY <1>2, <1>3, <1>5, <2>1
    <3>2. provider[p] = Prov!NoProvider
      BY <1>1, <3>1 DEF Prov!IdsSpent
    <3>3. \A o \in Admins \ {a} : admin'[o].op \notin {"none", "settings"} => admin'[o].id # p
      BY <1>1, <1>5, <3>1 DEF Prov!IdsSpent
    <3> QED BY <1>3, <2>1, <3>1, <3>2, <3>3 DEF Prov!NoProvider
  <2>2. CASE b # a
    <3>1. admin'[b] = admin[b] /\ admin[b].id # p
      BY <1>4, <1>5, <2>2
    <3> QED BY <1>1, <1>2, <1>3, <1>5, <2>2, <3>1 DEF Prov!CreatedAlone
  <2> QED BY <2>1, <2>2
<1>11. ASSUME NEW b \in Admins, Prov!Inside(b)' PROVE Prov!Holds(b)'
  <2>1. Prov!Holds(b) /\ admin'[b] = admin[b]
    BY <1>7, <1>11 DEF Prov!ProviderInv
  <2>2. \A S : Prov!Usable(S)' = Prov!Usable(S)
    BY <1>3 DEF Prov!Usable
  <2> QED BY <1>3, <2>1, <2>2 DEF Prov!Holds, Prov!Usable
<1> QED BY <1>6, <1>8, <1>9, <1>10, <1>11 DEF Prov!ProviderInv

\* Past the mutex.
LEMMA EnterKeeps ==
    ASSUME Prov!ProviderInv, NEW a \in Admins, Prov!Enter(a) PROVE Prov!ProviderInv'
<1>1. Prov!ProviderTypeOK /\ Prov!OneInside /\ Prov!IdsSpent /\ Prov!CreatedAlone /\ Prov!TestedCurrent
  BY DEF Prov!ProviderInv
<1> DEFINE r == [admin[a] EXCEPT !.pc = "read"]
<1>2. admin[a] \in Prov!Operation /\ admin[a].pc = "enter" /\ policyMu = Prov!Unlocked /\ policyMu' = a /\ UNCHANGED <<provider, secret, local, passed, spent>>
  BY <1>1 DEF Prov!Enter, Prov!ProviderTypeOK
<1>3. r \in Prov!Operation /\ r.op = admin[a].op /\ r.id = admin[a].id /\ r.pc = "read" /\ admin' = [admin EXCEPT ![a] = r]
  BY <1>2 DEF Prov!Enter, Prov!Goes, Prov!Operation
<1> HIDE DEF r
<1>4. admin'[a] = r /\ admin' \in [Admins -> Prov!Operation \cup {Prov!Quiet}] /\ \A b \in Admins : b # a => admin'[b] = admin[b]
  BY <1>1, <1>3 DEF Prov!ProviderTypeOK
<1>5. Prov!ProviderTypeOK'
  BY <1>1, <1>2, <1>4 DEF Prov!ProviderTypeOK
<1>6. \A b \in Admins : Prov!Inside(b) => b = policyMu
  BY <1>1 DEF Prov!OneInside
<1>7. \A b \in Admins : admin'[b].op = admin[b].op /\ admin'[b].id = admin[b].id
  BY <1>3, <1>4
<1>8. \A b \in Admins : Prov!Inside(b)' => b = a
  <2>1. \A b \in Admins : ~Prov!Inside(b)
    BY <1>2, <1>6, ProviderAssumed DEF Prov!ProviderAssumption
  <2> QED BY <1>4, <2>1 DEF Prov!Inside
<1>9. Prov!IdsSpent' /\ Prov!CreatedAlone' /\ Prov!TestedCurrent'
  BY <1>1, <1>2, <1>7 DEF Prov!IdsSpent, Prov!CreatedAlone, Prov!TestedCurrent
<1>10. admin'[a].pc = "read"
  BY <1>3, <1>4
<1>11. Prov!OneInside' /\ Prov!Holds(a)'
  BY <1>2, <1>8, <1>10 DEF Prov!OneInside, Prov!Holds
<1> QED BY <1>5, <1>8, <1>9, <1>11 DEF Prov!ProviderInv

\* What the requests past the mutex leave of a step's obligations.
LEMMA ProviderTyped ==
    ASSUME Prov!ProviderInv, NEW a \in Admins, admin[a] # Prov!Quiet
    PROVE  /\ admin[a] \in Prov!Operation /\ admin[a].op # "none" /\ admin[a].id \in Ids
           /\ admin \in [Admins -> Prov!Operation \cup {Prov!Quiet}] /\ Prov!Quiet.op = "none"
           /\ provider \in [Ids -> Prov!Row \cup {Prov!NoProvider}] /\ Prov!TestedCurrent
  BY DEF Prov!ProviderInv, Prov!ProviderTypeOK, Prov!Operation, Prov!Quiet

\* A step past the mutex that only moves on.
LEMMA MovesOn ==
    ASSUME Prov!ProviderInv, NEW a \in Admins, Prov!Inside(a), admin[a] # Prov!Quiet, NEW r \in Prov!Operation, r.op = admin[a].op,
           r.id = admin[a].id, admin' = [admin EXCEPT ![a] = r], UNCHANGED <<provider, policyMu, passed, spent>>,
           local' \in BOOLEAN, secret' \subseteq Ids, Prov!TestedCurrent', Prov!Holds(a)'
    PROVE  Prov!ProviderInv'
<1>1. Prov!ProviderTypeOK'
  BY DEF Prov!ProviderInv, Prov!ProviderTypeOK
<1> QED BY <1>1, InsideKeeps

\* A request leaves.
LEMMA LeaveKeeps ==
    ASSUME Prov!ProviderInv, NEW a \in Admins, Prov!Leave(a) PROVE Prov!ProviderInv'
<1>1. /\ admin' = [admin EXCEPT ![a] = Prov!Quiet] /\ UNCHANGED <<provider, secret, local, passed, spent>>
      /\ policyMu' = (IF policyMu = a THEN Prov!Unlocked ELSE policyMu) /\ admin[a].pc = "leave" /\ admin[a] # Prov!Quiet
  BY DEF Prov!Leave
<1>2. Prov!ProviderTypeOK'
  BY <1>1 DEF Prov!ProviderInv, Prov!ProviderTypeOK
<1>3. CASE admin[a].op = "create"
  <2>1. CASE policyMu = a
    <3>1. \A b \in Admins : ~Prov!Inside(b)
      BY <1>3, <2>1 DEF Prov!ProviderInv, Prov!OneInside, Prov!Inside
    <3>2. \A b \in Admins : ~Prov!Inside(b)'
      BY <1>1, <3>1, ProviderTyped DEF Prov!Inside
    <3>3. \A b \in Admins : (admin'[b].op = admin[b].op /\ admin'[b].id = admin[b].id) \/ admin'[b].op = "none"
      BY <1>1, ProviderTyped
    <3>4. Prov!IdsSpent' /\ Prov!CreatedAlone' /\ Prov!TestedCurrent'
      BY <1>1, <3>3 DEF Prov!ProviderInv, Prov!IdsSpent, Prov!CreatedAlone, Prov!TestedCurrent
    <3> QED BY <1>2, <3>2, <3>4 DEF Prov!ProviderInv, Prov!OneInside
  <2>2. CASE policyMu # a
    <3>1. ~provider[admin[a].id].tested
      BY <1>3 DEF Prov!ProviderInv, Prov!CreatedAlone
    <3> QED BY <1>1, <1>2, <1>3, <2>2, <3>1, CreateKeeps
  <2> QED BY <2>1, <2>2
<1>4. CASE admin[a].op # "create"
  <2>1. Prov!Inside(a) /\ Prov!TestedCurrent
    BY <1>1, <1>4, ProviderTyped DEF Prov!Inside
  <2>2. ~Prov!Inside(a)' /\ Prov!TestedCurrent'
    BY <1>1, <2>1, ProviderTyped DEF Prov!Inside, Prov!TestedCurrent
  <2> QED BY <1>1, <1>2, <2>1, <2>2, InsideKeeps
<1> QED BY <1>3, <1>4

\* Local logins.
LEMMA SettingsKeep ==
    ASSUME Prov!ProviderInv, NEW a \in Admins, Prov!ReadSettings(a) \/ Prov!SaveSettings(a) PROVE Prov!ProviderInv'
<1>1. Prov!Inside(a) /\ admin[a] # Prov!Quiet /\ admin[a].op = "settings"
  BY DEF Prov!ReadSettings, Prov!SaveSettings, Prov!Is, Prov!Inside
<1>2. admin[a] \in Prov!Operation /\ admin \in [Admins -> Prov!Operation \cup {Prov!Quiet}] /\ Prov!TestedCurrent /\ secret \subseteq Ids /\ local \in BOOLEAN
  BY <1>1, ProviderTyped DEF Prov!ProviderInv, Prov!ProviderTypeOK
<1>3. CASE Prov!ReadSettings(a)
  <2>1. PICK ok \in BOOLEAN : admin' = [admin EXCEPT ![a].pc = IF ok \/ Prov!Usable(Ids) # {} THEN "save" ELSE "leave", ![a].ok = ok]
    BY <1>3 DEF Prov!ReadSettings
  <2> DEFINE r == [admin[a] EXCEPT !.pc = IF ok \/ Prov!Usable(Ids) # {} THEN "save" ELSE "leave", !.ok = ok]
  <2>2. admin' = [admin EXCEPT ![a] = r] /\ UNCHANGED <<provider, secret, local, policyMu, passed, spent>>
    BY ZenonT(60), <1>3, <2>1 DEF Prov!ReadSettings
  <2>3. /\ r \in Prov!Operation /\ r.op = admin[a].op /\ r.id = admin[a].id
        /\ r.pc = "save" => r.ok \/ Prov!Usable(Ids) # {}
    BY <1>2 DEF Prov!Operation
  <2> HIDE DEF r
  <2>4. admin'[a] = r /\ Prov!TestedCurrent' /\ Prov!Usable(Ids)' = Prov!Usable(Ids)
    BY <1>2, <2>2 DEF Prov!TestedCurrent, Prov!Usable
  <2>5. Prov!Holds(a)'
    BY <1>1, <2>3, <2>4 DEF Prov!Holds
  <2> QED BY <1>1, <1>2, <2>2, <2>3, <2>4, <2>5, MovesOn
<1>4. CASE Prov!SaveSettings(a)
  <2> DEFINE r == [admin[a] EXCEPT !.pc = "leave"]
  <2>1. admin' = [admin EXCEPT ![a] = r] /\ local' \in {local, admin[a].ok} /\ UNCHANGED <<provider, secret, policyMu, passed, spent>>
    BY <1>4 DEF Prov!SaveSettings, Prov!Goes
  <2>2. r \in Prov!Operation /\ r.op = admin[a].op /\ r.id = admin[a].id /\ r.pc = "leave" /\ admin[a].ok \in BOOLEAN
    BY <1>2 DEF Prov!Operation
  <2> HIDE DEF r
  <2>3. admin'[a] = r /\ Prov!TestedCurrent'
    BY <1>2, <2>1 DEF Prov!TestedCurrent
  <2>4. Prov!Holds(a)'
    BY <1>1, <2>2, <2>3 DEF Prov!Holds
  <2> QED BY <1>1, <1>2, <2>1, <2>2, <2>3, <2>4, MovesOn
<1> QED BY <1>3, <1>4

\* A test.
LEMMA TestKeeps ==
    ASSUME Prov!ProviderInv, NEW a \in Admins, Prov!ReadTest(a) \/ Prov!Probe(a) \/ Prov!SaveTest(a) PROVE Prov!ProviderInv'
<1>1. Prov!Inside(a) /\ admin[a] # Prov!Quiet /\ admin[a].op = "test" /\ admin[a].pc \in {"read", "probe", "save"}
  BY DEF Prov!ReadTest, Prov!Probe, Prov!SaveTest, Prov!Is, Prov!Inside
<1>2. /\ admin[a] \in Prov!Operation /\ admin \in [Admins -> Prov!Operation \cup {Prov!Quiet}] /\ Prov!TestedCurrent /\ secret \subseteq Ids
      /\ local \in BOOLEAN /\ Prov!Holds(a)
      /\ provider \in [Ids -> Prov!Row \cup {Prov!NoProvider}] /\ passed \in [Ids -> 0..ConfigLimit]
  BY <1>1, ProviderTyped DEF Prov!ProviderInv, Prov!ProviderTypeOK
<1> DEFINE p == admin[a].id
<1>p. p \in Ids
  BY <1>2 DEF Prov!Operation
<1>3. CASE Prov!ReadTest(a)
  <2> DEFINE r == [admin[a] EXCEPT !.pc = IF provider[p] = Prov!NoProvider THEN "leave" ELSE "probe", !.row = provider[p]]
  <2>1. admin' = [admin EXCEPT ![a] = r] /\ UNCHANGED <<provider, secret, local, policyMu, passed, spent>>
    BY <1>3 DEF Prov!ReadTest
  <2>2. /\ r \in Prov!Operation /\ r.op = admin[a].op /\ r.id = p
        /\ r.pc \in {"leave", "probe"} /\ (r.pc = "probe" => r.row = provider[p] /\ r.row # Prov!NoProvider)
    BY <1>2, <1>p DEF Prov!Operation
  <2> HIDE DEF r
  <2>3. admin'[a] = r /\ Prov!TestedCurrent'
    BY <1>2, <2>1 DEF Prov!TestedCurrent
  <2>4. Prov!Holds(a)'
    BY <1>1, <2>1, <2>2, <2>3 DEF Prov!Holds
  <2> QED BY <1>1, <1>2, <2>1, <2>2, <2>3, <2>4, MovesOn
<1>4. CASE Prov!Probe(a)
  <2>1. \E ok \in BOOLEAN : (ok => p \in secret) /\ admin' = [admin EXCEPT ![a].pc = "save", ![a].ok = ok]
    <3>1. (p \in secret) \in BOOLEAN
      OBVIOUS
    <3> QED BY <1>4, <3>1 DEF Prov!Probe
  <2>a. PICK ok \in BOOLEAN : (ok => p \in secret) /\ admin' = [admin EXCEPT ![a].pc = "save", ![a].ok = ok]
    BY <2>1
  <2> DEFINE r == [admin[a] EXCEPT !.pc = "save", !.ok = ok]
  <2>2. admin' = [admin EXCEPT ![a] = r] /\ UNCHANGED <<provider, secret, local, policyMu, passed, spent>>
    BY <1>4, <2>a DEF Prov!Probe
  <2>3. /\ r \in Prov!Operation /\ r.op = admin[a].op /\ r.id = p /\ r.row = admin[a].row
        /\ r.pc = "save" /\ (r.ok => p \in secret)
    BY <1>2, <2>a DEF Prov!Operation
  <2> HIDE DEF r
  <2>4. admin'[a] = r /\ Prov!TestedCurrent'
    BY <1>2, <2>2 DEF Prov!TestedCurrent
  <2>5. admin[a].row # Prov!NoProvider /\ (provider[p] # Prov!NoProvider => provider[p].config = admin[a].row.config)
    BY <1>2, <1>4 DEF Prov!Holds, Prov!Probe, Prov!Is
  <2>6. Prov!Holds(a)'
    BY <1>1, <2>2, <2>3, <2>4, <2>5 DEF Prov!Holds
  <2> QED BY <1>1, <1>2, <2>2, <2>3, <2>4, <2>6, MovesOn
<1>5. CASE Prov!SaveTest(a)
  <2> DEFINE r == [admin[a] EXCEPT !.pc = "leave"]
  <2>1. admin' = [admin EXCEPT ![a] = r] /\ UNCHANGED <<secret, local, policyMu, spent>>
    BY <1>5 DEF Prov!SaveTest, Prov!Goes
  <2>2. r \in Prov!Operation /\ r.op = admin[a].op /\ r.id = p /\ r.pc = "leave"
    BY <1>2 DEF Prov!Operation
  <2> HIDE DEF r
  <2>3. admin'[a] = r /\ Prov!Holds(a)'
    <3>1. admin'[a] = r
      BY <1>2, <2>1
    <3> QED BY <1>1, <2>2, <3>1 DEF Prov!Holds
  <2>4. CASE provider[p] = Prov!NoProvider
    <3>1. UNCHANGED <<provider, passed>>
      BY <1>5, <2>4 DEF Prov!SaveTest
    <3>2. Prov!TestedCurrent'
      BY <1>2, <2>1, <3>1 DEF Prov!TestedCurrent
    <3> QED BY <1>1, <1>2, <2>1, <2>2, <2>3, <3>1, <3>2, MovesOn
  <2>5. CASE provider[p] # Prov!NoProvider
    <3> DEFINE row == [provider[p] EXCEPT !.tested = admin[a].ok]
               seen == admin[a].row.config
    <3>1. provider[p] \in Prov!Row /\ admin[a].ok \in BOOLEAN /\ admin[a].row \in Prov!Row /\ provider[p].config = seen
      BY <1>2, <1>5, <1>p, <2>5 DEF Prov!Operation, Prov!Holds, Prov!SaveTest, Prov!Is
    <3>2. row \in Prov!Row /\ row.tested = admin[a].ok /\ row.config = seen /\ seen \in 0..ConfigLimit
      BY <3>1, ProviderAssumed DEF Prov!Row, Prov!ProviderAssumption
    <3>3. provider' = [provider EXCEPT ![p] = row] /\ passed' = (IF admin[a].ok THEN [passed EXCEPT ![p] = seen] ELSE passed)
      BY <1>5, <2>5 DEF Prov!SaveTest
    <3>4. admin[a].ok => p \in secret
      BY <1>1, <1>2, <1>5 DEF Prov!Holds, Prov!SaveTest, Prov!Is
    <3> HIDE DEF row, seen, p
    <3>5. /\ provider' \in [Ids -> Prov!Row \cup {Prov!NoProvider}] /\ passed' \in [Ids -> 0..ConfigLimit]
          /\ provider'[p] = row /\ (admin[a].ok => passed'[p] = seen)
          /\ \A o \in Ids : o # p => provider'[o] = provider[o] /\ passed'[o] = passed[o]
      BY <1>2, <1>p, <3>2, <3>3
    <3>6. Prov!TestedCurrent'
      BY <1>2, <2>1, <3>2, <3>4, <3>5 DEF Prov!TestedCurrent
    <3>7. Prov!ProviderTypeOK'
      BY <1>2, <2>1, <2>2, <3>5 DEF Prov!ProviderInv, Prov!ProviderTypeOK
    <3>8. \A o \in Ids : provider[o] = Prov!NoProvider => provider'[o] = Prov!NoProvider
      BY <2>5, <3>5 DEF p
    <3> QED BY <1>1, <2>1, <2>2, <2>3, <3>5, <3>6, <3>7, <3>8, InsideKeeps DEF p
  <2> QED BY <2>4, <2>5
<1> QED BY <1>3, <1>4, <1>5

\* An edit.
LEMMA UpdateKeeps ==
    ASSUME Prov!ProviderInv, NEW a \in Admins, NEW changed \in BOOLEAN, NEW on \in BOOLEAN, Prov!Update(a, changed, on)
    PROVE  Prov!ProviderInv'
<1>1. Prov!Inside(a) /\ admin[a] # Prov!Quiet /\ admin[a].op = "update"
  BY DEF Prov!Update, Prov!Is, Prov!Inside
<1>2. /\ admin[a] \in Prov!Operation /\ admin \in [Admins -> Prov!Operation \cup {Prov!Quiet}] /\ Prov!TestedCurrent /\ secret \subseteq Ids
      /\ local \in BOOLEAN /\ provider \in [Ids -> Prov!Row \cup {Prov!NoProvider}]
  BY <1>1, ProviderTyped DEF Prov!ProviderInv, Prov!ProviderTypeOK
<1> DEFINE p == admin[a].id
           was == provider[p]
           risky == (changed /\ was.tested) \/ (~on /\ was.on)
           row == [on |-> on, tested |-> was.tested /\ ~changed /\ (on \/ ~was.on),
                   config |-> IF changed THEN was.config + 1 ELSE was.config]
           bad == was = Prov!NoProvider \/ (risky /\ ~local /\ Prov!Usable(Ids \ {p}) = {})
           r == IF bad THEN [admin[a] EXCEPT !.pc = "leave"]
                ELSE [admin[a] EXCEPT !.pc = "save", !.row = row, !.ok = changed]
<1>3. admin' = [admin EXCEPT ![a] = r] /\ (bad \/ (changed => was.config < ConfigLimit))
      /\ UNCHANGED <<provider, secret, local, policyMu, passed, spent>>
  BY DEF Prov!Update, Prov!Goes
<1>4. p \in Ids /\ (~bad => was \in Prov!Row)
  BY <1>2 DEF Prov!Operation
<1>5. ~bad => row \in Prov!Row /\ row.on = on /\ (row.tested => was.tested /\ ~changed /\ row.config = was.config)
              /\ (was.on /\ was.tested /\ ~risky => row.tested)
  <2> SUFFICES ASSUME ~bad PROVE row \in Prov!Row /\ row.on = on /\ (row.tested => was.tested /\ ~changed /\ row.config = was.config)
                                  /\ (was.on /\ was.tested /\ ~risky => row.tested)
    OBVIOUS
  <2>1. was \in Prov!Row /\ was.config \in 1..ConfigLimit /\ was.on \in BOOLEAN /\ was.tested \in BOOLEAN
        /\ (changed => was.config < ConfigLimit) /\ ConfigLimit \in Nat
    BY SMTT(60), <1>3, <1>4, ProviderAssumed DEF Prov!Row, Prov!ProviderAssumption
  <2>2. row.config \in 1..ConfigLimit
    BY <2>1
  <2> QED BY <2>1, <2>2 DEF Prov!Row
<1>6. r \in Prov!Operation /\ r.op = "update" /\ r.id = p /\ r.pc \in {"leave", "save"}
      /\ (r.pc = "save" => ~bad /\ r.row = row)
  BY ZenonT(60), <1>1, <1>2, <1>5 DEF Prov!Operation
<1>7. r.pc = "save" =>
        /\ r.row # Prov!NoProvider /\ (r.row.tested => passed[p] = r.row.config /\ p \in secret)
        /\ local \/ Prov!Usable(Ids \ {p}) # {} \/ (p \in Prov!Usable(Ids) => r.row.on /\ r.row.tested)
  <2> SUFFICES ASSUME r.pc = "save"
               PROVE  /\ r.row # Prov!NoProvider /\ (r.row.tested => passed[p] = r.row.config /\ p \in secret)
                      /\ local \/ Prov!Usable(Ids \ {p}) # {} \/ (p \in Prov!Usable(Ids) => r.row.on /\ r.row.tested)
    OBVIOUS
  <2>1. ~bad /\ r.row = row /\ row \in Prov!Row
    BY <1>5, <1>6
  <2>2. row # Prov!NoProvider
    BY <2>1, ProviderAssumed DEF Prov!Row, Prov!NoProvider, Prov!ProviderAssumption
  <2>3. row.tested => passed[p] = row.config /\ p \in secret
    BY <1>2, <1>4, <1>5, <2>1 DEF Prov!TestedCurrent
  <2>4. p \in Prov!Usable(Ids) => was.on /\ was.tested
    BY DEF Prov!Usable
  <2>5. ~risky => (p \in Prov!Usable(Ids) => row.on /\ row.tested)
    BY <1>5, <2>1, <2>4
  <2> QED BY <2>1, <2>2, <2>3, <2>5
<1> HIDE DEF r, p
<1>8. admin'[a] = r /\ Prov!TestedCurrent' /\ \A S : Prov!Usable(S)' = Prov!Usable(S)
  BY <1>2, <1>3 DEF Prov!TestedCurrent, Prov!Usable
<1>9. Prov!Holds(a)'
  BY SMTT(60), <1>3, <1>6, <1>7, <1>8 DEF Prov!Holds
<1> QED BY <1>1, <1>2, <1>3, <1>6, <1>8, <1>9, MovesOn DEF p

LEMMA SaveUpdateKeeps ==
    ASSUME Prov!ProviderInv, NEW a \in Admins, Prov!SaveUpdate(a) PROVE Prov!ProviderInv'
<1>1. Prov!Inside(a) /\ admin[a] # Prov!Quiet /\ admin[a].op = "update" /\ admin[a].pc = "save"
  BY DEF Prov!SaveUpdate, Prov!Is, Prov!Inside
<1>2. /\ admin[a] \in Prov!Operation /\ admin \in [Admins -> Prov!Operation \cup {Prov!Quiet}] /\ Prov!TestedCurrent /\ secret \subseteq Ids
      /\ local \in BOOLEAN /\ Prov!Holds(a) /\ provider \in [Ids -> Prov!Row \cup {Prov!NoProvider}] /\ passed \in [Ids -> 0..ConfigLimit]
  BY <1>1, ProviderTyped DEF Prov!ProviderInv, Prov!ProviderTypeOK
<1> DEFINE p == admin[a].id
           row == IF provider[p] = Prov!NoProvider THEN Prov!NoProvider ELSE admin[a].row
<1>3. PICK pc \in {"leave", "secret"} : admin' = [admin EXCEPT ![a].pc = pc]
  BY DEF Prov!SaveUpdate, Prov!Goes
<1> DEFINE r == [admin[a] EXCEPT !.pc = pc]
<1>4. provider' = [provider EXCEPT ![p] = row] /\ UNCHANGED <<secret, local, policyMu, passed, spent>>
  BY DEF Prov!SaveUpdate
<1>5. /\ p \in Ids /\ admin' = [admin EXCEPT ![a] = r] /\ r \in Prov!Operation /\ r.op = "update" /\ r.id = p /\ r.pc \in {"leave", "secret"}
      /\ row \in Prov!Row \cup {Prov!NoProvider}
  BY <1>1, <1>2, <1>3 DEF Prov!Operation
<1>6. row.tested => passed[p] = row.config /\ p \in secret
  BY <1>1, <1>2 DEF Prov!Holds, Prov!NoProvider
<1>7. provider[p] = Prov!NoProvider => row = Prov!NoProvider
  OBVIOUS
<1> HIDE DEF r, row, p
<1>8. /\ admin'[a] = r /\ admin' \in [Admins -> Prov!Operation \cup {Prov!Quiet}] /\ provider' \in [Ids -> Prov!Row \cup {Prov!NoProvider}]
      /\ provider'[p] = row /\ \A o \in Ids : o # p => provider'[o] = provider[o]
  BY <1>2, <1>4, <1>5
<1>9. Prov!ProviderTypeOK' /\ Prov!TestedCurrent'
  BY <1>2, <1>4, <1>6, <1>8 DEF Prov!ProviderInv, Prov!ProviderTypeOK, Prov!TestedCurrent
<1>10. Prov!Holds(a)'
  BY <1>5, <1>8 DEF Prov!Holds
<1> QED BY <1>1, <1>4, <1>5, <1>7, <1>8, <1>9, <1>10, InsideKeeps DEF p

\* Secrets, and deletion.
LEMMA SecretKeeps ==
    ASSUME Prov!ProviderInv, NEW a \in Admins, Prov!StoreSecret(a) \/ Prov!ReadDelete(a) \/ Prov!DropSecret(a) PROVE Prov!ProviderInv'
<1>1. Prov!Inside(a) /\ admin[a] # Prov!Quiet /\ admin[a].op \in {"update", "delete"}
  BY DEF Prov!StoreSecret, Prov!ReadDelete, Prov!DropSecret, Prov!Is, Prov!Inside
<1>2. /\ admin[a] \in Prov!Operation /\ admin \in [Admins -> Prov!Operation \cup {Prov!Quiet}] /\ Prov!TestedCurrent /\ secret \subseteq Ids
      /\ local \in BOOLEAN /\ Prov!Holds(a) /\ admin[a].id \in Ids
  BY <1>1, ProviderTyped DEF Prov!ProviderInv, Prov!ProviderTypeOK
<1>3. PICK pc \in {"leave", "save"} :
         /\ admin' = [admin EXCEPT ![a].pc = pc]
         /\ pc = "save" => admin[a].op = "delete" /\ (local \/ Prov!Usable(Ids \ {admin[a].id}) # {})
  BY DEF Prov!StoreSecret, Prov!ReadDelete, Prov!DropSecret, Prov!Is, Prov!Goes
<1>4. UNCHANGED <<provider, local, policyMu, passed, spent>> /\ secret' \subseteq Ids
  BY <1>2 DEF Prov!StoreSecret, Prov!ReadDelete, Prov!DropSecret
<1> DEFINE r == [admin[a] EXCEPT !.pc = pc]
<1>a. pc \in {"enter", "read", "probe", "save", "secret", "undo", "leave"} /\ admin[a] \in Prov!Operation
  BY <1>2
<1>5. admin' = [admin EXCEPT ![a] = r] /\ r \in Prov!Operation /\ r.op = admin[a].op /\ r.id = admin[a].id /\ r.pc = pc
  <2>1. r \in Prov!Operation /\ r.op = admin[a].op /\ r.id = admin[a].id /\ r.pc = pc
    BY <1>a DEF Prov!Operation
  <2> QED BY <1>3, <2>1
<1> HIDE DEF r
<1>6. admin'[a] = r /\ \A S : Prov!Usable(S)' = Prov!Usable(S)
  BY <1>2, <1>4, <1>5 DEF Prov!Usable
<1>7. Prov!Holds(a)'
  <2>1. admin'[a].op = admin[a].op /\ admin'[a].id = admin[a].id /\ admin'[a].pc = pc
    BY <1>5, <1>6
  <2>2. pc = "save" => admin[a].op = "delete" /\ (local' \/ Prov!Usable(Ids \ {admin[a].id})' # {})
    BY <1>3, <1>4, <1>6
  <2> QED BY <1>1, <2>1, <2>2 DEF Prov!Holds
<1>8. Prov!TestedCurrent'
  <2>1. \A p \in Ids : provider[p].tested /\ p \in secret => p \in secret'
    <3>1. CASE Prov!DropSecret(a)
      <4>1. provider[admin[a].id] = Prov!NoProvider
        BY <1>2, <3>1 DEF Prov!Holds, Prov!DropSecret, Prov!Is
      <4>2. ~provider[admin[a].id].tested
        BY <4>1 DEF Prov!NoProvider
      <4> QED BY <3>1, <4>2 DEF Prov!DropSecret
    <3>2. CASE Prov!StoreSecret(a) \/ Prov!ReadDelete(a)
      BY <3>2 DEF Prov!StoreSecret, Prov!ReadDelete
    <3> QED BY <3>1, <3>2
  <2> QED BY <1>2, <1>4, <2>1 DEF Prov!TestedCurrent
<1> QED BY <1>1, <1>2, <1>4, <1>5, <1>7, <1>8, MovesOn

LEMMA SaveDeleteKeeps ==
    ASSUME Prov!ProviderInv, NEW a \in Admins, Prov!SaveDelete(a) PROVE Prov!ProviderInv'
<1>1. Prov!Inside(a) /\ admin[a] # Prov!Quiet /\ admin[a].op = "delete"
  BY DEF Prov!SaveDelete, Prov!Is, Prov!Inside
<1>2. /\ admin[a] \in Prov!Operation /\ admin \in [Admins -> Prov!Operation \cup {Prov!Quiet}] /\ Prov!TestedCurrent
      /\ provider \in [Ids -> Prov!Row \cup {Prov!NoProvider}] /\ admin[a].id \in Ids
  BY <1>1, ProviderTyped DEF Prov!ProviderInv, Prov!ProviderTypeOK
<1> DEFINE r == [admin[a] EXCEPT !.pc = "secret"]
<1>3. /\ admin' = [admin EXCEPT ![a] = r] /\ provider' = [provider EXCEPT ![admin[a].id] = Prov!NoProvider]
      /\ UNCHANGED <<secret, local, policyMu, passed, spent>>
  BY DEF Prov!SaveDelete, Prov!Goes
<1>4. r \in Prov!Operation /\ r.op = "delete" /\ r.id = admin[a].id /\ r.pc = "secret" /\ ~Prov!NoProvider.tested
  BY <1>1, <1>2 DEF Prov!Operation, Prov!NoProvider
<1> HIDE DEF r
<1>5. /\ admin'[a] = r /\ admin' \in [Admins -> Prov!Operation \cup {Prov!Quiet}] /\ provider' \in [Ids -> Prov!Row \cup {Prov!NoProvider}]
      /\ provider'[admin[a].id] = Prov!NoProvider /\ \A o \in Ids : o # admin[a].id => provider'[o] = provider[o]
  BY <1>2, <1>3, <1>4
<1>6. Prov!ProviderTypeOK' /\ Prov!TestedCurrent'
  BY <1>2, <1>3, <1>4, <1>5 DEF Prov!ProviderInv, Prov!ProviderTypeOK, Prov!TestedCurrent
<1>7. Prov!Holds(a)'
  BY <1>4, <1>5 DEF Prov!Holds
<1>8. \A o \in Ids : provider[o] = Prov!NoProvider => provider'[o] = Prov!NoProvider
  BY <1>5
<1> QED BY <1>1, <1>3, <1>4, <1>5, <1>6, <1>7, <1>8, InsideKeeps

\* Creation, which the mutex does not cover.
LEMMA MakeKeeps ==
    ASSUME Prov!ProviderInv, NEW a \in Admins, Prov!SaveCreate(a) \/ Prov!FirstSecret(a) \/ Prov!Undo(a)
    PROVE  Prov!ProviderInv' /\ \A S \in SUBSET Ids : Prov!Usable(S)' = Prov!Usable(S)
<1>1. admin[a] # Prov!Quiet /\ admin[a].op = "create"
  BY DEF Prov!SaveCreate, Prov!FirstSecret, Prov!Undo, Prov!Is
<1>2. /\ admin[a] \in Prov!Operation /\ admin \in [Admins -> Prov!Operation \cup {Prov!Quiet}] /\ secret \subseteq Ids
      /\ provider \in [Ids -> Prov!Row \cup {Prov!NoProvider}] /\ admin[a].id \in Ids
  BY <1>1, ProviderTyped DEF Prov!ProviderInv, Prov!ProviderTypeOK
<1>3. ~provider[admin[a].id].tested
  BY <1>1 DEF Prov!ProviderInv, Prov!CreatedAlone
<1>4. PICK pc \in {"leave", "secret", "undo"} : admin' = [admin EXCEPT ![a].pc = pc]
  BY DEF Prov!SaveCreate, Prov!FirstSecret, Prov!Undo, Prov!Goes
<1> DEFINE r == [admin[a] EXCEPT !.pc = pc]
<1>5. admin' = [admin EXCEPT ![a] = r] /\ r \in Prov!Operation /\ r.op = "create" /\ r.id = admin[a].id
  BY <1>1, <1>2, <1>4 DEF Prov!Operation
<1>6. UNCHANGED <<local, policyMu, passed, spent>> /\ secret \subseteq secret' /\ secret' \subseteq Ids
  BY <1>2 DEF Prov!SaveCreate, Prov!FirstSecret, Prov!Undo
<1>7. \E row \in Prov!Row \cup {Prov!NoProvider} : ~row.tested /\ provider' = [provider EXCEPT ![admin[a].id] = row]
  <2>1. CASE Prov!SaveCreate(a)
    <3>1. \A on \in BOOLEAN : [on |-> on, tested |-> FALSE, config |-> 1] \in Prov!Row
      BY ProviderAssumed DEF Prov!Row, Prov!ProviderAssumption
    <3> QED BY <2>1, <3>1 DEF Prov!SaveCreate
  <2>2. CASE UNCHANGED provider
    <3>1. provider' = [provider EXCEPT ![admin[a].id] = provider[admin[a].id]]
      BY <1>2, <2>2
    <3> QED BY <1>2, <1>3, <3>1
  <2>3. CASE Prov!Undo(a) /\ ~UNCHANGED provider
    BY <2>3 DEF Prov!Undo, Prov!NoProvider
  <2> QED BY <2>1, <2>2, <2>3 DEF Prov!FirstSecret
<1>8. PICK row \in Prov!Row \cup {Prov!NoProvider} : ~row.tested /\ provider' = [provider EXCEPT ![admin[a].id] = row]
  BY <1>7
<1> HIDE DEF r
<1>9. /\ provider' \in [Ids -> Prov!Row \cup {Prov!NoProvider}] /\ ~provider'[admin[a].id].tested
      /\ \A o \in Ids : o # admin[a].id => provider'[o] = provider[o]
  BY <1>2, <1>8
<1>10. Prov!ProviderTypeOK'
  BY <1>2, <1>5, <1>6, <1>9 DEF Prov!ProviderInv, Prov!ProviderTypeOK
<1> QED BY <1>1, <1>5, <1>6, <1>9, <1>10, CreateKeeps

LEMMA ProviderGo == Prov!ProviderInv /\ [Prov!ProviderNext]_(Prov!providerVars) => Prov!ProviderInv'
<1> SUFFICES ASSUME Prov!ProviderInv, [Prov!ProviderNext]_(Prov!providerVars) PROVE Prov!ProviderInv'
  OBVIOUS
<1>1. ASSUME NEW a \in Admins, Prov!Proceed(a) PROVE Prov!ProviderInv'
  BY <1>1, EnterKeeps, LeaveKeeps, SettingsKeep, TestKeeps, UpdateKeeps, SaveUpdateKeeps, SecretKeeps,
     SaveDeleteKeeps, MakeKeeps DEF Prov!Proceed
<1>2. CASE UNCHANGED Prov!providerVars
  <2>1. UNCHANGED <<provider, secret, local, policyMu, admin, spent, passed>>
    BY <1>2 DEF Prov!providerVars
  <2>2. \A S : Prov!Usable(S)' = Prov!Usable(S)
    BY <2>1 DEF Prov!Usable
  <2>3. \A a \in Admins : Prov!Inside(a)' = Prov!Inside(a) /\ (Prov!Holds(a)' <=> Prov!Holds(a))
    BY <2>1, <2>2 DEF Prov!Inside, Prov!Holds
  <2> QED BY <2>1, <2>3 DEF Prov!ProviderInv, Prov!ProviderTypeOK, Prov!TestedCurrent, Prov!OneInside, Prov!IdsSpent, Prov!CreatedAlone
<1> QED BY <1>1, <1>2, RequestKeeps DEF Prov!ProviderNext

\* No step but a test locks everybody out.
LEMMA LocksOut == Prov!ProviderInv /\ [Prov!ProviderNext]_(Prov!providerVars) => Prov!OnlyTestsLockOut
<1> SUFFICES ASSUME Prov!ProviderInv, [Prov!ProviderNext]_(Prov!providerVars), ~Prov!LockedOut, Prov!LockedOut'
             PROVE  \E a \in Admins : Prov!Is(a, "test", "save") /\ admin'[a] # admin[a]
  BY DEF Prov!OnlyTestsLockOut
<1>1. local \/ Prov!Usable(Ids) # {}
  BY DEF Prov!LockedOut
<1>2. ~local' /\ Prov!Usable(Ids)' = {}
  BY DEF Prov!LockedOut
<1>3. CASE UNCHANGED local /\ Prov!Usable(Ids)' = Prov!Usable(Ids)
  BY <1>1, <1>2, <1>3
<1>4. UNCHANGED provider => Prov!Usable(Ids)' = Prov!Usable(Ids)
  BY DEF Prov!Usable
<1>5. ASSUME NEW a \in Admins, Prov!SaveSettings(a) PROVE FALSE
  <2>1. UNCHANGED provider /\ (local' = local \/ (local' = admin[a].ok)) /\ Prov!Holds(a) /\ Prov!Is(a, "settings", "save")
    BY <1>5 DEF Prov!SaveSettings, Prov!ProviderInv, Prov!Inside, Prov!Is
  <2> QED BY <1>1, <1>2, <1>4, <2>1 DEF Prov!Holds, Prov!Is
<1>6. ASSUME NEW a \in Admins, Prov!SaveUpdate(a) PROVE FALSE
  <2>1. /\ Prov!Inside(a) /\ admin[a].op = "update" /\ admin[a].pc = "save" /\ admin[a] # Prov!Quiet
        /\ provider' = [provider EXCEPT ![admin[a].id] = IF @ = Prov!NoProvider THEN @ ELSE admin[a].row] /\ UNCHANGED local
    BY <1>6 DEF Prov!SaveUpdate, Prov!Is, Prov!Inside
  <2>2. admin[a].id \in Ids /\ provider \in [Ids -> Prov!Row \cup {Prov!NoProvider}] /\ Prov!Holds(a)
    BY <2>1, ProviderTyped DEF Prov!ProviderInv
  <2>3. \A o \in Ids : o # admin[a].id => provider'[o] = provider[o]
    BY <2>1, <2>2
  <2>4. Prov!Usable(Ids \ {admin[a].id}) = {}
    BY <1>2, <2>3 DEF Prov!Usable
  <2>5. Prov!Usable(Ids) # {} /\ admin[a].id \in Prov!Usable(Ids) /\ ~local
    BY <1>1, <1>2, <2>1, <2>4 DEF Prov!Usable
  <2>6. admin[a].row.on /\ admin[a].row.tested
    BY <2>1, <2>2, <2>4, <2>5 DEF Prov!Holds
  <2>7. provider[admin[a].id] # Prov!NoProvider
    BY <2>5 DEF Prov!Usable, Prov!NoProvider
  <2>8. provider'[admin[a].id] = admin[a].row
    BY <2>1, <2>2, <2>7
  <2> QED BY <1>2, <2>2, <2>6, <2>8 DEF Prov!Usable
<1>7. ASSUME NEW a \in Admins, Prov!SaveDelete(a) PROVE FALSE
  <2>1. /\ Prov!Inside(a) /\ admin[a].op = "delete" /\ admin[a].pc = "save" /\ admin[a] # Prov!Quiet
        /\ provider' = [provider EXCEPT ![admin[a].id] = Prov!NoProvider] /\ UNCHANGED local
    BY <1>7 DEF Prov!SaveDelete, Prov!Is, Prov!Inside
  <2>2. admin[a].id \in Ids /\ provider \in [Ids -> Prov!Row \cup {Prov!NoProvider}] /\ Prov!Holds(a)
    BY <2>1, ProviderTyped DEF Prov!ProviderInv
  <2>3. \A o \in Ids : o # admin[a].id => provider'[o] = provider[o]
    BY <2>1, <2>2
  <2>4. Prov!Usable(Ids \ {admin[a].id}) = {}
    BY <1>2, <2>3 DEF Prov!Usable
  <2> QED BY <1>1, <1>2, <2>1, <2>2, <2>4 DEF Prov!Holds
<1>8. ASSUME NEW a \in Admins, Prov!SaveTest(a) PROVE Prov!Is(a, "test", "save") /\ admin'[a] # admin[a]
  <2>1. /\ Prov!Is(a, "test", "save") /\ admin' = [admin EXCEPT ![a] = [admin[a] EXCEPT !.pc = "leave"]] /\ admin[a] # Prov!Quiet
        /\ admin[a].pc = "save"
    BY <1>8 DEF Prov!SaveTest, Prov!Goes, Prov!Is
  <2>2. admin[a] \in Prov!Operation /\ admin \in [Admins -> Prov!Operation \cup {Prov!Quiet}]
    BY <2>1, ProviderTyped
  <2>3. admin'[a].pc = "leave"
    BY <2>1, <2>2 DEF Prov!Operation
  <2> QED BY <2>1, <2>3
<1>9. ASSUME NEW a \in Admins, Prov!SaveCreate(a) \/ Prov!FirstSecret(a) \/ Prov!Undo(a) PROVE FALSE
  <2>1. UNCHANGED local /\ Prov!Usable(Ids)' = Prov!Usable(Ids)
    BY ZenonT(60), <1>9, MakeKeeps DEF Prov!SaveCreate, Prov!FirstSecret, Prov!Undo
  <2> QED BY <1>3, <2>1, <1>1, <1>2
<1>10. UNCHANGED <<provider, local>> => FALSE
  BY <1>1, <1>2, <1>4
<1>11. PICK a \in Admins : Prov!Proceed(a) \/ \E p \in Ids, op \in {"settings", "test", "update", "delete", "create"} : Prov!Request(a, op, p)
  BY <1>10 DEF Prov!ProviderNext, Prov!providerVars
<1>12. Prov!SaveSettings(a) \/ Prov!SaveUpdate(a) \/ Prov!SaveDelete(a) \/ Prov!SaveTest(a) \/ Prov!SaveCreate(a) \/ Prov!FirstSecret(a) \/ Prov!Undo(a)
  BY ZenonT(60), <1>10, <1>11 DEF Prov!Proceed, Prov!Request, Prov!Enter, Prov!Leave, Prov!ReadSettings, Prov!ReadTest, Prov!Probe, Prov!Update, Prov!StoreSecret, Prov!ReadDelete, Prov!DropSecret
<1> QED BY <1>5, <1>6, <1>7, <1>8, <1>9, <1>12


-----------------------------------------------------------------------------
(* Sign-in through a provider.                                             *)

States == A
Codes == B
Callbacks == C
person == s1
named == s2
links == s3
idp == s4
waiting == s5
unsent == s6
callback == s7
shelf == s8
unused == s9
spentOn == s10
collected == s11
unlinked == s12
USE DEF States, Codes, Callbacks, person, named, links, idp, waiting, unsent, callback, shelf, unused, spentOn,
        collected, unlinked

LEMMA SsoBegin == Sso!SsoInit => Sso!SsoInv
<1> SUFFICES ASSUME Sso!SsoInit PROVE Sso!SsoInv
  OBVIOUS
<1>1. \A c \in Callbacks : callback[c] = Sso!Free /\ callback[c].pc = "free"
  BY DEF Sso!SsoInit, Sso!Free
<1>2. \A u \in People : person[u] = IF u \in Native THEN "on" ELSE "new"
  BY DEF Sso!SsoInit
<1>3. Sso!SsoTypeOK
  BY <1>2 DEF Sso!SsoInit, Sso!SsoTypeOK
<1>4. Sso!NoStrayUser
  BY <1>2 DEF Sso!NoStrayUser, Sso!Known
<1>5. Sso!SignInOnce /\ Sso!OneCode
  BY DEF Sso!SsoInit, Sso!SignInOnce, Sso!OneCode
<1>6. Sso!OneVisit
  BY <1>1 DEF Sso!SsoInit, Sso!OneVisit, Sso!Past
<1> QED BY <1>3, <1>4, <1>5, <1>6 DEF Sso!SsoInv

\* What concerns users, links and the provider.
Directory ==
    /\ person \in [People -> {"new", "on", "off", "gone"}] /\ links \subseteq Subjects \X Sso!Known
    /\ DOMAIN named = People /\ (idp = "gone" => links = {}) /\ idp \in {"on", "off", "gone"}
    /\ unlinked \subseteq People /\ Sso!NoStrayUser

\* What concerns states, codes and callbacks.
Visiting ==
    /\ waiting \subseteq States /\ unsent \subseteq States /\ unused \subseteq Codes
    /\ callback \in [Callbacks -> Sso!Visit \cup {Sso!Free}] /\ shelf \in [Codes -> People \cup {Sso!Nobody1}]
    /\ spentOn \in [States -> Nat] /\ collected \in [Codes -> Nat]
    /\ Sso!SignInOnce /\ Sso!OneVisit /\ Sso!OneCode

LEMMA InTwo == Sso!SsoInv <=> Directory /\ Visiting
  BY DEF Sso!SsoInv, Sso!SsoTypeOK, Directory, Visiting

LEMMA FromTwo == ASSUME Directory', Visiting' PROVE Sso!SsoInv'
  BY DEF Sso!SsoInv, Sso!SsoTypeOK, Directory, Visiting

LEMMA DirectoryStays == ASSUME Directory, UNCHANGED Sso!directory PROVE Directory'
  BY DEF Directory, Sso!directory, Sso!NoStrayUser, Sso!Known

LEMMA VisitingStays == ASSUME Visiting, UNCHANGED <<Sso!memory, callback, Sso!counts>> PROVE Visiting'
  BY DEF Visiting, Sso!memory, Sso!counts, Sso!SignInOnce, Sso!OneVisit, Sso!OneCode, Sso!Past

\* A callback moves on past the taking of its state, or ends.
LEMMA VisitMoves ==
    ASSUME Visiting, UNCHANGED <<Sso!memory, Sso!counts>>, NEW c \in Callbacks, NEW r \in Sso!Visit \cup {Sso!Free},
           callback' = [callback EXCEPT ![c] = r], r = Sso!Free \/ (Sso!Past(c) /\ r.state = callback[c].state),
           r.pc \in {"link", "session"} => r.user \in People
    PROVE  Visiting'
<1>1. UNCHANGED <<waiting, unsent, shelf, unused, spentOn, collected>>
  BY DEF Sso!memory, Sso!counts
<1>2. Sso!Free.pc = "free" /\ callback'[c] = r /\ \A d \in Callbacks : d # c => callback'[d] = callback[d]
  BY DEF Sso!Free, Visiting
<1>3. callback' \in [Callbacks -> Sso!Visit \cup {Sso!Free}]
  BY DEF Visiting
<1>4. \A d \in Callbacks : /\ callback'[d].pc # "free" => callback[d].pc # "free" /\ callback'[d].state = callback[d].state
                           /\ Sso!Past(d)' => Sso!Past(d)
  BY <1>2 DEF Sso!Past
<1>5. \A d \in Callbacks : Sso!Past(d)' => Sso!Past(d) /\ callback'[d].state = callback[d].state
  BY <1>4 DEF Sso!Past
<1>6. Sso!OneVisit'
  BY <1>1, <1>4, <1>5 DEF Visiting, Sso!OneVisit
<1>7. Sso!SignInOnce' /\ Sso!OneCode'
  BY <1>1 DEF Visiting, Sso!SignInOnce, Sso!OneCode
<1> QED BY <1>1, <1>3, <1>6, <1>7 DEF Visiting

\* A new link to somebody there.
LEMMA LinkedTo ==
    ASSUME Directory, NEW s \in Subjects, NEW u \in Sso!Known, idp # "gone",
           links' = links \cup {<<s, u>>}, UNCHANGED <<person, named, idp, unlinked>>
    PROVE  Directory'
  BY DEF Directory, Sso!Known, Sso!NoStrayUser

LEMMA StartKeeps == ASSUME Visiting, Sso!Start PROVE Visiting'
<1>1. PICK s \in unsent : waiting' = waiting \cup {s} /\ unsent' = unsent \ {s}
  BY DEF Sso!Start
<1>2. UNCHANGED <<callback, shelf, unused, spentOn, collected>> /\ s \in States
  BY DEF Sso!Start, Sso!counts, Visiting
<1>3. Sso!OneVisit'
  BY <1>1, <1>2 DEF Visiting, Sso!OneVisit, Sso!Past
<1>4. Sso!SignInOnce' /\ Sso!OneCode'
  BY <1>2 DEF Visiting, Sso!SignInOnce, Sso!OneCode
<1> QED BY <1>1, <1>2, <1>3, <1>4 DEF Visiting

LEMMA ArriveKeeps == ASSUME Visiting, NEW c \in Callbacks, Sso!Arrive(c) PROVE Visiting'
<1>1. PICK s \in States \ unsent, x \in Subjects :
         callback' = [callback EXCEPT ![c] = [pc |-> "take", state |-> s, subject |-> x, user |-> Sso!Nobody1]]
  BY DEF Sso!Arrive
<1> DEFINE r == [pc |-> "take", state |-> s, subject |-> x, user |-> Sso!Nobody1]
<1>2. r \in Sso!Visit /\ r.pc = "take" /\ r.state = s
  BY DEF Sso!Visit
<1>3. UNCHANGED <<waiting, unsent, shelf, unused, spentOn, collected>>
  BY DEF Sso!Arrive, Sso!memory, Sso!counts
<1> HIDE DEF r
<1>4. callback' \in [Callbacks -> Sso!Visit \cup {Sso!Free}] /\ callback'[c] = r /\ \A d \in Callbacks : d # c => callback'[d] = callback[d]
  BY <1>1, <1>2 DEF Visiting, r
<1>5. \A d \in Callbacks : Sso!Past(d)' => Sso!Past(d) /\ callback'[d] = callback[d]
  BY <1>2, <1>4 DEF Sso!Past
<1>6. Sso!OneVisit'
  BY <1>2, <1>3, <1>4, <1>5 DEF Visiting, Sso!OneVisit
<1>7. Sso!SignInOnce' /\ Sso!OneCode'
  BY <1>3 DEF Visiting, Sso!SignInOnce, Sso!OneCode
<1> QED BY <1>3, <1>4, <1>6, <1>7 DEF Visiting

LEMMA TakeKeeps == ASSUME Visiting, NEW c \in Callbacks, Sso!Take(c) PROVE Visiting'
<1> DEFINE good == callback[c].state \in waiting
           r == IF good THEN [callback[c] EXCEPT !.pc = "ask"] ELSE Sso!Free
<1>s. PICK s \in States : s = callback[c].state
  BY DEF Sso!Take, Sso!At, Visiting, Sso!Visit, Sso!Free
<1>1. callback[c] \in Sso!Visit /\ callback[c].pc = "take" /\ callback[c].state = s
  BY <1>s DEF Sso!Take, Sso!At, Visiting, Sso!Free
<1>2. /\ callback' = [callback EXCEPT ![c] = r] /\ waiting' = waiting \ {s}
      /\ UNCHANGED <<unsent, shelf, unused, spentOn, collected>>
  BY <1>1 DEF Sso!Take, Sso!Goes, Sso!Fails, Sso!counts
<1>3. /\ r \in Sso!Visit \cup {Sso!Free} /\ (r.pc # "free" => r.pc = "ask" /\ r.state = s /\ good)
  BY <1>1 DEF Sso!Visit, Sso!Free
<1>g. good => s \in waiting /\ s \notin unsent /\ spentOn[s] = 0 /\ \A d \in Callbacks : Sso!Past(d) => callback[d].state # s
  BY <1>1 DEF Visiting, Sso!OneVisit
<1> HIDE DEF r, good
<1>4. callback' \in [Callbacks -> Sso!Visit \cup {Sso!Free}] /\ callback'[c] = r /\ \A d \in Callbacks : d # c => callback'[d] = callback[d]
  BY <1>2, <1>3 DEF Visiting
<1>5. \A d \in Callbacks : d # c => (Sso!Past(d)' <=> Sso!Past(d))
  BY <1>4 DEF Sso!Past
<1>6. Sso!Past(c)' => good /\ callback'[c].state = s
  BY <1>3, <1>4 DEF Sso!Past
<1>7. \A d \in Callbacks : callback'[d].pc # "free" => callback'[d].state \notin unsent
  BY <1>3, <1>4, <1>g DEF Visiting, Sso!OneVisit
<1>8. \A d \in Callbacks : Sso!Past(d)' => callback'[d].state \notin waiting' /\ spentOn[callback'[d].state] = 0
  <2> SUFFICES ASSUME NEW d \in Callbacks, Sso!Past(d)' PROVE callback'[d].state \notin waiting' /\ spentOn[callback'[d].state] = 0
    OBVIOUS
  <2>1. CASE d = c
    BY <1>2, <1>6, <1>g, <2>1
  <2>2. CASE d # c
    BY <1>2, <1>4, <1>5, <2>2 DEF Visiting, Sso!OneVisit
  <2> QED BY <2>1, <2>2
<1>9. \A d, e \in Callbacks : Sso!Past(d)' /\ Sso!Past(e)' /\ callback'[d].state = callback'[e].state => d = e
  BY <1>4, <1>5, <1>6, <1>g DEF Visiting, Sso!OneVisit
<1>u. \A d \in Callbacks : callback'[d].pc \in {"link", "session"} => callback'[d].user \in People
  BY <1>3, <1>4 DEF Visiting, Sso!OneVisit
<1>10. Sso!OneVisit'
  BY <1>2, <1>7, <1>8, <1>9, <1>u DEF Visiting, Sso!OneVisit
<1>11. Sso!SignInOnce' /\ Sso!OneCode'
  BY <1>2 DEF Visiting, Sso!SignInOnce, Sso!OneCode
<1> QED BY <1>2, <1>4, <1>10, <1>11 DEF Visiting

\* The callback asks, finds, claims, links or inserts.
LEMMA WorkKeeps ==
    ASSUME Sso!SsoInv, NEW c \in Callbacks, Sso!AskProvider(c) \/ Sso!Find(c) \/ Sso!Claim(c) \/ Sso!Link(c) \/ Sso!Insert1(c)
    PROVE  Sso!SsoInv'
<1>0. Directory /\ Visiting /\ callback \in [Callbacks -> Sso!Visit \cup {Sso!Free}]
  BY InTwo DEF Visiting
<1>1. callback[c] \in Sso!Visit /\ Sso!Past(c) /\ UNCHANGED <<Sso!memory, Sso!counts>>
  BY <1>0 DEF Sso!AskProvider, Sso!Find, Sso!Claim, Sso!Link, Sso!Insert1, Sso!At, Sso!Free, Sso!Past
<1>2. \A u \in People, pc \in {"ask", "find", "claim", "insert", "link", "session"} :
         /\ [callback[c] EXCEPT !.pc = pc] \in Sso!Visit /\ [callback[c] EXCEPT !.pc = pc].state = callback[c].state
         /\ [callback[c] EXCEPT !.pc = pc, !.user = u] \in Sso!Visit
         /\ [callback[c] EXCEPT !.pc = pc, !.user = u].state = callback[c].state
         /\ [callback[c] EXCEPT !.pc = pc].pc = pc /\ [callback[c] EXCEPT !.pc = pc].user = callback[c].user
         /\ [callback[c] EXCEPT !.pc = pc, !.user = u].user = u
  BY ZenonT(60), <1>1 DEF Sso!Visit
<1>3. ASSUME Sso!Fails(c) PROVE Visiting'
  BY <1>0, <1>1, <1>3, VisitMoves DEF Sso!Fails, Sso!Free
<1>4. ASSUME NEW pc \in {"ask", "find", "claim", "insert", "link", "session"}, Sso!Goes(c, pc),
             pc \in {"link", "session"} => callback[c].user \in People
      PROVE  Visiting'
  <2> DEFINE r == [callback[c] EXCEPT !.pc = pc]
  <2>1. callback' = [callback EXCEPT ![c] = r] /\ r \in Sso!Visit /\ r.state = callback[c].state /\ (r.pc \in {"link", "session"} => r.user \in People)
    <3>1. /\ [callback[c] EXCEPT !.pc = pc] \in Sso!Visit /\ [callback[c] EXCEPT !.pc = pc].state = callback[c].state
          /\ [callback[c] EXCEPT !.pc = pc].pc = pc /\ [callback[c] EXCEPT !.pc = pc].user = callback[c].user
      BY <1>1 DEF Sso!Visit
    <3> QED BY <1>4, <3>1 DEF Sso!Goes
  <2> HIDE DEF r
  <2> QED BY <1>0, <1>1, <2>1, VisitMoves
<1>5. ASSUME NEW pc \in {"ask", "find", "claim", "insert", "link", "session"}, NEW u \in People,
             callback' = [callback EXCEPT ![c].pc = pc, ![c].user = u] PROVE Visiting'
  <2> DEFINE r == [callback[c] EXCEPT !.pc = pc, !.user = u]
  <2>1. callback' = [callback EXCEPT ![c] = r] /\ r \in Sso!Visit /\ r.state = callback[c].state /\ r.user \in People
    BY ZenonT(60), <1>2, <1>5
  <2> HIDE DEF r
  <2> QED BY <1>0, <1>1, <2>1, VisitMoves
<1>6. CASE Sso!AskProvider(c)
  BY <1>0, <1>3, <1>4, <1>6, DirectoryStays, FromTwo DEF Sso!AskProvider
<1>7. CASE Sso!Find(c)
  <2>1. {l[2] : l \in {l \in links : l[1] = callback[c].subject}} \subseteq People
    BY <1>0 DEF Directory, Sso!Known
  <2>2. Visiting'
    BY <1>3, <1>4, <1>5, <1>7, <2>1 DEF Sso!Find
  <2> QED BY <1>0, <1>7, <2>2, DirectoryStays, FromTwo DEF Sso!Find
<1>8. CASE Sso!Claim(c)
  <2>1. Visiting'
    BY <1>3, <1>4, <1>5, <1>8 DEF Sso!Claim, Sso!Known
  <2> QED BY <1>0, <1>8, <2>1, DirectoryStays, FromTwo DEF Sso!Claim
<1>9. CASE Sso!Link(c)
  <2>1. UNCHANGED <<person, named, idp, unlinked>> /\ callback[c].subject \in Subjects
    BY <1>1, <1>9 DEF Sso!Link, Sso!Visit
  <2>2. CASE Sso!Linkable(callback[c].subject, callback[c].user)
    <3>1. links' = links \cup {<<callback[c].subject, callback[c].user>>} /\ Sso!Goes(c, "session") /\ idp # "gone"
      BY <1>9, <2>2 DEF Sso!Link, Sso!Linkable
    <3>2. callback[c].user \in Sso!Known
      <4>1. callback[c].user \in People
        BY <1>0, <1>9 DEF Sso!Link, Sso!At, Visiting, Sso!OneVisit
      <4> QED BY <2>2, <4>1 DEF Sso!Known, Sso!Linkable
    <3>3. Directory'
      BY <1>0, <2>1, <3>1, <3>2, LinkedTo
    <3>4. Visiting'
      BY <1>0, <1>4, <1>9, <3>1, <3>2 DEF Sso!Known
    <3> QED BY <3>3, <3>4, FromTwo
  <2>3. CASE ~Sso!Linkable(callback[c].subject, callback[c].user)
    <3>1. Sso!Fails(c) /\ UNCHANGED Sso!directory
      BY <1>9, <2>1, <2>3 DEF Sso!Link, Sso!directory
    <3> QED BY <1>0, <1>3, <3>1, DirectoryStays, FromTwo
  <2> QED BY <2>2, <2>3
<1>10. CASE Sso!Insert1(c)
  <2> DEFINE s == callback[c].subject
             name == NameOf[s]
  <2>1. CASE (\A u \in Sso!Known : named[u] # name) /\ idp # "gone" /\ \A l \in links : l[1] # s
    <3>1. PICK u \in {u \in People : person[u] = "new"} :
              /\ person' = [person EXCEPT ![u] = "on"] /\ named' = [named EXCEPT ![u] = name]
              /\ links' = links \cup {<<s, u>>}
              /\ callback' = [callback EXCEPT ![c].pc = "session", ![c].user = u]
      BY <1>10, <2>1 DEF Sso!Insert1
    <3>2. UNCHANGED <<idp, unlinked>> /\ s \in Subjects
      BY <1>1, <1>10 DEF Sso!Insert1, Sso!Visit
    <3> HIDE DEF s, name
    <3>3. Sso!Known' = Sso!Known \cup {u} /\ u \notin Sso!Known
      BY <1>0, <3>1 DEF Sso!Known, Directory
    <3>4. DOMAIN named' = People /\ named'[u] = name /\ \A v \in People : v # u => named'[v] = named[v]
      BY <1>0, <3>1 DEF Directory
    <3>5. Sso!NoStrayUser'
      <4> SUFFICES ASSUME NEW v \in Sso!Known' \ Native
                   PROVE  v \in unlinked' \/ \E t \in Subjects : <<t, v>> \in links' /\ named'[v] = NameOf[t]
        BY DEF Sso!NoStrayUser
      <4>1. CASE v = u
        BY <3>1, <3>2, <3>4, <4>1 DEF name
      <4>2. CASE v # u
        <5>1. v \in Sso!Known \ Native /\ v \in People /\ named'[v] = named[v]
          BY <3>3, <3>4, <4>2 DEF Sso!Known
        <5> QED BY <1>0, <3>1, <3>2, <5>1 DEF Directory, Sso!NoStrayUser
      <4> QED BY <4>1, <4>2
    <3>6. Directory'
      BY <1>0, <2>1, <3>1, <3>2, <3>3, <3>4, <3>5 DEF Directory
    <3>7. Visiting'
      BY <1>5, <3>1
    <3> QED BY <3>6, <3>7, FromTwo
  <2>2. CASE ~((\A u \in Sso!Known : named[u] # name) /\ idp # "gone" /\ \A l \in links : l[1] # s)
    <3>1. Sso!Fails(c) /\ UNCHANGED Sso!directory
      BY <1>10, <2>2 DEF Sso!Insert1, Sso!directory
    <3> QED BY <1>0, <1>3, <3>1, DirectoryStays, FromTwo
  <2> QED BY <2>1, <2>2
<1> QED BY <1>6, <1>7, <1>8, <1>9, <1>10

LEMMA OpenSessionKeeps == ASSUME Visiting, NEW c \in Callbacks, Sso!OpenSession(c) PROVE Visiting'
<1>1. Sso!At(c, "session") /\ callback' = [callback EXCEPT ![c] = Sso!Free] /\ UNCHANGED <<waiting, unsent, collected>>
  BY DEF Sso!OpenSession, Sso!Fails
<1>s. PICK s \in States : s = callback[c].state
  BY <1>1 DEF Sso!At, Visiting, Sso!Visit, Sso!Free
<1>2. callback[c].state = s /\ Sso!Past(c) /\ callback[c].user \in People
  BY <1>s, <1>1 DEF Sso!At, Sso!Past, Visiting, Sso!OneVisit
<1>3. /\ callback' \in [Callbacks -> Sso!Visit \cup {Sso!Free}] /\ callback'[c].pc = "free"
      /\ \A d \in Callbacks : d # c => callback'[d] = callback[d]
  BY <1>1 DEF Visiting, Sso!Free
<1>4. \A d \in Callbacks : Sso!Past(d)' => d # c /\ Sso!Past(d) /\ callback'[d] = callback[d]
  BY <1>3 DEF Sso!Past
<1>5. s \notin waiting /\ s \notin unsent /\ spentOn[s] = 0 /\ \A d \in Callbacks : Sso!Past(d)' => callback'[d].state # s
  <2>1. s \notin waiting /\ spentOn[s] = 0 /\ \A d \in Callbacks : d # c /\ Sso!Past(d) => callback[d].state # s
    BY <1>2 DEF Visiting, Sso!OneVisit
  <2>2. s \notin unsent
    BY <1>1, <1>2 DEF Visiting, Sso!OneVisit, Sso!At
  <2> QED BY <2>1, <2>2, <1>4
<1>6. /\ spentOn' \in [States -> Nat] /\ \A t \in States : t # s => spentOn'[t] = spentOn[t]
      /\ \A t \in States : spentOn'[t] <= 1
  BY <1>2, <1>5 DEF Sso!OpenSession, Visiting, Sso!SignInOnce
<1>7. Sso!OneVisit'
  <2>1. \A d \in Callbacks : Sso!Past(d)' => callback'[d].state \in States
    BY <1>4 DEF Visiting, Sso!Visit, Sso!Past, Sso!Free
  <2>2. \A d \in Callbacks : callback'[d].pc # "free" => callback'[d].state \notin unsent'
    BY <1>1, <1>3 DEF Visiting, Sso!OneVisit
  <2>3. \A d \in Callbacks : Sso!Past(d)' => callback'[d].state \notin waiting' /\ spentOn'[callback'[d].state] = 0
    BY <1>1, <1>4, <1>5, <1>6, <2>1 DEF Visiting, Sso!OneVisit
  <2>4. \A d, e \in Callbacks : Sso!Past(d)' /\ Sso!Past(e)' /\ callback'[d].state = callback'[e].state => d = e
    BY <1>4 DEF Visiting, Sso!OneVisit
  <2>5. \A t \in unsent' \cup waiting' : spentOn'[t] = 0
    BY <1>1, <1>5, <1>6 DEF Visiting, Sso!OneVisit
  <2>6. \A d \in Callbacks : callback'[d].pc \in {"link", "session"} => callback'[d].user \in People
    BY <1>3 DEF Visiting, Sso!OneVisit
  <2> QED BY <2>2, <2>3, <2>4, <2>5, <2>6 DEF Sso!OneVisit
<1>8. Sso!OneCode' /\ unused' \subseteq Codes /\ shelf' \in [Codes -> People \cup {Sso!Nobody1}]
  <2>1. CASE callback[c].user \in Sso!Known
    <3>1. PICK x \in unused : shelf' = [shelf EXCEPT ![x] = callback[c].user] /\ unused' = unused \ {x}
      BY <2>1 DEF Sso!OpenSession
    <3> QED BY <1>1, <1>2, <3>1 DEF Visiting, Sso!OneCode
  <2>2. CASE callback[c].user \notin Sso!Known
    BY <1>1, <2>2 DEF Sso!OpenSession, Visiting, Sso!OneCode
  <2> QED BY <2>1, <2>2
<1>9. Sso!SignInOnce'
  BY <1>1, <1>6 DEF Visiting, Sso!SignInOnce
<1>10. waiting' \subseteq States /\ unsent' \subseteq States /\ collected' \in [Codes -> Nat]
  BY <1>1 DEF Visiting
<1> QED BY <1>3, <1>6, <1>7, <1>8, <1>9, <1>10 DEF Visiting

LEMMA ExchangeKeeps == ASSUME Visiting, NEW x \in Codes, Sso!Exchange(x) PROVE Visiting'
<1>1. UNCHANGED <<waiting, unsent, unused, callback, spentOn>>
  BY DEF Sso!Exchange
<1>2. /\ shelf[x] # Sso!Nobody1 /\ shelf' = [shelf EXCEPT ![x] = Sso!Nobody1]
      /\ collected' = [collected EXCEPT ![x] = collected[x] + 1] /\ collected[x] = 0
  BY DEF Sso!Exchange, Visiting, Sso!OneCode
<1>3. /\ shelf' \in [Codes -> People \cup {Sso!Nobody1}] /\ collected' \in [Codes -> Nat]
      /\ shelf'[x] = Sso!Nobody1 /\ collected'[x] = 1
      /\ \A y \in Codes : y # x => shelf'[y] = shelf[y] /\ collected'[y] = collected[y]
  BY <1>2 DEF Visiting
<1>4. Sso!OneCode' /\ Sso!SignInOnce'
  BY <1>1, <1>2, <1>3 DEF Visiting, Sso!OneCode, Sso!SignInOnce
<1>5. Sso!OneVisit'
  BY <1>1 DEF Visiting, Sso!OneVisit, Sso!Past
<1> QED BY <1>1, <1>3, <1>4, <1>5 DEF Visiting

LEMMA ExpireKeeps == ASSUME Visiting, Sso!Expire PROVE Visiting'
<1>1. UNCHANGED <<unsent, unused, callback, spentOn, collected>> /\ waiting' \subseteq waiting
  BY DEF Sso!Expire, Sso!counts
<1>2. /\ shelf' \in [Codes -> People \cup {Sso!Nobody1}]
      /\ \A x \in Codes : shelf'[x] = shelf[x] \/ shelf'[x] = Sso!Nobody1
  BY DEF Sso!Expire, Visiting
<1>3. Sso!OneCode' /\ Sso!SignInOnce'
  BY <1>1, <1>2 DEF Visiting, Sso!OneCode, Sso!SignInOnce
<1>4. Sso!OneVisit'
  BY <1>1 DEF Visiting, Sso!OneVisit, Sso!Past
<1> QED BY <1>1, <1>2, <1>3, <1>4 DEF Visiting

LEMMA LinkKeeps == ASSUME Directory, Sso!LinkIdentity PROVE Directory'
<1>1. PICK s \in Subjects, u \in People : Sso!Linkable(s, u) /\ links' = links \cup {<<s, u>>}
  BY DEF Sso!LinkIdentity
<1>2. u \in Sso!Known /\ idp # "gone"
  BY <1>1 DEF Sso!Linkable, Sso!Known
<1> QED BY <1>1, <1>2, LinkedTo DEF Sso!LinkIdentity

LEMMA UnlinkKeeps == ASSUME Directory, Sso!UnlinkIdentity PROVE Directory'
<1>1. PICK l \in links : links' = links \ {l} /\ unlinked' = unlinked \cup {l[2]}
  BY DEF Sso!UnlinkIdentity
<1>2. UNCHANGED <<person, named, idp>> /\ l[2] \in Sso!Known /\ Sso!Known' = Sso!Known
  BY DEF Sso!UnlinkIdentity, Directory, Sso!Known
<1>3. Sso!NoStrayUser'
  <2> SUFFICES ASSUME NEW v \in Sso!Known \ Native
               PROVE  v \in unlinked' \/ \E t \in Subjects : <<t, v>> \in links' /\ named[v] = NameOf[t]
    BY <1>2 DEF Sso!NoStrayUser
  <2>1. CASE v \in unlinked \/ v = l[2]
    BY <1>1, <2>1
  <2>2. CASE v \notin unlinked /\ v # l[2]
    <3>1. PICK t \in Subjects : <<t, v>> \in links /\ named[v] = NameOf[t]
      BY <2>2 DEF Directory, Sso!NoStrayUser
    <3> QED BY <1>1, <2>2, <3>1
  <2> QED BY <2>1, <2>2
<1>4. unlinked' \subseteq People
  BY <1>1, <1>2 DEF Directory, Sso!Known
<1> QED BY <1>1, <1>2, <1>3, <1>4 DEF Directory

LEMMA ChangeUserKeeps == ASSUME Directory, NEW u \in People, Sso!ChangeUser(u) PROVE Directory'
<1>1. PICK to \in {"on", "off", "gone"} :
          /\ person' = [person EXCEPT ![u] = to]
          /\ links' = IF to = "gone" THEN {l \in links : l[2] # u} ELSE links
  BY DEF Sso!ChangeUser
<1>2. u \in Sso!Known /\ UNCHANGED <<named, idp, unlinked>>
  BY DEF Sso!ChangeUser
<1>3. Sso!Known' = IF to = "gone" THEN Sso!Known \ {u} ELSE Sso!Known
  BY <1>1, <1>2 DEF Sso!Known, Directory
<1>4. links' \subseteq Subjects \X Sso!Known'
  BY <1>1, <1>3 DEF Directory
<1>5. Sso!NoStrayUser'
  <2> SUFFICES ASSUME NEW v \in Sso!Known' \ Native
               PROVE  v \in unlinked \/ \E t \in Subjects : <<t, v>> \in links' /\ named[v] = NameOf[t]
    BY <1>2 DEF Sso!NoStrayUser
  <2>1. v \in Sso!Known \ Native /\ (to = "gone" => v # u)
    BY <1>3
  <2>2. CASE v \notin unlinked
    <3>1. PICK t \in Subjects : <<t, v>> \in links /\ named[v] = NameOf[t]
      BY <2>1, <2>2 DEF Directory, Sso!NoStrayUser
    <3> QED BY <1>1, <2>1, <3>1
  <2> QED BY <2>2
<1>6. person' \in [People -> {"new", "on", "off", "gone"}]
  BY <1>1 DEF Directory
<1> QED BY <1>1, <1>2, <1>4, <1>5, <1>6 DEF Directory

LEMMA ChangeProviderKeeps == ASSUME Directory, Sso!ChangeProvider PROVE Directory'
<1>1. PICK to \in {"on", "off", "gone"} :
          /\ idp' = to /\ links' = IF to = "gone" THEN {} ELSE links
          /\ unlinked' = IF to = "gone" THEN unlinked \cup {l[2] : l \in links} ELSE unlinked
  BY DEF Sso!ChangeProvider
<1>2. UNCHANGED <<person, named>> /\ idp # "gone" /\ Sso!Known' = Sso!Known
  BY DEF Sso!ChangeProvider, Sso!Known
<1>3. unlinked' \subseteq People
  BY <1>1 DEF Directory, Sso!Known
<1>4. Sso!NoStrayUser'
  <2> SUFFICES ASSUME NEW v \in Sso!Known \ Native
               PROVE  v \in unlinked' \/ \E t \in Subjects : <<t, v>> \in links' /\ named[v] = NameOf[t]
    BY <1>2 DEF Sso!NoStrayUser
  <2>1. CASE v \in unlinked
    BY <1>1, <2>1
  <2>2. CASE v \notin unlinked
    <3>1. PICK t \in Subjects : <<t, v>> \in links /\ named[v] = NameOf[t]
      BY <2>2 DEF Directory, Sso!NoStrayUser
    <3>2. v \in {l[2] : l \in links}
      BY <3>1
    <3> QED BY <1>1, <3>1, <3>2
  <2> QED BY <2>1, <2>2
<1> QED BY <1>1, <1>2, <1>3, <1>4 DEF Directory

LEMMA SsoGo == Sso!SsoInv /\ [Sso!SsoNext]_(Sso!ssoVars) => Sso!SsoInv'
<1> SUFFICES ASSUME Sso!SsoInv, [Sso!SsoNext]_(Sso!ssoVars) PROVE Sso!SsoInv'
  OBVIOUS
<1>0. Directory /\ Visiting
  BY InTwo
<1>1. CASE Sso!Start
  BY <1>0, <1>1, StartKeeps, DirectoryStays, FromTwo DEF Sso!Start
<1>2. CASE Sso!Expire
  BY <1>0, <1>2, ExpireKeeps, DirectoryStays, FromTwo DEF Sso!Expire
<1>3. ASSUME NEW c \in Callbacks, Sso!Visits(c) PROVE Sso!SsoInv'
  <2>1. CASE Sso!Arrive(c)
    BY <1>0, <2>1, ArriveKeeps, DirectoryStays, FromTwo DEF Sso!Arrive
  <2>2. CASE Sso!Take(c)
    BY <1>0, <2>2, TakeKeeps, DirectoryStays, FromTwo DEF Sso!Take
  <2>3. CASE Sso!OpenSession(c)
    <3>1. Visiting'
      BY <1>0, <2>3, OpenSessionKeeps
    <3>2. Directory'
      BY <1>0, <2>3, DirectoryStays DEF Sso!OpenSession
    <3> QED BY <3>1, <3>2, FromTwo
  <2> QED BY <1>3, <2>1, <2>2, <2>3, WorkKeeps DEF Sso!Visits
<1>4. ASSUME NEW x \in Codes, Sso!Exchange(x) PROVE Sso!SsoInv'
  BY <1>0, <1>4, ExchangeKeeps, DirectoryStays, FromTwo DEF Sso!Exchange
<1>5. CASE Sso!LinkIdentity
  BY <1>0, <1>5, LinkKeeps, VisitingStays, FromTwo DEF Sso!LinkIdentity
<1>6. CASE Sso!UnlinkIdentity
  BY <1>0, <1>6, UnlinkKeeps, VisitingStays, FromTwo DEF Sso!UnlinkIdentity
<1>7. CASE Sso!ChangeProvider
  BY <1>0, <1>7, ChangeProviderKeeps, VisitingStays, FromTwo DEF Sso!ChangeProvider
<1>8. ASSUME NEW u \in People, Sso!ChangeUser(u) PROVE Sso!SsoInv'
  BY <1>0, <1>8, ChangeUserKeeps, VisitingStays, FromTwo DEF Sso!ChangeUser
<1>9. CASE UNCHANGED Sso!ssoVars
  BY <1>0, <1>9, DirectoryStays, VisitingStays, FromTwo DEF Sso!ssoVars, Sso!directory, Sso!memory, Sso!counts
<1> QED BY <1>1, <1>2, <1>3, <1>4, <1>5, <1>6, <1>7, <1>8, <1>9 DEF Sso!SsoNext


-----------------------------------------------------------------------------
(* Accounts.                                                               *)

Users == A
SessionIds == B
Flows == C
users == s1
sessions == s2
flow == s3
conn == s4
admitted == s5
active == s6
chosen == s7
lastSet == s8
booted == s9
USE DEF Users, SessionIds, Flows, users, sessions, flow, conn, admitted, active, chosen, lastSet, booted

\* Accounts counts sets as FiniteSets does.
LEMMA AccountCounts ==
    (\A S : Acc!Cardinality(S) = Cardinality(S)) /\ \A S : Acc!IsFiniteSet(S) <=> IsFiniteSet(S)
<1>1. \A S : Acc!Cardinality(S) = Cardinality(S)
  BY DEF Acc!Cardinality, Cardinality
<1>2. \A S : Acc!IsFiniteSet(S) <=> IsFiniteSet(S)
  BY DEF Acc!IsFiniteSet, IsFiniteSet
<1> QED BY <1>1, <1>2

\* The steps of the requests, one by one.
LEMMA AccountPlan ==
    /\ DOMAIN Acc!Plan = {"login", "change", "reset", "create", "bootstrap"}
    /\ Len(Acc!Plan["login"]) = 6 /\ Len(Acc!Plan["change"]) = 6 /\ Len(Acc!Plan["reset"]) = 3
    /\ Len(Acc!Plan["create"]) = 3 /\ Len(Acc!Plan["bootstrap"]) = 4
    /\ Acc!Plan["login"][1] = "reserve" /\ Acc!Plan["login"][2] = "read" /\ Acc!Plan["login"][3] = "verify"
    /\ Acc!Plan["login"][4] = "rehash" /\ Acc!Plan["login"][5] = "stamp" /\ Acc!Plan["login"][6] = "open"
    /\ Acc!Plan["change"][1] = "read" /\ Acc!Plan["change"][2] = "reserve" /\ Acc!Plan["change"][3] = "verify"
    /\ Acc!Plan["change"][4] = "reserve" /\ Acc!Plan["change"][5] = "hash" /\ Acc!Plan["change"][6] = "write"
    /\ Acc!Plan["reset"][1] = "reserve" /\ Acc!Plan["reset"][2] = "hash" /\ Acc!Plan["reset"][3] = "write"
    /\ Acc!Plan["create"][1] = "reserve" /\ Acc!Plan["create"][2] = "hash" /\ Acc!Plan["create"][3] = "insert"
    /\ Acc!Plan["bootstrap"][1] = "begin" /\ Acc!Plan["bootstrap"][2] = "reserve"
    /\ Acc!Plan["bootstrap"][3] = "hash" /\ Acc!Plan["bootstrap"][4] = "insert"
  BY DEF Acc!Plan

LEMMA StepsAhead ==
    \A a, l \in 1..6 : /\ a + 1 <= l => a + 1 \in 1..6 /\ a + 1 > 1
                       /\ a + 2 <= l => a + 2 \in 1..6 /\ a + 2 > 1 /\ a + 1 <= l
  BY SMTT(60)

\* What comes after each step.
LEMMA StepOnwards ==
    ASSUME NEW x \in Acc!Flow, Acc!Orderly(x)
    PROVE  /\ x.kind \in DOMAIN Acc!Plan /\ x.at \in 1..Len(Acc!Plan[x.kind]) /\ Len(Acc!Plan[x.kind]) \in 1..6
           /\ Acc!Plan[x.kind][x.at] = "reserve" =>
                 /\ x.at + 1 <= Len(Acc!Plan[x.kind])
                 /\ \/ Acc!Plan[x.kind][x.at + 1] \in Acc!Computing
                    \/ x.kind = "login" /\ Acc!Plan[x.kind][x.at + 1] = "read"
           /\ Acc!Plan[x.kind][x.at] = "read" =>
                 /\ x.at + 1 <= Len(Acc!Plan[x.kind]) /\ x.kind \in {"login", "change"}
                 /\ Acc!Plan[x.kind][x.at + 1] = IF x.kind = "login" THEN "verify" ELSE "reserve"
           /\ Acc!Plan[x.kind][x.at] \in Acc!Computing =>
                 /\ x.at + 1 <= Len(Acc!Plan[x.kind])
                 /\ Acc!Plan[x.kind][x.at] = "verify" /\ x.kind = "login" =>
                       /\ Acc!Plan[x.kind][x.at + 1] = "rehash"
                       /\ x.at + 2 <= Len(Acc!Plan[x.kind]) /\ Acc!Plan[x.kind][x.at + 2] = "stamp"
                 /\ Acc!Plan[x.kind][x.at] # "verify" \/ x.kind # "login" =>
                       Acc!Plan[x.kind][x.at + 1] \in {"reserve", "stamp", "write", "insert"}
           /\ Acc!Plan[x.kind][x.at] = "stamp" =>
                 x.at + 1 <= Len(Acc!Plan[x.kind]) /\ Acc!Plan[x.kind][x.at + 1] = "open" /\ x.kind = "login"
           /\ Acc!Plan[x.kind][x.at] \in {"open", "write", "insert"} => x.at = Len(Acc!Plan[x.kind]) /\ x.at > 1
           /\ Acc!Plan[x.kind][x.at] = "begin" =>
                 x.kind = "bootstrap" /\ x.at = 1 /\ 2 <= Len(Acc!Plan[x.kind]) /\ Acc!Plan[x.kind][2] = "reserve"
           /\ Acc!Plan[x.kind][x.at] # "begin" /\ x.kind = "bootstrap" => x.at > 1
<1>1. x.kind \in DOMAIN Acc!Plan /\ x.at \in 1..6 /\ x # Acc!AtEase
  BY DEF Acc!Flow, Acc!AtEase, Acc!Plan
<1>2. x.at <= Len(Acc!Plan[x.kind])
  BY <1>1 DEF Acc!Orderly
<1>3. CASE x.kind = "login"
  BY <1>1, <1>2, <1>3, AccountPlan DEF Acc!Computing
<1>4. CASE x.kind = "change"
  BY <1>1, <1>2, <1>4, AccountPlan DEF Acc!Computing
<1>5. CASE x.kind = "reset"
  BY <1>1, <1>2, <1>5, AccountPlan DEF Acc!Computing
<1>6. CASE x.kind = "create"
  BY <1>1, <1>2, <1>6, AccountPlan DEF Acc!Computing
<1>7. CASE x.kind = "bootstrap"
  BY <1>1, <1>2, <1>7, AccountPlan DEF Acc!Computing
<1> QED BY <1>1, <1>3, <1>4, <1>5, <1>6, <1>7, AccountPlan

\* A request that is under way is not one at ease, in whatever step.
LEMMA UnderWay == \A x \in Acc!Flow : x # Acc!AtEase
<1> SUFFICES ASSUME NEW x \in Acc!Flow PROVE x # Acc!AtEase
  OBVIOUS
<1>1. x.kind \in DOMAIN Acc!Plan
  BY DEF Acc!Flow
<1>2. Acc!AtEase.kind = "none"
  BY DEF Acc!AtEase
<1> QED BY <1>1, <1>2, AccountPlan

LEMMA RealSession == \A x \in Acc!Session : x # Acc!NoSession
  BY DEF Acc!Session, Acc!NoSession

\* One element more or less.
LEMMA CountMoves ==
    ASSUME NEW S, IsFiniteSet(S), NEW T, NEW f, \A g : g # f => (g \in S <=> g \in T)
    PROVE  /\ IsFiniteSet(T) /\ Cardinality(S) \in Nat /\ Cardinality(T) \in Nat
           /\ f \in S /\ f \notin T => Cardinality(T) = Cardinality(S) - 1 /\ Cardinality(S) > 0
           /\ f \notin S /\ f \in T => Cardinality(T) = Cardinality(S) + 1
           /\ (f \in S <=> f \in T) => Cardinality(T) = Cardinality(S)
<1>1. Cardinality(S) \in Nat
  BY FS_CardinalityType
<1>2. CASE f \in S /\ f \notin T
  <2>1. T = S \ {f}
    BY <1>2
  <2>2. Cardinality(S) # 0
    BY <1>2, FS_EmptySet
  <2> QED BY <1>1, <1>2, <2>1, <2>2, FS_RemoveElement
<1>3. CASE f \notin S /\ f \in T
  <2>1. T = S \cup {f}
    BY <1>3
  <2> QED BY <1>1, <1>3, <2>1, FS_AddElement
<1>4. CASE f \in S <=> f \in T
  <2>1. T = S
    BY <1>4
  <2> QED BY <1>1, <1>4, <2>1
<1> QED BY <1>2, <1>3, <1>4

\* The gate counts a request in that enters it, and out when it leaves, and
\* likewise one that computes.
LEMMA GateCounts ==
    ASSUME Acc!AccTypeOK, Acc!GateExact, NEW f \in Flows, NEW x, flow' = [flow EXCEPT ![f] = x]
    PROVE  LET inside == Cardinality({g \in Flows : flow'[g] # Acc!AtEase /\ flow'[g].holds})
               computing == Cardinality({g \in Flows : flow'[g] # Acc!AtEase /\ flow'[g].holds /\ flow'[g].busy})
           IN /\ inside = IF Acc!InGate(flow[f]) THEN IF Acc!InGate(x) THEN admitted ELSE admitted - 1
                          ELSE IF Acc!InGate(x) THEN admitted + 1 ELSE admitted
              /\ computing = IF Acc!AtWork(flow[f]) THEN IF Acc!AtWork(x) THEN active ELSE active - 1
                             ELSE IF Acc!AtWork(x) THEN active + 1 ELSE active
              /\ inside \in Nat /\ computing \in Nat
<1> DEFINE inn == {g \in Flows : flow[g] # Acc!AtEase /\ flow[g].holds}
           inNow == {g \in Flows : flow'[g] # Acc!AtEase /\ flow'[g].holds}
           busy0 == {g \in Flows : flow[g] # Acc!AtEase /\ flow[g].holds /\ flow[g].busy}
           busyNow == {g \in Flows : flow'[g] # Acc!AtEase /\ flow'[g].holds /\ flow'[g].busy}
<1>1. DOMAIN flow = Flows /\ flow'[f] = x /\ \A g \in Flows : g # f => flow'[g] = flow[g]
  BY DEF Acc!AccTypeOK
<1>2. IsFiniteSet(inn) /\ IsFiniteSet(busy0)
  <2>1. IsFiniteSet(Flows)
    BY AccountCounts, AccountAssumed DEF Acc!AccountAssumption
  <2> QED BY <2>1, FS_Subset
<1>3. admitted = Cardinality(inn) /\ active = Cardinality(busy0)
  BY AccountCounts DEF Acc!GateExact
<1>4. \A g : g # f => (g \in inn <=> g \in inNow) /\ (g \in busy0 <=> g \in busyNow)
  BY <1>1
<1>5. (f \in inn <=> Acc!InGate(flow[f])) /\ (f \in inNow <=> Acc!InGate(x)) /\ (f \in busy0 <=> Acc!AtWork(flow[f])) /\ (f \in busyNow <=> Acc!AtWork(x))
  BY <1>1 DEF Acc!InGate, Acc!AtWork
<1> HIDE DEF inn, inNow, busy0, busyNow
<1>6. /\ Cardinality(inNow) \in Nat
      /\ f \in inn /\ f \notin inNow => Cardinality(inNow) = Cardinality(inn) - 1
      /\ f \notin inn /\ f \in inNow => Cardinality(inNow) = Cardinality(inn) + 1
      /\ (f \in inn <=> f \in inNow) => Cardinality(inNow) = Cardinality(inn)
  BY <1>2, <1>4, CountMoves
<1>7. /\ Cardinality(busyNow) \in Nat
      /\ f \in busy0 /\ f \notin busyNow => Cardinality(busyNow) = Cardinality(busy0) - 1
      /\ f \notin busy0 /\ f \in busyNow => Cardinality(busyNow) = Cardinality(busy0) + 1
      /\ (f \in busy0 <=> f \in busyNow) => Cardinality(busyNow) = Cardinality(busy0)
  BY <1>2, <1>4, CountMoves
<1>8. Cardinality(inNow) = IF Acc!InGate(flow[f]) THEN IF Acc!InGate(x) THEN admitted ELSE admitted - 1
                       ELSE IF Acc!InGate(x) THEN admitted + 1 ELSE admitted
  BY <1>3, <1>5, <1>6
<1>9. Cardinality(busyNow) = IF Acc!AtWork(flow[f]) THEN IF Acc!AtWork(x) THEN active ELSE active - 1
                       ELSE IF Acc!AtWork(x) THEN active + 1 ELSE active
  BY <1>3, <1>5, <1>7
<1> QED BY <1>6, <1>7, <1>8, <1>9 DEF inNow, busyNow

\* What of the invariant is about the requests, the gate and the connection.
FlowsRight ==
    /\ flow \in [Flows -> Acc!Flow \cup {Acc!AtEase}] /\ conn \in Flows \cup {Acc!Nobody}
    /\ admitted \in 0..(MaxActive + MaxBacklog) /\ active \in 0..MaxActive /\ Acc!GateExact
    /\ \A f \in Flows : Acc!Orderly(flow[f]) /\ (conn = f <=> Acc!InTx(flow[f]))

\* A request goes on: the gate and the connection follow it.
LEMMA FlowMoves ==
    ASSUME Acc!AccInv, NEW f \in Flows, NEW x \in Acc!Flow \cup {Acc!AtEase}, flow' = [flow EXCEPT ![f] = x], Acc!Orderly(x),
           admitted' = IF Acc!InGate(flow[f]) THEN IF Acc!InGate(x) THEN admitted ELSE admitted - 1
                       ELSE IF Acc!InGate(x) THEN admitted + 1 ELSE admitted,
           active' = IF Acc!AtWork(flow[f]) THEN IF Acc!AtWork(x) THEN active ELSE active - 1
                     ELSE IF Acc!AtWork(x) THEN active + 1 ELSE active,
           admitted' <= MaxActive + MaxBacklog, active' <= MaxActive,
           conn' = IF Acc!InTx(x) THEN f ELSE IF conn = f THEN Acc!Nobody ELSE conn,
           Acc!InTx(x) => conn \in {f, Acc!Nobody}
    PROVE  FlowsRight'
<1>1. MaxActive \in Nat /\ MaxBacklog \in Nat /\ Acc!Nobody \notin Flows
  BY AccountCounts, AccountAssumed DEF Acc!AccountAssumption, Acc!Nobody
<1>2. Acc!AccTypeOK /\ Acc!GateExact /\ \A g \in Flows : Acc!Orderly(flow[g]) /\ (conn = g <=> Acc!InTx(flow[g]))
  BY DEF Acc!AccInv
<1>3. flow' \in [Flows -> Acc!Flow \cup {Acc!AtEase}] /\ flow'[f] = x /\ \A g \in Flows : g # f => flow'[g] = flow[g]
  BY <1>2 DEF Acc!AccTypeOK
<1>4. Acc!GateExact'
  BY AccountCounts, <1>2, GateCounts DEF Acc!GateExact
<1>5. admitted' \in Nat /\ active' \in Nat
  BY <1>2, GateCounts
<1>6. conn' \in Flows \cup {Acc!Nobody}
  BY <1>2 DEF Acc!AccTypeOK
<1>7. \A g \in Flows : Acc!Orderly(flow'[g])
  BY <1>2, <1>3
<1>8. \A g \in Flows : conn' = g <=> Acc!InTx(flow'[g])
  BY <1>1, <1>2, <1>3
<1> QED BY <1>1, <1>3, <1>4, <1>5, <1>6, <1>7, <1>8 DEF FlowsRight, Acc!Orderly, Acc!InTx

\* What of it is about the tables.
TablesRight ==
    /\ users \in [Users -> Acc!UserRow] /\ sessions \in [SessionIds -> Acc!Session \cup {Acc!NoSession}]
    /\ chosen \in Acc!Passwords /\ lastSet \in [Users -> Acc!Passwords] /\ booted \in BOOLEAN
    /\ Acc!SomeoneEnabled /\ Acc!PasswordForward /\ Acc!SessionsCurrent /\ (conn # Acc!Nobody => Acc!Present = {})

LEMMA TwoHalves == Acc!AccInv <=> FlowsRight /\ TablesRight
<1>1. FlowsRight => (Acc!BootstrapAlone <=> (conn # Acc!Nobody => Acc!Present = {}))
  <2> SUFFICES ASSUME FlowsRight PROVE Acc!BootstrapAlone <=> (conn # Acc!Nobody => Acc!Present = {})
    OBVIOUS
  <2>1. Acc!Nobody \notin Flows /\ conn \in Flows \cup {Acc!Nobody}
    BY AccountCounts, AccountAssumed DEF Acc!AccountAssumption, Acc!Nobody, FlowsRight
  <2>2. \A f \in Flows : conn = f <=> Acc!InTx(flow[f])
    BY DEF FlowsRight
  <2>3. \A f \in Flows : Acc!InTx(flow[f]) <=> (flow[f] # Acc!AtEase /\ flow[f].kind = "bootstrap" /\ flow[f].at > 1)
    BY DEF Acc!InTx
  <2>4. Acc!BootstrapAlone <=> \A f \in Flows : Acc!InTx(flow[f]) => Acc!Present = {}
    BY <2>3 DEF Acc!BootstrapAlone
  <2> QED BY <2>1, <2>2, <2>4
<1>2. Acc!AccInv => FlowsRight
  BY DEF Acc!AccInv, FlowsRight, Acc!AccTypeOK
<1>3. FlowsRight /\ TablesRight => Acc!AccInv
  BY <1>1 DEF Acc!AccInv, FlowsRight, TablesRight, Acc!AccTypeOK
<1>4. Acc!AccInv => TablesRight
  BY <1>1, <1>2 DEF Acc!AccInv, TablesRight, Acc!AccTypeOK
<1> QED BY <1>2, <1>3, <1>4

LEMMA HalvesAfter == Acc!AccInv' <=> FlowsRight' /\ TablesRight'
  BY TwoHalves, PTL

\* A step that leaves the tables alone.
LEMMA TablesStay ==
    ASSUME TablesRight, UNCHANGED <<users, sessions, lastSet, booted>>, chosen' \in Acc!Passwords, conn' # Acc!Nobody => Acc!Present = {}
    PROVE  TablesRight'
<1>1. Acc!Present' = Acc!Present /\ Acc!Enabled' = Acc!Enabled
  BY DEF Acc!Present, Acc!Enabled
<1> QED BY <1>1 DEF TablesRight, Acc!SomeoneEnabled, Acc!PasswordForward, Acc!SessionsCurrent

LEMMA AtEaseIsOut == ~Acc!InGate(Acc!AtEase) /\ ~Acc!AtWork(Acc!AtEase) /\ ~Acc!InTx(Acc!AtEase) /\ Acc!Orderly(Acc!AtEase)
  BY DEF Acc!InGate, Acc!AtWork, Acc!InTx, Acc!Orderly

\* What a request is, and at which step.
LEMMA FlowAtStep ==
    ASSUME Acc!AccInv, NEW f \in Flows, flow[f] # Acc!AtEase
    PROVE  /\ flow[f] \in Acc!Flow /\ Acc!Orderly(flow[f]) /\ (conn = f <=> Acc!InTx(flow[f]))
           /\ \A step : Acc!At(f, step) <=> Acc!Plan[flow[f].kind][flow[f].at] = step
           /\ Acc!Hashes(f) <=> Acc!Plan[flow[f].kind][flow[f].at] \in Acc!Computing
           /\ flow[f].busy => flow[f].holds /\ Acc!Hashes(f)
           /\ flow[f].holds <=> Acc!Hashes(f) \/ (flow[f].kind = "login" /\ Acc!At(f, "read"))
           /\ Acc!InGate(flow[f]) = flow[f].holds /\ Acc!AtWork(flow[f]) = flow[f].busy
<1>1. flow[f] \in Acc!Flow /\ Acc!Orderly(flow[f]) /\ (conn = f <=> Acc!InTx(flow[f]))
  BY DEF Acc!AccInv, Acc!AccTypeOK
<1>2. \A step : Acc!At(f, step) <=> Acc!Plan[flow[f].kind][flow[f].at] = step
  BY DEF Acc!At
<1>3. Acc!Hashes(f) <=> Acc!Plan[flow[f].kind][flow[f].at] \in Acc!Computing
  BY <1>2 DEF Acc!Hashes, Acc!Computing
<1>4. /\ flow[f].busy => flow[f].holds /\ Acc!Hashes(f)
      /\ flow[f].holds <=> Acc!Hashes(f) \/ (flow[f].kind = "login" /\ Acc!At(f, "read"))
  BY <1>1, <1>2, <1>3 DEF Acc!Orderly
<1>5. flow[f].holds \in BOOLEAN /\ flow[f].busy \in BOOLEAN
  BY <1>1 DEF Acc!Flow
<1> QED BY <1>1, <1>2, <1>3, <1>4, <1>5 DEF Acc!InGate, Acc!AtWork

\* A request that ends takes its reservation and its transaction with it.
LEMMA EndsRight ==
    ASSUME Acc!AccInv, NEW f \in Flows, flow[f] # Acc!AtEase, Acc!Ends(f), UNCHANGED <<users, sessions, Acc!ghosts>>,
           active' = IF flow[f].busy THEN active - 1 ELSE active
    PROVE  Acc!AccInv'
<1>1. FlowsRight /\ TablesRight
  BY TwoHalves
<1>2. Acc!InGate(flow[f]) = flow[f].holds /\ Acc!AtWork(flow[f]) = flow[f].busy
  BY FlowAtStep
<1>3. admitted \in 0..(MaxActive + MaxBacklog) /\ active \in 0..MaxActive
  BY <1>1 DEF FlowsRight
<1>4. MaxActive \in Nat /\ MaxBacklog \in Nat
  BY AccountCounts, AccountAssumed DEF Acc!AccountAssumption
<1>5. flow' = [flow EXCEPT ![f] = Acc!AtEase] /\ conn' = (IF conn = f THEN Acc!Nobody ELSE conn)
      /\ admitted' = (IF flow[f].holds THEN admitted - 1 ELSE admitted)
  BY DEF Acc!Ends
<1>6. admitted' <= MaxActive + MaxBacklog /\ active' <= MaxActive
  BY <1>3, <1>4, <1>5
<1>7. FlowsRight'
  BY <1>2, <1>5, <1>6, AtEaseIsOut, FlowMoves
<1>8. TablesRight'
  BY <1>1, <1>5, TablesStay DEF Acc!ghosts, TablesRight
<1> QED BY <1>7, <1>8, HalvesAfter

LEMMA GivesUpRight ==
    ASSUME Acc!AccInv, NEW f \in Flows, flow[f] # Acc!AtEase, ~flow[f].busy, Acc!GivesUp(f)
    PROVE  Acc!AccInv'
  BY EndsRight DEF Acc!GivesUp

\* A request that goes on to x and leaves the tables alone.
LEMMA GoesOn ==
    ASSUME Acc!AccInv, NEW f \in Flows, NEW x \in Acc!Flow, flow' = [flow EXCEPT ![f] = x], Acc!Orderly(x),
           admitted' = IF Acc!InGate(flow[f]) THEN IF x.holds THEN admitted ELSE admitted - 1
                       ELSE IF x.holds THEN admitted + 1 ELSE admitted,
           active' = IF Acc!AtWork(flow[f]) THEN IF x.busy THEN active ELSE active - 1
                     ELSE IF x.busy THEN active + 1 ELSE active,
           admitted' <= MaxActive + MaxBacklog, active' <= MaxActive,
           Acc!InTx(x) <=> Acc!InTx(flow[f]), UNCHANGED <<users, sessions, conn, lastSet, booted>>, chosen' \in Acc!Passwords
    PROVE  Acc!AccInv'
<1>1. FlowsRight /\ TablesRight
  BY TwoHalves
<1>2. x # Acc!AtEase /\ x.holds \in BOOLEAN /\ x.busy \in BOOLEAN
  BY UnderWay DEF Acc!Flow
<1>3. x.busy => x.holds
  BY <1>2 DEF Acc!Orderly
<1>4. Acc!InGate(x) = x.holds /\ Acc!AtWork(x) = x.busy
  BY <1>2, <1>3 DEF Acc!InGate, Acc!AtWork
<1>5. conn = f <=> Acc!InTx(flow[f])
  BY <1>1 DEF FlowsRight
<1>6. conn' = (IF Acc!InTx(x) THEN f ELSE IF conn = f THEN Acc!Nobody ELSE conn) /\ (Acc!InTx(x) => conn \in {f, Acc!Nobody})
  BY <1>5
<1>7. FlowsRight'
  BY <1>4, <1>6, FlowMoves
<1>8. TablesRight'
  BY <1>1, TablesStay DEF TablesRight
<1> QED BY <1>7, <1>8, HalvesAfter

LEMMA BeginRight ==
    ASSUME Acc!AccInv, NEW f \in Flows, NEW k \in DOMAIN Acc!Plan, NEW u \in Users, Acc!Begin(f, k, u)
    PROVE  Acc!AccInv'
<1>1. FlowsRight /\ TablesRight /\ flow[f] = Acc!AtEase
  BY TwoHalves DEF Acc!Begin
<1>2. PwLimit \in Nat /\ chosen \in 0..PwLimit /\ users[u].pw \in Acc!Passwords
  BY AccountCounts, <1>1, AccountAssumed DEF Acc!AccountAssumption, TablesRight, Acc!Passwords, Acc!UserRow
<1>3. chosen' \in Acc!Passwords
  BY <1>2, AccountPlan DEF Acc!Begin, Acc!Passwords
<1>4. Acc!New \in Acc!UserRow
  BY <1>2 DEF Acc!New, Acc!UserRow, Acc!Passwords
<1>5. PICK keep \in SessionIds \cup {Acc!Nobody} :
         flow' = [flow EXCEPT ![f] = [kind |-> k, at |-> 1, user |-> u, typed |-> users[u].pw, new |-> chosen',
                                      row |-> Acc!New, keep |-> keep, holds |-> FALSE, busy |-> FALSE]]
  BY DEF Acc!Begin
<1> DEFINE x == [kind |-> k, at |-> 1, user |-> u, typed |-> users[u].pw, new |-> chosen',
                 row |-> Acc!New, keep |-> keep, holds |-> FALSE, busy |-> FALSE]
<1>6. x \in Acc!Flow
  BY <1>2, <1>3, <1>4 DEF Acc!Flow
<1>7. x.kind = k /\ x.at = 1 /\ ~x.holds /\ ~x.busy
  OBVIOUS
<1> HIDE DEF x
<1>8. Acc!Orderly(x)
  <2>1. Acc!Plan[k][1] \in {"reserve", "begin"} \/ (k = "change" /\ Acc!Plan[k][1] = "read")
    BY AccountPlan
  <2>2. 1 <= Len(Acc!Plan[k])
    BY AccountPlan
  <2> QED BY <1>7, <2>1, <2>2 DEF Acc!Orderly, Acc!Computing
<1>9. ~Acc!InGate(flow[f]) /\ ~Acc!AtWork(flow[f]) /\ ~Acc!InTx(flow[f]) /\ ~Acc!InTx(x)
  BY <1>1, <1>7, AtEaseIsOut DEF Acc!InTx
<1>10. admitted <= MaxActive + MaxBacklog /\ active <= MaxActive
  BY <1>1 DEF FlowsRight
<1>11. flow' = [flow EXCEPT ![f] = x]
  BY <1>5 DEF x
<1>12. UNCHANGED <<users, sessions, conn, admitted, active, lastSet, booted>>
  BY DEF Acc!Begin, Acc!gate
<1> QED BY <1>3, <1>6, <1>7, <1>8, <1>9, <1>10, <1>11, <1>12, GoesOn

LEMMA ReserveWorkRight ==
    ASSUME Acc!AccInv, NEW f \in Flows, Acc!ReserveWork(f)
    PROVE  Acc!AccInv'
<1>1. flow[f] # Acc!AtEase /\ Acc!Plan[flow[f].kind][flow[f].at] = "reserve"
  BY DEF Acc!ReserveWork, Acc!At
<1>2. flow[f] \in Acc!Flow /\ Acc!Orderly(flow[f]) /\ ~flow[f].holds /\ ~flow[f].busy /\ ~Acc!InGate(flow[f]) /\ ~Acc!AtWork(flow[f])
  BY <1>1, FlowAtStep DEF Acc!Computing
<1>3. CASE Acc!GivesUp(f)
  BY <1>1, <1>2, <1>3, GivesUpRight
<1>4. CASE ~Acc!GivesUp(f)
  <2> DEFINE x == [flow[f] EXCEPT !.at = @ + 1, !.holds = TRUE]
  <2>1. /\ flow' = [flow EXCEPT ![f] = x] /\ admitted < MaxActive + MaxBacklog /\ admitted' = admitted + 1
        /\ UNCHANGED <<users, sessions, conn, active, Acc!ghosts>>
    BY <1>4 DEF Acc!ReserveWork
  <2>2. /\ flow[f].kind \in DOMAIN Acc!Plan /\ flow[f].at \in 1..6 /\ Len(Acc!Plan[flow[f].kind]) \in 1..6
        /\ flow[f].at + 1 <= Len(Acc!Plan[flow[f].kind])
        /\ \/ Acc!Plan[flow[f].kind][flow[f].at + 1] \in Acc!Computing
           \/ flow[f].kind = "login" /\ Acc!Plan[flow[f].kind][flow[f].at + 1] = "read"
    BY SMTT(60), <1>1, <1>2, StepOnwards
  <2>3. x \in Acc!Flow /\ x.kind = flow[f].kind /\ x.at = flow[f].at + 1 /\ x.holds /\ ~x.busy
    <3>1. flow[f].at + 1 \in 1..6
      BY <2>2, StepsAhead
    <3> QED BY <1>2, <3>1 DEF Acc!Flow
  <2> HIDE DEF x
  <2>4. Acc!Orderly(x)
    BY <2>2, <2>3 DEF Acc!Orderly
  <2>5. Acc!InTx(x) <=> Acc!InTx(flow[f])
    <3>1. x # Acc!AtEase
      BY <2>3, UnderWay
    <3>2. flow[f].kind = "bootstrap" => flow[f].at > 1
      BY <1>1, <1>2, StepOnwards
    <3> QED BY <1>1, <2>2, <2>3, <3>1, <3>2 DEF Acc!InTx
  <2>6. admitted \in 0..(MaxActive + MaxBacklog) /\ active <= MaxActive /\ chosen \in Acc!Passwords
    BY DEF Acc!AccInv, Acc!AccTypeOK
  <2>7. admitted' <= MaxActive + MaxBacklog
    BY AccountCounts, <2>1, <2>6, AccountAssumed DEF Acc!AccountAssumption
  <2>8. UNCHANGED <<chosen, lastSet, booted>>
    BY <2>1 DEF Acc!ghosts
  <2> QED BY <1>2, <2>1, <2>3, <2>4, <2>5, <2>6, <2>7, <2>8, GoesOn
<1> QED BY <1>3, <1>4

\* A step that changes nothing but where the request stands.
LEMMA StandsElsewhere ==
    ASSUME Acc!AccInv, NEW f \in Flows, flow[f] # Acc!AtEase, NEW x \in Acc!Flow, flow' = [flow EXCEPT ![f] = x],
           x.kind = flow[f].kind, x.at = flow[f].at \/ (x.at > 1 /\ Acc!InTx(flow[f])) \/ x.kind # "bootstrap",
           Acc!Orderly(x), x.holds = flow[f].holds, x.busy = flow[f].busy,
           UNCHANGED <<users, sessions, conn, admitted, active, chosen, lastSet, booted>>
    PROVE  Acc!AccInv'
<1>1. x # Acc!AtEase /\ (Acc!InTx(x) <=> Acc!InTx(flow[f]))
  BY UnderWay DEF Acc!InTx
<1>2. admitted <= MaxActive + MaxBacklog /\ active <= MaxActive /\ chosen' \in Acc!Passwords
  BY DEF Acc!AccInv, Acc!AccTypeOK
<1>3. Acc!InGate(flow[f]) = x.holds /\ Acc!AtWork(flow[f]) = x.busy
  BY FlowAtStep
<1> QED BY <1>1, <1>2, <1>3, GoesOn

LEMMA ReadRowRight ==
    ASSUME Acc!AccInv, NEW f \in Flows, Acc!ReadRow(f)
    PROVE  Acc!AccInv'
<1>1. flow[f] # Acc!AtEase /\ Acc!Plan[flow[f].kind][flow[f].at] = "read"
  BY DEF Acc!ReadRow, Acc!At
<1>2. flow[f] \in Acc!Flow /\ Acc!Orderly(flow[f]) /\ ~flow[f].busy /\ (flow[f].holds <=> flow[f].kind = "login") /\ users[flow[f].user] \in Acc!UserRow
  <2>1. flow[f] \in Acc!Flow /\ Acc!Orderly(flow[f]) /\ ~Acc!Hashes(f) /\ Acc!At(f, "read")
    BY <1>1, FlowAtStep DEF Acc!Computing
  <2>2. ~flow[f].busy /\ (flow[f].holds <=> flow[f].kind = "login")
    BY <1>1, <2>1, FlowAtStep
  <2>3. users[flow[f].user] \in Acc!UserRow
    BY <2>1 DEF Acc!Flow, Acc!AccInv, Acc!AccTypeOK
  <2> QED BY <2>1, <2>2, <2>3
<1>3. CASE Acc!GivesUp(f)
  BY <1>1, <1>2, <1>3, GivesUpRight
<1>4. CASE ~Acc!GivesUp(f)
  <2> DEFINE x == [flow[f] EXCEPT !.at = @ + 1, !.row = users[flow[f].user]]
  <2>1. /\ flow[f].kind \in {"login", "change"} /\ flow[f].at + 1 <= Len(Acc!Plan[flow[f].kind])
        /\ flow[f].at \in 1..6 /\ Len(Acc!Plan[flow[f].kind]) \in 1..6
        /\ Acc!Plan[flow[f].kind][flow[f].at + 1] = IF flow[f].kind = "login" THEN "verify" ELSE "reserve"
    BY SMTT(60), <1>1, <1>2, StepOnwards
  <2>2. Acc!Next1(f) = [flow[f] EXCEPT !.at = @ + 1]
    BY <2>1 DEF Acc!Next1
  <2>3. x = [Acc!Next1(f) EXCEPT !.row = users[flow[f].user]]
    BY <1>2, <2>2 DEF Acc!Flow
  <2>4. flow' = [flow EXCEPT ![f] = x] /\ UNCHANGED <<users, sessions, conn, admitted, active, chosen, lastSet, booted>>
    BY <1>4, <2>3 DEF Acc!ReadRow, Acc!gate, Acc!ghosts
  <2>5. x \in Acc!Flow /\ x.kind = flow[f].kind /\ x.at = flow[f].at + 1 /\ x.holds = flow[f].holds /\ x.busy = flow[f].busy
    <3>1. flow[f].at + 1 \in 1..6
      BY <2>1, StepsAhead
    <3> QED BY <1>2, <3>1 DEF Acc!Flow
  <2> HIDE DEF x
  <2>6. Acc!Orderly(x)
    BY <1>2, <2>1, <2>5 DEF Acc!Orderly, Acc!Computing
  <2> QED BY <1>1, <2>1, <2>4, <2>5, <2>6, StandsElsewhere
<1> QED BY <1>3, <1>4

LEMMA TakeSlotRight ==
    ASSUME Acc!AccInv, NEW f \in Flows, Acc!TakeSlot(f)
    PROVE  Acc!AccInv'
<1>1. flow[f] # Acc!AtEase /\ Acc!Hashes(f) /\ ~flow[f].busy
  BY DEF Acc!TakeSlot, Acc!Hashes, Acc!At
<1>2. flow[f] \in Acc!Flow /\ Acc!Orderly(flow[f]) /\ flow[f].holds /\ Acc!InGate(flow[f]) /\ ~Acc!AtWork(flow[f])
      /\ Acc!Plan[flow[f].kind][flow[f].at] \in Acc!Computing
  BY <1>1, FlowAtStep
<1> DEFINE x == [flow[f] EXCEPT !.busy = TRUE]
<1>3. x \in Acc!Flow /\ x.kind = flow[f].kind /\ x.at = flow[f].at /\ x.holds /\ x.busy
  BY <1>2 DEF Acc!Flow
<1>4. DOMAIN flow = Flows /\ admitted \in 0..(MaxActive + MaxBacklog) /\ active \in 0..MaxActive /\ chosen \in Acc!Passwords
  BY DEF Acc!AccInv, Acc!AccTypeOK
<1>5. flow' = [flow EXCEPT ![f] = x] /\ active' = active + 1 /\ active < MaxActive
      /\ UNCHANGED <<users, sessions, conn, admitted, chosen, lastSet, booted>>
  BY <1>4 DEF Acc!TakeSlot, Acc!ghosts
<1> HIDE DEF x
<1>6. Acc!Orderly(x)
  BY <1>1, <1>2, <1>3 DEF Acc!Orderly
<1>7. Acc!InTx(x) <=> Acc!InTx(flow[f])
  BY <1>1, <1>3, UnderWay DEF Acc!InTx
<1>8. active' <= MaxActive /\ admitted' <= MaxActive + MaxBacklog
  BY AccountCounts, <1>4, <1>5, AccountAssumed DEF Acc!AccountAssumption
<1> QED BY <1>2, <1>3, <1>4, <1>5, <1>6, <1>7, <1>8, GoesOn

\* A computation gives its slot back, and the reservation with it unless the
\* login goes on to renew the hash.
LEMMA ComputedRight ==
    ASSUME Acc!AccInv, NEW f \in Flows, Acc!Computed(f)
    PROVE  Acc!AccInv'
<1>1. flow[f] # Acc!AtEase /\ Acc!Hashes(f) /\ flow[f].busy
  BY DEF Acc!Computed, Acc!Hashes, Acc!At
<1>2. flow[f] \in Acc!Flow /\ Acc!Orderly(flow[f]) /\ flow[f].holds /\ Acc!InGate(flow[f]) /\ Acc!AtWork(flow[f])
      /\ Acc!Plan[flow[f].kind][flow[f].at] \in Acc!Computing
  BY <1>1, FlowAtStep
<1>3. active' = active - 1 /\ UNCHANGED <<users, sessions, Acc!ghosts, chosen, lastSet, booted>>
  BY DEF Acc!Computed, Acc!ghosts
<1> DEFINE verifying == Acc!At(f, "verify")
           r == flow[f].row
           rehash == verifying /\ flow[f].kind = "login" /\ r.old
<1>4. CASE verifying /\ (r.st # "on" \/ r.pw # flow[f].typed)
  <2>1. Acc!Ends(f)
    BY <1>4 DEF Acc!Computed
  <2> QED BY <1>1, <1>3, <2>1, EndsRight
<1>5. CASE ~(verifying /\ (r.st # "on" \/ r.pw # flow[f].typed))
  <2> DEFINE n == IF verifying /\ flow[f].kind = "login" /\ ~rehash THEN flow[f].at + 2 ELSE flow[f].at + 1
  <2>1. /\ flow' = [flow EXCEPT ![f] = [flow[f] EXCEPT !.at = n, !.busy = FALSE, !.holds = rehash]]
        /\ admitted' = (IF rehash THEN admitted ELSE admitted - 1) /\ UNCHANGED conn
    BY <1>2, <1>5 DEF Acc!Computed, Acc!Flow
  <2>2. /\ flow[f].kind \in DOMAIN Acc!Plan /\ flow[f].at \in 1..6 /\ Len(Acc!Plan[flow[f].kind]) \in 1..6
        /\ flow[f].at + 1 <= Len(Acc!Plan[flow[f].kind])
        /\ Acc!Plan[flow[f].kind][flow[f].at] = "verify" /\ flow[f].kind = "login" =>
              /\ Acc!Plan[flow[f].kind][flow[f].at + 1] = "rehash"
              /\ flow[f].at + 2 <= Len(Acc!Plan[flow[f].kind]) /\ Acc!Plan[flow[f].kind][flow[f].at + 2] = "stamp"
        /\ Acc!Plan[flow[f].kind][flow[f].at] # "verify" \/ flow[f].kind # "login" =>
              Acc!Plan[flow[f].kind][flow[f].at + 1] \in {"reserve", "stamp", "write", "insert"}
    BY SMTT(60), <1>2, StepOnwards
  <2>3. verifying <=> Acc!Plan[flow[f].kind][flow[f].at] = "verify"
    BY <1>1, FlowAtStep
  <2>4. rehash \in BOOLEAN
    OBVIOUS
  <2>5. /\ n \in 1..6 /\ n <= Len(Acc!Plan[flow[f].kind]) /\ n > 1
        /\ rehash => Acc!Plan[flow[f].kind][n] = "rehash"
        /\ ~rehash => Acc!Plan[flow[f].kind][n] \in {"reserve", "stamp", "write", "insert"}
    <3>1. flow[f].at + 1 \in 1..6 /\ flow[f].at + 1 > 1
      BY <2>2, StepsAhead
    <3>2. CASE verifying /\ flow[f].kind = "login" /\ ~rehash
      <4>1. n = flow[f].at + 2 /\ flow[f].at + 2 <= Len(Acc!Plan[flow[f].kind]) /\ Acc!Plan[flow[f].kind][flow[f].at + 2] = "stamp"
        BY <2>2, <2>3, <3>2
      <4>2. n \in 1..6 /\ n > 1
        BY <2>2, <4>1, StepsAhead
      <4> QED BY <3>2, <4>1, <4>2
    <3>3. CASE rehash
      <4>1. n = flow[f].at + 1 /\ Acc!Plan[flow[f].kind][flow[f].at + 1] = "rehash"
        BY <2>2, <2>3, <3>3
      <4> QED BY <2>2, <3>1, <3>3, <4>1
    <3>4. CASE ~(verifying /\ flow[f].kind = "login")
      <4>1. n = flow[f].at + 1 /\ ~rehash
        BY <3>4
      <4>2. Acc!Plan[flow[f].kind][flow[f].at + 1] \in {"reserve", "stamp", "write", "insert"}
        BY <2>2, <2>3, <3>4
      <4> QED BY <2>2, <3>1, <4>1, <4>2
    <3> QED BY <3>2, <3>3, <3>4
  <2> HIDE DEF verifying, rehash, n
  <2>a. PICK m \in 1..6 : m = n
    BY <2>5
  <2>b. PICK b \in BOOLEAN : b = rehash
    BY <2>4
  <2> DEFINE x == [flow[f] EXCEPT !.at = m, !.busy = FALSE, !.holds = b]
  <2>6. x \in Acc!Flow /\ x.kind = flow[f].kind /\ x.at = m /\ x.holds = b /\ x.busy = FALSE
    BY <1>2 DEF Acc!Flow
  <2>c. /\ flow' = [flow EXCEPT ![f] = x] /\ admitted' = (IF b THEN admitted ELSE admitted - 1) /\ UNCHANGED conn
        /\ m <= Len(Acc!Plan[flow[f].kind]) /\ m > 1 /\ (b => Acc!Plan[flow[f].kind][m] = "rehash")
        /\ (~b => Acc!Plan[flow[f].kind][m] \in {"reserve", "stamp", "write", "insert"})
    BY <2>1, <2>5, <2>a, <2>b
  <2> HIDE DEF x
  <2>7. Acc!Orderly(x)
    BY <2>6, <2>c DEF Acc!Orderly, Acc!Computing
  <2>8. Acc!InTx(x) <=> Acc!InTx(flow[f])
    <3>1. flow[f].kind = "bootstrap" => flow[f].at > 1
      BY <1>2, StepOnwards DEF Acc!Computing
    <3> QED BY <1>1, <2>6, <2>c, <3>1, UnderWay DEF Acc!InTx
  <2>9. admitted \in 0..(MaxActive + MaxBacklog) /\ active \in 0..MaxActive /\ chosen \in Acc!Passwords
    BY DEF Acc!AccInv, Acc!AccTypeOK
  <2>10. active' <= MaxActive /\ admitted' <= MaxActive + MaxBacklog
    BY AccountCounts, <1>3, <2>c, <2>9, AccountAssumed DEF Acc!AccountAssumption
  <2> QED BY <1>2, <1>3, <2>c, <2>6, <2>7, <2>8, <2>9, <2>10, GoesOn
<1> QED BY <1>4, <1>5

LEMMA CancelledRight ==
    ASSUME Acc!AccInv, NEW f \in Flows, Acc!Cancelled(f)
    PROVE  Acc!AccInv'
  BY GivesUpRight DEF Acc!Cancelled

-----------------------------------------------------------------------------
\* The transactions of requests.

\* Whoever may use the connection leaves its holder's place empty.
LEMMA StampRight ==
    ASSUME Acc!AccInv, NEW f \in Flows, Acc!Stamp(f)
    PROVE  Acc!AccInv'
<1>1. flow[f] # Acc!AtEase /\ Acc!Plan[flow[f].kind][flow[f].at] = "stamp"
  BY DEF Acc!Stamp, Acc!At
<1>2. flow[f] \in Acc!Flow /\ Acc!Orderly(flow[f]) /\ ~flow[f].busy /\ ~flow[f].holds /\ ~Acc!InGate(flow[f]) /\ ~Acc!AtWork(flow[f])
  BY <1>1, FlowAtStep DEF Acc!Computing
<1>3. CASE Acc!GivesUp(f)
  BY <1>1, <1>2, <1>3, GivesUpRight
<1>4. CASE ~Acc!GivesUp(f)
  <2> DEFINE x == [flow[f] EXCEPT !.at = @ + 1]
             u == flow[f].user
  <2>1. /\ flow[f].kind = "login" /\ flow[f].at + 1 <= Len(Acc!Plan[flow[f].kind]) /\ flow[f].kind \in DOMAIN Acc!Plan
        /\ flow[f].at \in 1..6 /\ Len(Acc!Plan[flow[f].kind]) \in 1..6
        /\ Acc!Plan[flow[f].kind][flow[f].at + 1] = "open"
    BY SMTT(60), <1>1, <1>2, StepOnwards
  <2>2. Acc!Next1(f) = x
    BY <2>1 DEF Acc!Next1
  <2>3. x \in Acc!Flow /\ x.kind = flow[f].kind /\ x.at = flow[f].at + 1 /\ x.holds = flow[f].holds /\ x.busy = flow[f].busy
    <3>1. flow[f].at + 1 \in 1..6
      BY <2>1, StepsAhead
    <3> QED BY <1>2, <3>1 DEF Acc!Flow
  <2>4. /\ flow' = [flow EXCEPT ![f] = x]
        /\ users' = (IF flow[f].row.old THEN [users EXCEPT ![u].old = FALSE] ELSE users)
        /\ UNCHANGED <<sessions, conn, admitted, active, chosen, lastSet, booted>>
    BY <1>4, <2>2 DEF Acc!Stamp, Acc!Advance, Acc!gate, Acc!ghosts
  <2> HIDE DEF x
  <2>5. Acc!Orderly(x)
    BY <1>2, <2>1, <2>3 DEF Acc!Orderly, Acc!Computing
  <2>6. FlowsRight /\ TablesRight /\ u \in Users /\ x # Acc!AtEase
    BY <1>2, <2>3, TwoHalves, UnderWay DEF Acc!Flow
  <2>7. ~Acc!InTx(x) /\ ~Acc!InTx(flow[f]) /\ ~Acc!InGate(x) /\ ~Acc!AtWork(x) /\ conn # f
    BY <1>2, <2>1, <2>3, <2>6 DEF Acc!InTx, Acc!InGate, Acc!AtWork, FlowsRight
  <2>8. FlowsRight'
    <3>1. admitted <= MaxActive + MaxBacklog /\ active <= MaxActive
      BY <2>6 DEF FlowsRight
    <3> QED BY <1>2, <2>3, <2>4, <2>5, <2>7, <3>1, FlowMoves
  <2>9. users' \in [Users -> Acc!UserRow] /\ \A v \in Users : users'[v].st = users[v].st /\ users'[v].pw = users[v].pw
    <3>1. users \in [Users -> Acc!UserRow]
      BY <2>6 DEF TablesRight
    <3>2. CASE flow[f].row.old
      <4>1. users' = [users EXCEPT ![u].old = FALSE]
        BY <2>4, <3>2
      <4> QED BY <2>6, <3>1, <4>1 DEF Acc!UserRow
    <3>3. CASE ~flow[f].row.old
      BY <2>4, <3>1, <3>3
    <3> QED BY <3>2, <3>3
  <2>10. Acc!Present' = Acc!Present /\ Acc!Enabled' = Acc!Enabled
    BY <2>9 DEF Acc!Present, Acc!Enabled
  <2>11. Acc!SessionsCurrent'
    <3>1. \A s \in SessionIds : sessions[s] # Acc!NoSession => sessions[s].user \in Users
      BY <2>6 DEF TablesRight, Acc!Session
    <3> QED BY <2>4, <2>6, <2>9, <3>1 DEF TablesRight, Acc!SessionsCurrent
  <2>12. Acc!SomeoneEnabled' /\ Acc!PasswordForward'
    BY <2>4, <2>6, <2>9, <2>10 DEF TablesRight, Acc!SomeoneEnabled, Acc!PasswordForward, Acc!Present
  <2>13. TablesRight'
    BY <2>4, <2>6, <2>9, <2>10, <2>11, <2>12 DEF TablesRight
  <2> QED BY <2>8, <2>13, HalvesAfter
<1> QED BY <1>3, <1>4

\* The last step of a request, outside the gate.
LEMMA FlowLastStep ==
    ASSUME Acc!AccInv, NEW f \in Flows, flow[f] # Acc!AtEase, Acc!Plan[flow[f].kind][flow[f].at] \in {"open", "write", "insert"}
    PROVE  /\ flow[f] \in Acc!Flow /\ Acc!Orderly(flow[f]) /\ ~flow[f].busy /\ Acc!Next1(f) = Acc!AtEase
           /\ flow' = [flow EXCEPT ![f] = Acc!AtEase] /\ UNCHANGED <<admitted, active>>
              /\ conn' = (IF conn = f THEN Acc!Nobody ELSE conn) => FlowsRight'
           /\ flow[f].kind # "bootstrap" => conn # f
<1>1. flow[f] \in Acc!Flow /\ Acc!Orderly(flow[f]) /\ ~flow[f].busy /\ ~flow[f].holds /\ ~Acc!InGate(flow[f]) /\ ~Acc!AtWork(flow[f])
      /\ (conn = f <=> Acc!InTx(flow[f]))
  BY FlowAtStep DEF Acc!Computing
<1>2. Acc!Next1(f) = Acc!AtEase
  BY <1>1, StepOnwards DEF Acc!Next1
<1>3. admitted <= MaxActive + MaxBacklog /\ active <= MaxActive
  BY DEF Acc!AccInv, Acc!AccTypeOK
<1>4. ASSUME flow' = [flow EXCEPT ![f] = Acc!AtEase] /\ UNCHANGED <<admitted, active>>,
             conn' = (IF conn = f THEN Acc!Nobody ELSE conn)
      PROVE  FlowsRight'
  BY <1>1, <1>3, <1>4, AtEaseIsOut, FlowMoves
<1> QED BY <1>1, <1>2, <1>4 DEF Acc!InTx

LEMMA OpenRight ==
    ASSUME Acc!AccInv, NEW f \in Flows, Acc!Open(f)
    PROVE  Acc!AccInv'
<1>1. flow[f] # Acc!AtEase /\ Acc!Plan[flow[f].kind][flow[f].at] = "open"
  BY DEF Acc!Open, Acc!At
<1>2. flow[f] \in Acc!Flow /\ ~flow[f].busy /\ Acc!Next1(f) = Acc!AtEase
  BY <1>1, FlowLastStep
<1>3. CASE Acc!GivesUp(f)
  BY <1>1, <1>2, <1>3, GivesUpRight
<1>4. CASE ~Acc!GivesUp(f)
  <2> DEFINE u == flow[f].user
             new == [user |-> u, pw |-> flow[f].row.pw, late |-> users[u].st # "on" \/ users[u].pw # flow[f].row.pw]
  <2>1. PICK s \in SessionIds : sessions' = [sessions EXCEPT ![s] = new]
    BY <1>4 DEF Acc!Open
  <2>2. flow' = [flow EXCEPT ![f] = Acc!AtEase] /\ UNCHANGED <<users, conn, admitted, active, chosen, lastSet, booted>>
    BY <1>2, <1>4 DEF Acc!Open, Acc!Advance, Acc!gate, Acc!ghosts
  <2>3. FlowsRight /\ TablesRight
    BY TwoHalves
  <2>4. conn # f
    <3>1. flow[f].kind # "bootstrap"
      <4>1. Acc!Orderly(flow[f])
        BY <2>3 DEF FlowsRight
      <4>2. flow[f].at \in 1..6 /\ flow[f].at <= Len(Acc!Plan[flow[f].kind])
        BY <1>1, <1>2, <4>1 DEF Acc!Flow, Acc!Orderly
      <4> QED BY <1>1, <4>2, AccountPlan
    <3> QED BY <1>1, <3>1, FlowLastStep
  <2>5. FlowsRight'
    BY <1>1, <2>2, <2>4, FlowLastStep
  <2>6. new \in Acc!Session
    BY <1>2 DEF Acc!Flow, Acc!UserRow, Acc!Session
  <2>7. sessions' \in [SessionIds -> Acc!Session \cup {Acc!NoSession}]
    BY <2>1, <2>3, <2>6 DEF TablesRight
  <2>8. Acc!SessionsCurrent'
    <3> SUFFICES ASSUME NEW t \in SessionIds, sessions'[t] # Acc!NoSession
                 PROVE  \/ sessions'[t].late
                        \/ users[sessions'[t].user].st = "on" /\ users[sessions'[t].user].pw = sessions'[t].pw
      BY <2>2 DEF Acc!SessionsCurrent
    <3>1. CASE t = s
      BY <2>1, <2>3, <3>1 DEF TablesRight
    <3>2. CASE t # s
      BY <2>1, <2>3, <3>2 DEF TablesRight, Acc!SessionsCurrent
    <3> QED BY <3>1, <3>2
  <2>9. Acc!Present' = Acc!Present /\ Acc!Enabled' = Acc!Enabled
    BY <2>2 DEF Acc!Present, Acc!Enabled
  <2>10. TablesRight'
    BY <2>2, <2>3, <2>7, <2>8, <2>9 DEF TablesRight, Acc!SomeoneEnabled, Acc!PasswordForward
  <2> QED BY <2>5, <2>10, HalvesAfter
<1> QED BY <1>3, <1>4

\* A user's password and his sessions change together.
LEMMA WriteRight ==
    ASSUME Acc!AccInv, NEW f \in Flows, Acc!Write(f)
    PROVE  Acc!AccInv'
<1>1. flow[f] # Acc!AtEase /\ Acc!Plan[flow[f].kind][flow[f].at] = "write"
  BY DEF Acc!Write, Acc!At
<1>2. flow[f] \in Acc!Flow /\ ~flow[f].busy /\ Acc!Next1(f) = Acc!AtEase
  BY <1>1, FlowLastStep
<1>3. CASE Acc!GivesUp(f)
  BY <1>1, <1>2, <1>3, GivesUpRight
<1>4. CASE ~Acc!GivesUp(f)
  <2> DEFINE u == flow[f].user
             n == flow[f].new
             kept == Acc!SessionsOf(u) \cap {flow[f].keep}
  <2>1. /\ users' = [users EXCEPT ![u].pw = n, ![u].old = FALSE]
        /\ sessions' = [s \in SessionIds |->
                  IF s \in kept THEN [sessions[s] EXCEPT !.pw = n]
                  ELSE IF s \in Acc!SessionsOf(u) THEN Acc!NoSession ELSE sessions[s]]
        /\ lastSet' = [lastSet EXCEPT ![u] = n]
        /\ flow' = [flow EXCEPT ![f] = Acc!AtEase] /\ UNCHANGED <<conn, admitted, active, chosen, booted>>
    BY <1>2, <1>4 DEF Acc!Write, Acc!Advance, Acc!gate
  <2>2. FlowsRight /\ TablesRight /\ u \in Users /\ n \in Acc!Passwords
    BY <1>2, TwoHalves DEF Acc!Flow
  <2>3. flow[f].kind # "bootstrap"
    <3>1. Acc!Orderly(flow[f])
      BY <2>2 DEF FlowsRight
    <3>2. flow[f].at \in 1..6 /\ flow[f].at <= Len(Acc!Plan[flow[f].kind])
      BY <1>1, <1>2, <3>1 DEF Acc!Flow, Acc!Orderly
    <3> QED BY <1>1, <3>2, AccountPlan
  <2>4. FlowsRight'
    BY <1>1, <2>1, <2>3, FlowLastStep
  <2>5. /\ users \in [Users -> Acc!UserRow] /\ sessions \in [SessionIds -> Acc!Session \cup {Acc!NoSession}]
        /\ lastSet \in [Users -> Acc!Passwords]
    BY <2>2 DEF TablesRight
  <2> HIDE DEF u, n
  <2>6. /\ users' \in [Users -> Acc!UserRow] /\ users'[u].pw = n
        /\ \A v \in Users : users'[v].st = users[v].st /\ (v # u => users'[v] = users[v])
    BY ZenonT(60), <2>1, <2>2, <2>5 DEF Acc!UserRow
  <2>7. Acc!Present' = Acc!Present /\ Acc!Enabled' = Acc!Enabled
    BY <2>6 DEF Acc!Present, Acc!Enabled
  <2>8. \A s \in SessionIds : s \in Acc!SessionsOf(u) => sessions[s] \in Acc!Session /\ sessions[s].user = u
    BY <2>5 DEF Acc!SessionsOf
  <2>9. \A s \in SessionIds :
           /\ s \in kept => sessions'[s] \in Acc!Session /\ sessions'[s].user = u /\ sessions'[s].pw = n
                            /\ sessions'[s].late = sessions[s].late
           /\ s \notin kept /\ s \in Acc!SessionsOf(u) => sessions'[s] = Acc!NoSession
           /\ s \notin Acc!SessionsOf(u) => sessions'[s] = sessions[s]
    <3> SUFFICES ASSUME NEW s \in SessionIds
                 PROVE  /\ s \in kept => sessions'[s] \in Acc!Session /\ sessions'[s].user = u /\ sessions'[s].pw = n
                                         /\ sessions'[s].late = sessions[s].late
                        /\ s \notin kept /\ s \in Acc!SessionsOf(u) => sessions'[s] = Acc!NoSession
                        /\ s \notin Acc!SessionsOf(u) => sessions'[s] = sessions[s]
      OBVIOUS
    <3>1. CASE s \in kept
      <4>1. sessions'[s] = [sessions[s] EXCEPT !.pw = n] /\ sessions[s] \in Acc!Session /\ sessions[s].user = u /\ s \in Acc!SessionsOf(u)
        BY <2>1, <2>8, <3>1
      <4> QED BY <2>2, <3>1, <4>1 DEF Acc!Session
    <3>2. CASE s \notin kept
      BY <2>1, <3>2
    <3> QED BY <3>1, <3>2
  <2> HIDE DEF kept
  <2>10. sessions' \in [SessionIds -> Acc!Session \cup {Acc!NoSession}]
    <3>1. \A s \in SessionIds : sessions'[s] \in Acc!Session \cup {Acc!NoSession}
      BY <2>5, <2>9
    <3>2. sessions' = [s \in SessionIds |-> sessions'[s]]
      BY <2>1
    <3> QED BY <3>1, <3>2
  <2>11. Acc!SessionsCurrent'
    <3> SUFFICES ASSUME NEW t \in SessionIds, sessions'[t] # Acc!NoSession
                 PROVE  \/ sessions'[t].late
                        \/ users'[sessions'[t].user].st = "on" /\ users'[sessions'[t].user].pw = sessions'[t].pw
      BY DEF Acc!SessionsCurrent
    <3>1. CASE t \in Acc!SessionsOf(u)
      <4>1. t \in kept
        BY <2>9, <3>1
      <4>2. sessions[t] # Acc!NoSession /\ sessions[t].user = u
        BY <3>1 DEF Acc!SessionsOf
      <4>3. sessions[t].late \/ users[u].st = "on"
        BY <2>2, <4>2 DEF TablesRight, Acc!SessionsCurrent
      <4> QED BY <2>2, <2>6, <2>9, <4>1, <4>3
    <3>2. CASE t \notin Acc!SessionsOf(u)
      <4>1. sessions'[t] = sessions[t] /\ sessions[t] # Acc!NoSession
        BY <2>9, <3>2
      <4>2. sessions[t].user # u /\ sessions[t].user \in Users
        BY <2>5, <3>2, <4>1 DEF Acc!SessionsOf, Acc!Session
      <4> QED BY <2>2, <2>6, <4>1, <4>2 DEF TablesRight, Acc!SessionsCurrent
    <3> QED BY <3>1, <3>2
  <2>12. Acc!PasswordForward'
    BY <2>1, <2>2, <2>5, <2>6, <2>7 DEF TablesRight, Acc!PasswordForward, Acc!Present
  <2>13. lastSet' \in [Users -> Acc!Passwords]
    BY <2>1, <2>2, <2>5
  <2>14. TablesRight'
    BY <2>1, <2>2, <2>6, <2>7, <2>10, <2>11, <2>12, <2>13 DEF TablesRight, Acc!SomeoneEnabled, Acc!Passwords
  <2> QED BY <2>4, <2>14, HalvesAfter
<1> QED BY <1>3, <1>4

\* A bootstrap takes the connection when there is nobody.
LEMMA BeginTxRight ==
    ASSUME Acc!AccInv, NEW f \in Flows, Acc!BeginTx(f)
    PROVE  Acc!AccInv'
<1>1. flow[f] # Acc!AtEase /\ Acc!Plan[flow[f].kind][flow[f].at] = "begin" /\ conn = Acc!Nobody
  BY DEF Acc!BeginTx, Acc!At
<1>2. flow[f] \in Acc!Flow /\ Acc!Orderly(flow[f]) /\ ~flow[f].busy /\ ~flow[f].holds /\ ~Acc!InGate(flow[f]) /\ ~Acc!AtWork(flow[f])
  BY <1>1, FlowAtStep DEF Acc!Computing
<1>3. CASE Acc!GivesUp(f)
  BY <1>1, <1>2, <1>3, GivesUpRight
<1>4. CASE ~Acc!GivesUp(f)
  <2> DEFINE x == [flow[f] EXCEPT !.at = @ + 1]
  <2>1. flow[f].kind = "bootstrap" /\ flow[f].at = 1 /\ 2 <= Len(Acc!Plan[flow[f].kind]) /\ Acc!Plan[flow[f].kind][2] = "reserve"
    BY <1>1, <1>2, StepOnwards
  <2>2. Acc!Next1(f) = x
    BY <2>1, AccountPlan DEF Acc!Next1
  <2>3. x \in Acc!Flow /\ x.kind = "bootstrap" /\ x.at = 2 /\ ~x.holds /\ ~x.busy
    BY <1>2, <2>1 DEF Acc!Flow
  <2>4. /\ flow' = [flow EXCEPT ![f] = x] /\ conn' = f /\ Acc!Present = {}
        /\ UNCHANGED <<users, sessions, admitted, active, chosen, lastSet, booted>>
    BY <1>4, <2>2 DEF Acc!BeginTx, Acc!Advance, Acc!gate, Acc!ghosts
  <2> HIDE DEF x
  <2>5. x # Acc!AtEase /\ Acc!Orderly(x) /\ Acc!InTx(x) /\ ~Acc!InGate(x) /\ ~Acc!AtWork(x)
    BY <2>1, <2>3, UnderWay DEF Acc!Orderly, Acc!Computing, Acc!InTx, Acc!InGate, Acc!AtWork
  <2>6. FlowsRight /\ TablesRight
    BY TwoHalves
  <2>7. FlowsRight'
    <3>1. admitted <= MaxActive + MaxBacklog /\ active <= MaxActive
      BY <2>6 DEF FlowsRight
    <3> QED BY <1>1, <1>2, <2>3, <2>4, <2>5, <3>1, FlowMoves
  <2>8. TablesRight'
    BY <2>4, <2>6, TablesStay DEF TablesRight
  <2> QED BY <2>7, <2>8, HalvesAfter
<1> QED BY <1>3, <1>4

LEMMA InsertRight ==
    ASSUME Acc!AccInv, NEW f \in Flows, Acc!Insert(f)
    PROVE  Acc!AccInv'
<1>1. flow[f] # Acc!AtEase /\ Acc!Plan[flow[f].kind][flow[f].at] = "insert" /\ conn \in {f, Acc!Nobody}
  BY DEF Acc!Insert, Acc!At, Acc!Free
<1>2. flow[f] \in Acc!Flow /\ ~flow[f].busy /\ Acc!Next1(f) = Acc!AtEase
  BY <1>1, FlowLastStep
<1>3. CASE Acc!GivesUp(f)
  BY <1>1, <1>2, <1>3, GivesUpRight
<1>4. CASE ~Acc!GivesUp(f)
  <2> DEFINE u == flow[f].user
             n == flow[f].new
             new == [st |-> "on", pw |-> n, old |-> FALSE]
  <2>1. /\ users[u].st = "new" /\ users' = [users EXCEPT ![u] = new]
        /\ lastSet' = [lastSet EXCEPT ![u] = n] /\ booted' = TRUE /\ conn' = Acc!Nobody
        /\ flow' = [flow EXCEPT ![f] = Acc!AtEase] /\ UNCHANGED <<sessions, admitted, active, chosen>>
    BY <1>2, <1>4 DEF Acc!Insert, Acc!Advance, Acc!gate
  <2>2. FlowsRight /\ TablesRight /\ u \in Users /\ n \in Acc!Passwords
    BY <1>2, TwoHalves DEF Acc!Flow
  <2>3. FlowsRight'
    BY <1>1, <2>1, FlowLastStep
  <2>4. new \in Acc!UserRow /\ new.st = "on" /\ new.pw = n
    BY <2>2 DEF Acc!UserRow
  <2>5. /\ users \in [Users -> Acc!UserRow] /\ sessions \in [SessionIds -> Acc!Session \cup {Acc!NoSession}]
        /\ lastSet \in [Users -> Acc!Passwords]
    BY <2>2 DEF TablesRight
  <2> HIDE DEF new, u, n
  <2>6. users' \in [Users -> Acc!UserRow] /\ users'[u] = new /\ \A v \in Users : v # u => users'[v] = users[v]
    BY <2>1, <2>2, <2>4, <2>5
  <2>7. Acc!SomeoneEnabled'
    BY <2>2, <2>4, <2>6 DEF Acc!SomeoneEnabled, Acc!Enabled
  <2>8. Acc!PasswordForward'
    BY <2>1, <2>2, <2>4, <2>5, <2>6 DEF TablesRight, Acc!PasswordForward, Acc!Present
  <2>9. Acc!SessionsCurrent'
    <3> SUFFICES ASSUME NEW t \in SessionIds, sessions[t] # Acc!NoSession, ~sessions[t].late
                 PROVE  users'[sessions[t].user].st = "on" /\ users'[sessions[t].user].pw = sessions[t].pw
      BY <2>1 DEF Acc!SessionsCurrent
    <3>1. users[sessions[t].user].st = "on" /\ users[sessions[t].user].pw = sessions[t].pw
      BY <2>2 DEF TablesRight, Acc!SessionsCurrent
    <3>2. sessions[t].user # u /\ sessions[t].user \in Users
      BY <2>1, <2>5, <3>1 DEF Acc!Session
    <3> QED BY <2>6, <3>1, <3>2
  <2>10. lastSet' \in [Users -> Acc!Passwords]
    BY <2>1, <2>2, <2>5
  <2>11. TablesRight'
    BY <2>1, <2>2, <2>6, <2>7, <2>8, <2>9, <2>10 DEF TablesRight, Acc!Passwords
  <2> QED BY <2>3, <2>11, HalvesAfter
<1> QED BY <1>3, <1>4

-----------------------------------------------------------------------------
\* Administrators.

\* An administrator's transaction, while nobody else's is open.
LEMMA AdminRight ==
    ASSUME Acc!AccInv, conn = Acc!Nobody, UNCHANGED <<flow, conn, Acc!gate, chosen, booted>>, TablesRight'
    PROVE  Acc!AccInv'
<1>1. FlowsRight'
  <2>1. FlowsRight
    BY TwoHalves
  <2> QED BY AccountCounts, <2>1 DEF FlowsRight, Acc!gate, Acc!GateExact
<1> QED BY <1>1, HalvesAfter

\* A set of two or more has another member.
LEMMA AnotherThere ==
    ASSUME NEW S, IsFiniteSet(S), NEW u \in S, Cardinality(S) > 1
    PROVE  \E v \in S : v # u
<1> SUFFICES ASSUME \A v \in S : v = u PROVE FALSE
  OBVIOUS
<1>1. S = {u}
  OBVIOUS
<1> QED BY <1>1, FS_Singleton

\* The sessions that are left when one user's have gone.
LEMMA RevokedRight ==
    ASSUME TablesRight, NEW u \in Users, users' \in [Users -> Acc!UserRow],
           \A v \in Users : v # u => users'[v] = users[v],
           \/ sessions' = Acc!Revoked(Acc!SessionsOf(u))
           \/ sessions' = sessions /\ users[u].pw = users'[u].pw /\ (users[u].st = "on" => users'[u].st = "on")
    PROVE  sessions' \in [SessionIds -> Acc!Session \cup {Acc!NoSession}] /\ Acc!SessionsCurrent'
<1>1. sessions \in [SessionIds -> Acc!Session \cup {Acc!NoSession}] /\ Acc!SessionsCurrent
  BY DEF TablesRight
<1>2. sessions' \in [SessionIds -> Acc!Session \cup {Acc!NoSession}]
  BY <1>1 DEF Acc!Revoked
<1>3. ASSUME NEW t \in SessionIds, sessions'[t] # Acc!NoSession
      PROVE  \/ sessions'[t].late
             \/ users'[sessions'[t].user].st = "on" /\ users'[sessions'[t].user].pw = sessions'[t].pw
  <2>1. sessions'[t] = sessions[t] /\ sessions[t] # Acc!NoSession
    BY <1>3 DEF Acc!Revoked
  <2>2. sessions[t].user \in Users
    BY <1>1, <2>1 DEF Acc!Session
  <2>3. CASE sessions[t].user = u
    <3>1. t \in Acc!SessionsOf(u)
      BY <2>1, <2>3 DEF Acc!SessionsOf
    <3>2. sessions' # Acc!Revoked(Acc!SessionsOf(u))
      BY <1>3, <3>1 DEF Acc!Revoked
    <3> QED BY <1>1, <2>1, <2>3, <3>2 DEF Acc!SessionsCurrent
  <2>4. CASE sessions[t].user # u
    BY <1>1, <2>1, <2>2, <2>4 DEF Acc!SessionsCurrent
  <2> QED BY <2>3, <2>4
<1> QED BY <1>2, <1>3 DEF Acc!SessionsCurrent

LEMMA EnabledFinite == IsFiniteSet(Acc!Enabled)
<1>1. IsFiniteSet(Users)
  BY AccountCounts, AccountAssumed DEF Acc!AccountAssumption
<1> QED BY <1>1, FS_Subset DEF Acc!Enabled

LEMMA SetUserEnabledRight ==
    ASSUME Acc!AccInv, NEW u \in Users, NEW on \in BOOLEAN, Acc!SetUserEnabled(u, on)
    PROVE  Acc!AccInv'
<1>1. FlowsRight /\ TablesRight /\ conn = Acc!Nobody
  BY AccountCounts, TwoHalves DEF Acc!SetUserEnabled
<1>2. users \in [Users -> Acc!UserRow] /\ users[u].st \in {"on", "off"}
  BY AccountCounts, <1>1 DEF TablesRight, Acc!SetUserEnabled, Acc!Here, Acc!Present
<1>3. /\ users' \in [Users -> Acc!UserRow] /\ users'[u].pw = users[u].pw /\ users'[u].st = IF on THEN "on" ELSE "off"
      /\ \A v \in Users : v # u => users'[v] = users[v]
  BY AccountCounts, <1>2 DEF Acc!SetUserEnabled, Acc!UserRow
<1>4. sessions' \in [SessionIds -> Acc!Session \cup {Acc!NoSession}] /\ Acc!SessionsCurrent'
  <2>1. \/ sessions' = Acc!Revoked(Acc!SessionsOf(u))
        \/ sessions' = sessions /\ users[u].pw = users'[u].pw /\ (users[u].st = "on" => users'[u].st = "on")
    BY AccountCounts, <1>3 DEF Acc!SetUserEnabled
  <2> QED BY <1>1, <1>3, <2>1, RevokedRight
<1>5. Acc!PasswordForward'
  BY AccountCounts, <1>1, <1>2, <1>3 DEF TablesRight, Acc!PasswordForward, Acc!Present, Acc!SetUserEnabled, Acc!ghosts
<1>6. Acc!SomeoneEnabled'
  <2> SUFFICES ASSUME booted PROVE Acc!Enabled' # {}
    BY AccountCounts DEF Acc!SomeoneEnabled, Acc!SetUserEnabled, Acc!ghosts
  <2>1. PICK v \in Acc!Enabled : TRUE
    BY <1>1 DEF TablesRight, Acc!SomeoneEnabled
  <2>2. CASE on
    BY <1>3, <2>2 DEF Acc!Enabled
  <2>3. CASE ~on /\ users[u].st = "on"
    <3>1. u \in Acc!Enabled /\ Cardinality(Acc!Enabled) > 1
      BY AccountCounts, <2>3 DEF Acc!Enabled, Acc!SetUserEnabled
    <3>2. PICK w \in Acc!Enabled : w # u
      BY <3>1, EnabledFinite, AnotherThere
    <3> QED BY <1>3, <3>2 DEF Acc!Enabled
  <2>4. CASE ~on /\ users[u].st # "on"
    <3>1. v # u
      BY <2>1, <2>4 DEF Acc!Enabled
    <3> QED BY <1>3, <2>1, <3>1 DEF Acc!Enabled
  <2> QED BY <2>2, <2>3, <2>4
<1>7. TablesRight'
  BY AccountCounts, <1>1, <1>3, <1>4, <1>5, <1>6 DEF TablesRight, Acc!SetUserEnabled, Acc!ghosts, Acc!Passwords
<1> QED BY AccountCounts, <1>1, <1>7, AdminRight DEF Acc!SetUserEnabled, Acc!ghosts

LEMMA DeleteUserRight ==
    ASSUME Acc!AccInv, NEW u \in Users, Acc!DeleteUser(u)
    PROVE  Acc!AccInv'
<1>1. FlowsRight /\ TablesRight /\ conn = Acc!Nobody
  BY AccountCounts, TwoHalves DEF Acc!DeleteUser
<1>2. PwLimit \in Nat
  BY AccountCounts, AccountAssumed DEF Acc!AccountAssumption
<1>3. Acc!Gone \in Acc!UserRow /\ Acc!Gone.st = "gone"
  <2>1. Acc!New \in Acc!UserRow
    BY <1>2 DEF Acc!New, Acc!UserRow, Acc!Passwords
  <2> QED BY <2>1 DEF Acc!Gone, Acc!UserRow
<1>4. users' \in [Users -> Acc!UserRow] /\ users'[u] = Acc!Gone /\ \A v \in Users : v # u => users'[v] = users[v]
  BY AccountCounts, <1>1, <1>3 DEF TablesRight, Acc!DeleteUser
<1>5. sessions' \in [SessionIds -> Acc!Session \cup {Acc!NoSession}] /\ Acc!SessionsCurrent'
  BY AccountCounts, <1>1, <1>4, RevokedRight DEF Acc!DeleteUser
<1>6. lastSet' \in [Users -> Acc!Passwords] /\ \A v \in Users : v # u => lastSet'[v] = lastSet[v]
  BY AccountCounts, <1>1, <1>2 DEF TablesRight, Acc!DeleteUser, Acc!Passwords
<1>7. Acc!PasswordForward'
  BY <1>1, <1>3, <1>4, <1>6 DEF TablesRight, Acc!PasswordForward, Acc!Present
<1>8. Acc!SomeoneEnabled'
  <2> SUFFICES ASSUME booted PROVE Acc!Enabled' # {}
    BY AccountCounts DEF Acc!SomeoneEnabled, Acc!DeleteUser
  <2>1. PICK v \in Acc!Enabled : TRUE
    BY <1>1 DEF TablesRight, Acc!SomeoneEnabled
  <2>2. \E w \in Acc!Enabled : w # u
    <3>1. CASE users[u].st = "on"
      <4>1. u \in Acc!Enabled /\ Cardinality(Acc!Enabled) > 1
        BY AccountCounts, <3>1 DEF Acc!Enabled, Acc!DeleteUser
      <4> QED BY <4>1, EnabledFinite, AnotherThere
    <3>2. CASE users[u].st # "on"
      BY <2>1, <3>2 DEF Acc!Enabled
    <3> QED BY <3>1, <3>2
  <2> QED BY <1>4, <2>2 DEF Acc!Enabled
<1>9. TablesRight'
  BY AccountCounts, <1>1, <1>4, <1>5, <1>6, <1>7, <1>8 DEF TablesRight, Acc!DeleteUser, Acc!Passwords
<1> QED BY AccountCounts, <1>1, <1>9, AdminRight DEF Acc!DeleteUser

LEMMA RevokeRight ==
    ASSUME Acc!AccInv, Acc!Revoke
    PROVE  Acc!AccInv'
<1>1. FlowsRight /\ TablesRight /\ conn = Acc!Nobody
  BY TwoHalves DEF Acc!Revoke
<1>2. PICK S : sessions' = Acc!Revoked(S)
  BY DEF Acc!Revoke
<1>3. UNCHANGED <<users, chosen, lastSet, booted>>
  BY DEF Acc!Revoke, Acc!ghosts
<1>4. sessions' \in [SessionIds -> Acc!Session \cup {Acc!NoSession}]
      /\ \A t \in SessionIds : sessions'[t] # Acc!NoSession => sessions'[t] = sessions[t]
  BY <1>1, <1>2 DEF TablesRight, Acc!Revoked
<1>5. Acc!SessionsCurrent'
  BY <1>1, <1>3, <1>4 DEF TablesRight, Acc!SessionsCurrent
<1>6. Acc!Present' = Acc!Present /\ Acc!Enabled' = Acc!Enabled
  BY <1>3 DEF Acc!Present, Acc!Enabled
<1>7. TablesRight'
  BY <1>1, <1>3, <1>4, <1>5, <1>6 DEF TablesRight, Acc!SomeoneEnabled, Acc!PasswordForward, Acc!Passwords, Acc!Revoke
<1> QED BY <1>1, <1>7, AdminRight DEF Acc!Revoke, Acc!ghosts

-----------------------------------------------------------------------------
LEMMA AccountsBegin == Acc!AccInit => Acc!AccInv
<1> SUFFICES ASSUME Acc!AccInit PROVE Acc!AccInv
  OBVIOUS
<1>1. PwLimit \in Nat /\ MaxActive \in Nat /\ MaxBacklog \in Nat /\ Acc!Nobody \notin Flows
  BY AccountCounts, AccountAssumed DEF Acc!AccountAssumption, Acc!Nobody
<1>2. Acc!New \in Acc!UserRow /\ Acc!New.st = "new" /\ Acc!New.pw = 0
  BY <1>1 DEF Acc!New, Acc!UserRow, Acc!Passwords
<1>3. users \in [Users -> Acc!UserRow] /\ \A u \in Users : users[u].pw = 0
  <2>1. CASE users = [u \in Users |-> Acc!New]
    BY <1>2, <2>1
  <2>2. CASE \E v \in Users : users = [u \in Users |-> IF u = v THEN [Acc!New EXCEPT !.st = "on", !.old = TRUE] ELSE Acc!New]
    <3>1. [Acc!New EXCEPT !.st = "on", !.old = TRUE] \in Acc!UserRow /\ [Acc!New EXCEPT !.st = "on", !.old = TRUE].pw = 0
      BY <1>2 DEF Acc!UserRow
    <3>2. PICK v \in Users : users = [u \in Users |-> IF u = v THEN [Acc!New EXCEPT !.st = "on", !.old = TRUE] ELSE Acc!New]
      BY <2>2
    <3> HIDE DEF Acc!New
    <3> QED BY <1>2, <3>1, <3>2
  <2> QED BY <2>1, <2>2 DEF Acc!AccInit
<1>4. TablesRight
  BY <1>1, <1>3 DEF Acc!AccInit, TablesRight, Acc!SomeoneEnabled, Acc!Enabled, Acc!PasswordForward, Acc!Present, Acc!SessionsCurrent, Acc!Passwords
<1>5. \A f \in Flows : flow[f] = Acc!AtEase
  BY DEF Acc!AccInit
<1>6. Acc!GateExact
  <2>1. {f \in Flows : flow[f] # Acc!AtEase /\ flow[f].holds} = {} /\ {f \in Flows : flow[f] # Acc!AtEase /\ flow[f].holds /\ flow[f].busy} = {}
    BY <1>5
  <2> QED BY AccountCounts, <2>1, FS_EmptySet DEF Acc!GateExact, Acc!AccInit
<1>7. FlowsRight
  BY <1>1, <1>5, <1>6, AtEaseIsOut DEF Acc!AccInit, FlowsRight
<1> QED BY <1>4, <1>7, TwoHalves

LEMMA AccountsGo == Acc!AccInv /\ (Acc!AccNext \/ UNCHANGED Acc!accVars) => Acc!AccInv'
<1> SUFFICES ASSUME Acc!AccInv, Acc!AccNext \/ UNCHANGED Acc!accVars PROVE Acc!AccInv'
  OBVIOUS
<1>1. CASE UNCHANGED Acc!accVars
  BY <1>1 DEF Acc!accVars, Acc!AccInv, Acc!AccTypeOK, Acc!SomeoneEnabled, Acc!Enabled, Acc!BootstrapAlone, Acc!PasswordForward, Acc!Present,
              Acc!SessionsCurrent, Acc!GateExact
<1>2. ASSUME NEW f \in Flows, Acc!Step(f) PROVE Acc!AccInv'
  BY <1>2, ReserveWorkRight, ReadRowRight, TakeSlotRight, ComputedRight, StampRight, OpenRight, WriteRight,
     BeginTxRight, InsertRight DEF Acc!Step
<1> QED BY <1>1, <1>2, CancelledRight, BeginRight, SetUserEnabledRight, DeleteUserRight, RevokeRight DEF Acc!AccNext


-----------------------------------------------------------------------------
(* The login protector.                                                    *)

clock == s1
attempts == s2
hosts == s3
trying == s4
USE DEF clock, attempts, hosts, trying

\* LoginLimit counts sets as FiniteSets does.
LEMMA LimitCounts ==
    (\A S : Limit!Cardinality(S) = Cardinality(S)) /\ \A S : Limit!IsFiniteSet(S) <=> IsFiniteSet(S)
<1>1. \A S : Limit!Cardinality(S) = Cardinality(S)
  BY DEF Limit!Cardinality, Cardinality
<1>2. \A S : Limit!IsFiniteSet(S) <=> IsFiniteSet(S)
  BY DEF Limit!IsFiniteSet, IsFiniteSet
<1> QED BY <1>1, <1>2

LEMMA LimitBounds ==
    /\ MaxItems \in Nat \ {0} /\ MaxHosts \in Nat \ {0} /\ Threshold \in Nat \ {0} /\ LockTime \in Nat
    /\ DelayAfter \in Nat \ {0} /\ HostTTL \in Nat /\ Day \in Nat /\ Horizon \in Nat
    /\ Limit!Most \in Nat /\ Limit!Most > DelayAfter /\ Limit!Most > Threshold
    /\ IsFiniteSet(Origins) /\ IsFiniteSet(Hosts) /\ HostOf \in [Origins -> Hosts]
  BY LimitCounts, LimitAssumed DEF Limit!LimitAssumption, Limit!Most

\* A count grows to what tells entries apart, and is never blank again.
LEMMA MoreIs ==
    ASSUME NEW e \in Limit!Entry \cup {Limit!Blank}
    PROVE  /\ Limit!More(e.fails) \in 1..Limit!Most /\ Limit!More(e.fails) >= e.fails
           /\ e.fails >= DelayAfter => Limit!More(e.fails) >= DelayAfter
<1>1. e.fails \in 0..Limit!Most
  BY LimitBounds DEF Limit!Entry, Limit!Blank
<1> QED BY <1>1, LimitBounds DEF Limit!More

LEMMA EntryIsNotBlank == Limit!Blank \notin Limit!Entry
  BY DEF Limit!Entry, Limit!Blank

\* One element more is at most one more to count.
LEMMA AtMostOneMore ==
    ASSUME NEW S, IsFiniteSet(S), NEW x
    PROVE  /\ IsFiniteSet(S \cup {x}) /\ Cardinality(S \cup {x}) \in Nat /\ Cardinality(S) \in Nat
           /\ Cardinality(S \cup {x}) <= Cardinality(S) + 1
<1>1. Cardinality(S) \in Nat
  BY FS_CardinalityType
<1>2. CASE x \in S
  <2>1. S \cup {x} = S
    BY <1>2
  <2>2. \A T : T = S => IsFiniteSet(T) /\ Cardinality(T) = Cardinality(S)
    OBVIOUS
  <2>3. IsFiniteSet(S \cup {x}) /\ Cardinality(S \cup {x}) = Cardinality(S)
    BY <2>1, <2>2
  <2> QED BY <1>1, <2>3
<1>3. CASE x \notin S
  <2>1. IsFiniteSet(S \cup {x}) /\ Cardinality(S \cup {x}) = Cardinality(S) + 1
    BY <1>3, FS_AddElement
  <2> QED BY <1>1, <2>1
<1> QED BY <1>2, <1>3

\* A table with fewer entries than its limit, or one that has the key, has room.
LEMMA RoomKept ==
    ASSUME NEW K, IsFiniteSet(K), NEW t \in [K -> Limit!Entry \cup {Limit!Blank}], NEW k \in K, NEW limit \in Nat \ {0}, NEW stay,
           Cardinality(Limit!Entries(t)) <= limit, NEW r \in Limit!RoomIn(t, k, limit, stay),
           NEW until \in 0..(Horizon + LockTime), clock \in 0..Horizon
    PROVE  /\ r \in [K -> Limit!Entry \cup {Limit!Blank}]
           /\ Limit!Counted(r, k, until) \in [K -> Limit!Entry \cup {Limit!Blank}]
           /\ Cardinality(Limit!Entries(Limit!Counted(r, k, until))) <= limit
           /\ \A j \in K : j # k /\ (j \in stay \/ t[j] = Limit!Blank) => Limit!Counted(r, k, until)[j] = t[j]
           /\ r[k] = t[k]
<1>1. PICK e : \/ r = t /\ (t[k] # Limit!Blank \/ Cardinality(Limit!Entries(t)) < limit)
               \/ r = [t EXCEPT ![e] = Limit!Blank] /\ e \in Limit!Entries(t) \ stay /\ t[k] = Limit!Blank
  BY LimitCounts DEF Limit!RoomIn
<1> DEFINE E == Limit!Entries(t)
           c == Limit!Counted(r, k, until)
<1>2. E = {j \in K : t[j] # Limit!Blank} /\ IsFiniteSet(E) /\ Cardinality(E) \in Nat
  BY FS_Subset, FS_CardinalityType DEF Limit!Entries
<1>3. r \in [K -> Limit!Entry \cup {Limit!Blank}] /\ r[k] = t[k] /\ \A j \in K : j \in stay \/ t[j] = Limit!Blank => r[j] = t[j]
  BY <1>1 DEF Limit!Entries
<1>4. [fails |-> Limit!More(r[k].fails), at |-> clock, until |-> until] \in Limit!Entry
  <2>1. Limit!More(r[k].fails) \in 1..Limit!Most
    BY <1>3, MoreIs
  <2> QED BY <2>1 DEF Limit!Entry
<1>5. c \in [K -> Limit!Entry \cup {Limit!Blank}] /\ c[k] \in Limit!Entry /\ \A j \in K : j # k => c[j] = r[j]
  BY <1>3, <1>4 DEF Limit!Counted
<1> HIDE DEF c
<1>6. Limit!Entries(c) \subseteq Limit!Entries(r) \cup {k} /\ Limit!Entries(r) \subseteq E
  BY <1>1, <1>3, <1>5 DEF Limit!Entries
<1>7. Cardinality(Limit!Entries(c)) <= limit
  <2>1. CASE t[k] # Limit!Blank /\ r = t
    <3>1. Limit!Entries(c) \subseteq E
      BY <1>2, <1>6, <2>1
    <3> QED BY <1>2, <1>5, <3>1, FS_Subset, FS_CardinalityType
  <2>2. CASE Cardinality(E) < limit
    <3>1. Limit!Entries(c) \subseteq E \cup {k}
      BY <1>6
    <3>2. IsFiniteSet(E \cup {k}) /\ Cardinality(E \cup {k}) <= Cardinality(E) + 1 /\ Cardinality(E \cup {k}) \in Nat
      BY <1>2, AtMostOneMore
    <3>3. Cardinality(Limit!Entries(c)) <= Cardinality(E \cup {k}) /\ Cardinality(Limit!Entries(c)) \in Nat
      BY <3>1, <3>2, FS_Subset, FS_CardinalityType
    <3> QED BY <1>2, <2>2, <3>2, <3>3
  <2>3. CASE r = [t EXCEPT ![e] = Limit!Blank] /\ e \in E \ stay /\ t[k] = Limit!Blank
    <3>1. Limit!Entries(r) = E \ {e}
      BY <1>2, <1>3, <2>3 DEF Limit!Entries
    <3>2. IsFiniteSet(E \ {e}) /\ Cardinality(E \ {e}) = Cardinality(E) - 1
      BY <1>2, <2>3, FS_RemoveElement
    <3>3. /\ IsFiniteSet((E \ {e}) \cup {k}) /\ Cardinality((E \ {e}) \cup {k}) <= Cardinality(E \ {e}) + 1
          /\ Cardinality((E \ {e}) \cup {k}) \in Nat
      BY <3>2, AtMostOneMore
    <3>4. Cardinality(Limit!Entries(c)) <= Cardinality((E \ {e}) \cup {k}) /\ Cardinality(Limit!Entries(c)) \in Nat
      BY <1>6, <3>1, <3>3, FS_Subset, FS_CardinalityType
    <3> QED BY <1>2, <3>2, <3>3, <3>4
  <2> QED BY <1>1, <2>1, <2>2, <2>3
<1> QED BY <1>3, <1>5, <1>7 DEF c

\* What has been pruned is no more than there was, and of the right kind.
LEMMA PrunedRight ==
    ASSUME Limit!LimitInv
    PROVE  /\ Limit!Pruned \in [Origins -> Limit!Entry \cup {Limit!Blank}] /\ Limit!PrunedHosts \in [Hosts -> Limit!Entry \cup {Limit!Blank}]
           /\ Cardinality(Limit!Entries(Limit!Pruned)) <= MaxItems /\ Cardinality(Limit!Entries(Limit!PrunedHosts)) <= MaxHosts
<1>1. attempts \in [Origins -> Limit!Entry \cup {Limit!Blank}] /\ hosts \in [Hosts -> Limit!Entry \cup {Limit!Blank}]
  BY DEF Limit!LimitInv, Limit!LimitTypeOK
<1>2. Limit!Pruned \in [Origins -> Limit!Entry \cup {Limit!Blank}] /\ Limit!PrunedHosts \in [Hosts -> Limit!Entry \cup {Limit!Blank}]
  BY <1>1 DEF Limit!Pruned, Limit!PrunedHosts
<1>3. /\ Limit!Entries(Limit!Pruned) \subseteq Limit!Entries(attempts) /\ Limit!Entries(Limit!PrunedHosts) \subseteq Limit!Entries(hosts)
      /\ Limit!Entries(attempts) \subseteq Origins /\ Limit!Entries(hosts) \subseteq Hosts
  BY <1>1 DEF Limit!Entries, Limit!Pruned, Limit!PrunedHosts
<1>4. IsFiniteSet(Limit!Entries(attempts)) /\ IsFiniteSet(Limit!Entries(hosts))
  BY <1>3, LimitBounds, FS_Subset
<1>5. /\ Cardinality(Limit!Entries(Limit!Pruned)) <= Cardinality(Limit!Entries(attempts)) /\ Cardinality(Limit!Entries(Limit!Pruned)) \in Nat
      /\ Cardinality(Limit!Entries(Limit!PrunedHosts)) <= Cardinality(Limit!Entries(hosts)) /\ Cardinality(Limit!Entries(Limit!PrunedHosts)) \in Nat
      /\ Cardinality(Limit!Entries(attempts)) \in Nat /\ Cardinality(Limit!Entries(hosts)) \in Nat
  BY <1>3, <1>4, FS_Subset, FS_CardinalityType
<1>6. Cardinality(Limit!Entries(attempts)) <= MaxItems /\ Cardinality(Limit!Entries(hosts)) <= MaxHosts
  BY LimitCounts DEF Limit!LimitInv, Limit!TablesBounded
<1> QED BY <1>2, <1>5, <1>6, LimitBounds

\* What a failure does to both tables.
LEMMA FailureRight ==
    ASSUME Limit!LimitInv, NEW o \in Origins, Limit!Failure(o)
    PROVE  /\ Limit!LimitInv'
           /\ \A p \in Origins : p # o /\ Limit!Lasting(Limit!Pruned[p]) => attempts'[p] = Limit!Pruned[p]
           /\ \A h \in Hosts : Limit!Slow(Limit!PrunedHosts[h]) => Limit!Slow(hosts'[h])
<1>1. Limit!LimitTypeOK /\ clock' = clock /\ clock \in 0..Horizon /\ trying' \subseteq Origins
  BY DEF Limit!LimitInv, Limit!LimitTypeOK, Limit!Failure
<1>2. /\ Limit!Pruned \in [Origins -> Limit!Entry \cup {Limit!Blank}] /\ Limit!PrunedHosts \in [Hosts -> Limit!Entry \cup {Limit!Blank}]
      /\ Cardinality(Limit!Entries(Limit!Pruned)) <= MaxItems /\ Cardinality(Limit!Entries(Limit!PrunedHosts)) <= MaxHosts
  BY PrunedRight
<1> DEFINE a == Limit!Pruned
           h == Limit!PrunedHosts
           host == HostOf[o]
           stay == {e \in Origins : Limit!Lasting(a[e])}
           hostStay == {e \in Hosts : Limit!Slow(h[e])}
<1>3. /\ attempts' \in [Origins -> Limit!Entry \cup {Limit!Blank}] /\ Cardinality(Limit!Entries(attempts')) <= MaxItems
      /\ \A p \in Origins : p # o /\ p \in stay => attempts'[p] = a[p]
  <2>1. CASE attempts' = a
    BY <1>2, <2>1
  <2>2. CASE attempts' # a
    <3>1. PICK t \in Limit!RoomIn(a, o, MaxItems, stay) :
             attempts' = Limit!Counted(t, o, IF Limit!More(t[o].fails) >= Threshold THEN clock + LockTime ELSE t[o].until)
      BY <2>2 DEF Limit!Failure
    <3>2. t \in [Origins -> Limit!Entry \cup {Limit!Blank}]
      <4>1. 0 \in 0..(Horizon + LockTime)
        BY LimitBounds
      <4> QED BY <1>1, <1>2, <3>1, <4>1, LimitBounds, RoomKept
    <3>3. (IF Limit!More(t[o].fails) >= Threshold THEN clock + LockTime ELSE t[o].until) \in 0..(Horizon + LockTime)
      <4>1. t[o].until \in 0..(Horizon + LockTime)
        BY <3>2, LimitBounds DEF Limit!Entry, Limit!Blank
      <4>2. clock + LockTime \in 0..(Horizon + LockTime)
        BY <1>1, LimitBounds
      <4> QED BY <4>1, <4>2
    <3> HIDE DEF stay, a
    <3> QED BY <1>1, <1>2, <3>1, <3>3, LimitBounds, RoomKept DEF a
  <2> QED BY <2>1, <2>2
<1>4. /\ hosts' \in [Hosts -> Limit!Entry \cup {Limit!Blank}] /\ Cardinality(Limit!Entries(hosts')) <= MaxHosts
      /\ \A k \in Hosts : Limit!Slow(h[k]) => Limit!Slow(hosts'[k])
  <2>1. CASE hosts' = h
    BY <1>2, <2>1
  <2>2. CASE hosts' # h
    <3>1. PICK t \in Limit!RoomIn(h, host, MaxHosts, hostStay) : hosts' = Limit!Counted(t, host, 0)
      BY <2>2 DEF Limit!Failure
    <3>2. host \in Hosts /\ 0 \in 0..(Horizon + LockTime)
      BY LimitBounds
    <3> HIDE DEF h, host
    <3>3. /\ hosts' \in [Hosts -> Limit!Entry \cup {Limit!Blank}] /\ Cardinality(Limit!Entries(hosts')) <= MaxHosts
          /\ \A j \in Hosts : j # host /\ j \in hostStay => hosts'[j] = h[j]
          /\ t \in [Hosts -> Limit!Entry \cup {Limit!Blank}] /\ t[host] = h[host]
      BY <1>1, <1>2, <3>1, <3>2, LimitBounds, RoomKept DEF h
    <3>4. hosts'[host].fails = Limit!More(h[host].fails)
      BY <3>1, <3>2, <3>3 DEF Limit!Counted
    <3>5. Limit!Slow(h[host]) => Limit!Slow(hosts'[host])
      BY <1>2, <3>2, <3>4, MoreIs DEF Limit!Slow, h
    <3> QED BY <3>3, <3>5
  <2> QED BY <2>1, <2>2
<1>5. Limit!LimitTypeOK' /\ Limit!TablesBounded'
  BY LimitCounts, <1>1, <1>3, <1>4 DEF Limit!LimitTypeOK, Limit!TablesBounded, Limit!Entries
<1> QED BY <1>3, <1>4, <1>5 DEF Limit!LimitInv

LEMMA BlankLasts == ASSUME clock \in 0..Horizon PROVE ~Limit!Lasting(Limit!Blank)
  BY LimitBounds DEF Limit!Lasting, Limit!Blank

LEMMA BeforeRight ==
    ASSUME Limit!LimitInv, NEW o \in Origins, Limit!Before(o)
    PROVE  Limit!LimitInv'
<1>1. clock' = clock /\ attempts' = Limit!Pruned /\ hosts' = Limit!PrunedHosts /\ trying' \subseteq Origins /\ clock \in 0..Horizon
  BY DEF Limit!LimitInv, Limit!LimitTypeOK, Limit!Before
<1>2. /\ Limit!Pruned \in [Origins -> Limit!Entry \cup {Limit!Blank}] /\ Limit!PrunedHosts \in [Hosts -> Limit!Entry \cup {Limit!Blank}]
      /\ Cardinality(Limit!Entries(Limit!Pruned)) <= MaxItems /\ Cardinality(Limit!Entries(Limit!PrunedHosts)) <= MaxHosts
  BY PrunedRight
<1> QED BY LimitCounts, <1>1, <1>2 DEF Limit!LimitInv, Limit!LimitTypeOK, Limit!TablesBounded, Limit!Entries

LEMMA SuccessRight ==
    ASSUME Limit!LimitInv, NEW o \in Origins, Limit!Success(o)
    PROVE  Limit!LimitInv'
<1>1. Limit!LimitTypeOK /\ Limit!TablesBounded
  BY DEF Limit!LimitInv
<1>2. /\ attempts' = [attempts EXCEPT ![o] = Limit!Blank] /\ UNCHANGED <<clock, hosts>> /\ trying' \subseteq Origins
  BY <1>1 DEF Limit!Success, Limit!LimitTypeOK
<1>3. Limit!Entries(attempts') \subseteq Limit!Entries(attempts) /\ Limit!Entries(attempts) \subseteq Origins
  BY <1>1, <1>2 DEF Limit!LimitTypeOK, Limit!Entries
<1>4. Cardinality(Limit!Entries(attempts')) <= Cardinality(Limit!Entries(attempts)) /\ Cardinality(Limit!Entries(attempts')) \in Nat
      /\ Cardinality(Limit!Entries(attempts)) \in Nat
  <2>1. IsFiniteSet(Limit!Entries(attempts))
    BY <1>3, LimitBounds, FS_Subset
  <2> QED BY <1>3, <2>1, FS_Subset, FS_CardinalityType
<1>5. Cardinality(Limit!Entries(attempts')) <= MaxItems /\ Cardinality(Limit!Entries(hosts')) <= MaxHosts
  BY LimitCounts, <1>1, <1>2, <1>4, LimitBounds DEF Limit!TablesBounded
<1>6. Limit!LimitTypeOK'
  BY <1>1, <1>2 DEF Limit!LimitTypeOK
<1> QED BY LimitCounts, <1>5, <1>6 DEF Limit!LimitInv, Limit!TablesBounded, Limit!Entries

LEMMA LimitBegin == Limit!LimitInit => Limit!LimitInv
<1> SUFFICES ASSUME Limit!LimitInit PROVE Limit!LimitInv
  OBVIOUS
<1>1. Limit!Entries(attempts) = {} /\ Limit!Entries(hosts) = {}
  BY DEF Limit!LimitInit, Limit!Entries
<1>2. Limit!TablesBounded
  BY LimitCounts, <1>1, FS_EmptySet, LimitBounds DEF Limit!TablesBounded
<1>3. Limit!LimitTypeOK
  BY LimitBounds DEF Limit!LimitInit, Limit!LimitTypeOK
<1> QED BY <1>2, <1>3 DEF Limit!LimitInv

LEMMA LimitGo == Limit!LimitInv /\ (Limit!LimitNext \/ UNCHANGED Limit!limitVars) => Limit!LimitInv'
<1> SUFFICES ASSUME Limit!LimitInv, Limit!LimitNext \/ UNCHANGED Limit!limitVars PROVE Limit!LimitInv'
  OBVIOUS
<1>1. CASE UNCHANGED Limit!limitVars
  BY LimitCounts, <1>1 DEF Limit!limitVars, Limit!LimitInv, Limit!LimitTypeOK, Limit!TablesBounded, Limit!Entries
<1>2. CASE Limit!Wait
  BY LimitCounts, <1>2, LimitBounds DEF Limit!Wait, Limit!LimitInv, Limit!LimitTypeOK, Limit!TablesBounded, Limit!Entries
<1> QED BY <1>1, <1>2, BeforeRight, FailureRight, SuccessRight DEF Limit!LimitNext

\* Neither a lockout nor an address's delay is ended by another's attempt.
LEMMA LimitKeeps ==
    ASSUME Limit!LimitInv, Limit!LimitNext \/ UNCHANGED Limit!limitVars
    PROVE  Limit!LockHolds /\ Limit!SlowHolds
<1>1. /\ attempts \in [Origins -> Limit!Entry \cup {Limit!Blank}] /\ hosts \in [Hosts -> Limit!Entry \cup {Limit!Blank}] /\ clock \in 0..Horizon
  BY DEF Limit!LimitInv, Limit!LimitTypeOK
<1>2. \A p \in Origins : attempts[p].until > clock => Limit!Lasting(Limit!Pruned[p]) /\ Limit!Pruned[p] = attempts[p]
  BY <1>1 DEF Limit!Lasting, Limit!Pruned
<1>3. \A h \in Hosts : hosts[h].fails >= DelayAfter /\ clock - hosts[h].at <= HostTTL => Limit!PrunedHosts[h] = hosts[h] /\ Limit!Slow(Limit!PrunedHosts[h])
  <2> SUFFICES ASSUME NEW h \in Hosts, hosts[h].fails >= DelayAfter, clock - hosts[h].at <= HostTTL
               PROVE  Limit!PrunedHosts[h] = hosts[h] /\ Limit!Slow(Limit!PrunedHosts[h])
    OBVIOUS
  <2>1. hosts[h].at \in Nat
    BY <1>1, LimitBounds DEF Limit!Entry, Limit!Blank
  <2> QED BY <1>1, <2>1, LimitBounds DEF Limit!PrunedHosts, Limit!Slow
<1>4. \A p \in Origins : attempts[p].until \in Nat
  BY <1>1, LimitBounds DEF Limit!Entry, Limit!Blank
<1>5. CASE UNCHANGED Limit!limitVars \/ Limit!Wait
  BY <1>1, <1>4, <1>5 DEF Limit!limitVars, Limit!Wait, Limit!LockHolds, Limit!SlowHolds
<1>6. ASSUME NEW o \in Origins, Limit!Before(o) PROVE Limit!LockHolds /\ Limit!SlowHolds
  BY <1>1, <1>2, <1>3, <1>4, <1>6 DEF Limit!Before, Limit!LockHolds, Limit!SlowHolds, Limit!Slow
<1>7. ASSUME NEW o \in Origins, Limit!Failure(o) PROVE Limit!LockHolds /\ Limit!SlowHolds
  <2>1. /\ \A p \in Origins : p # o /\ Limit!Lasting(Limit!Pruned[p]) => attempts'[p] = Limit!Pruned[p]
        /\ \A h \in Hosts : Limit!Slow(Limit!PrunedHosts[h]) => Limit!Slow(hosts'[h])
    BY <1>7, FailureRight
  <2>2. o \in trying /\ o \notin trying'
    BY <1>7 DEF Limit!Failure
  <2>3. Limit!LockHolds
    BY <1>2, <1>4, <2>1, <2>2 DEF Limit!LockHolds
  <2>4. Limit!SlowHolds
    BY <1>3, <2>1 DEF Limit!SlowHolds, Limit!Slow
  <2> QED BY <2>3, <2>4
<1>8. ASSUME NEW o \in Origins, Limit!Success(o) PROVE Limit!LockHolds /\ Limit!SlowHolds
  <2>1. \A p \in Origins : p # o => attempts'[p] = attempts[p]
    BY <1>1, <1>8 DEF Limit!Success
  <2>2. o \in trying /\ o \notin trying' /\ hosts' = hosts
    BY <1>8 DEF Limit!Success
  <2> QED BY <1>4, <2>1, <2>2 DEF Limit!LockHolds, Limit!SlowHolds
<1> QED BY <1>5, <1>6, <1>7, <1>8 DEF Limit!LimitNext
=============================================================================
