------------------------------ MODULE Discovery ------------------------------
(***************************************************************************)
(* Finding GGUF files (models/discovery.go), the index of what they hold   *)
(* (gguf_index.go), and the reconciler that fills what models do not know of  *)
(* their files (metadata.go, logical_artifact.go).  Files are replaced,    *)
(* scans run together, and each works on the index it loaded.              *)
(***************************************************************************)
EXTENDS Integers, FiniteSets

CONSTANTS
    GGUFs,      \* files
    Sets, Primary, \* the split sets, singletons included, and each one's first file
    Owners,     \* model rows
    Scanners,   \* AvailableGGUFs requests
    Missing, ChangeLimit

Kinds == {"main", "helper", "bad"}  \* a model, a projector or draft, an unreadable file
File  == [fp : Nat, kind : Kinds]
Row   == [path : GGUFs, ctx : Int, size : SUBSET Nat]

DiscoveryAssumption ==
    /\ Primary \in [Sets -> GGUFs] /\ (\A s \in Sets : Primary[s] \in s) /\ UNION Sets = GGUFs
    /\ ChangeLimit \in Nat \ {0} /\ Missing \notin Nat /\ Missing \notin File /\ Missing \notin Row

SetOf(f) == CHOOSE s \in Sets : f \in s

VARIABLES
    gguf,       \* the files: a fingerprint of size and time, new with every change, and a kind
    index,      \* gguf_index: fingerprint and kind
    owner,      \* models: the primary file, the context (0: unknown) and the size of each
    scan,       \* AvailableGGUFs
    refresh,    \* RunMetadataReconciler
    changes     \* changes so far; the next fingerprint

discVars == <<gguf, index, owner, scan, refresh, changes>>

NoIndex == [f \in GGUFs |-> Missing]
NoScan  == [pc |-> "idle", used |-> {}, idx |-> NoIndex, walk |-> {}, seen |-> NoIndex, todo |-> {}, read |-> Missing, offer |-> {}, quiet |-> TRUE]
NoPass  == [pc |-> "idle", todo |-> {}, m |-> Missing, size |-> {}, fp |-> 0, read |-> Missing]

\* The size of a model's whole artifact stands for the fingerprints it adds up.
WholeSize(f) == {gguf[g].fp : g \in SetOf(f)}
Whole(f) == \A g \in SetOf(f) : gguf[g] # Missing

\* The files that are there at the start have fingerprint 1.
DiscInit ==
    /\ \E k \in Kinds : gguf = [f \in GGUFs |-> [fp |-> 1, kind |-> k]]
    /\ index = NoIndex /\ owner = [m \in Owners |-> Missing]
    /\ scan = [q \in Scanners |-> NoScan] /\ refresh = NoPass /\ changes = 1

-----------------------------------------------------------------------------
(* Files and models change.                                                *)

Changed == changes < ChangeLimit /\ changes' = changes + 1 /\ scan' = [q \in Scanners |-> [scan[q] EXCEPT !.quiet = FALSE]]

Put(f, k) == Changed /\ gguf' = [gguf EXCEPT ![f] = [fp |-> changes', kind |-> k]] /\ UNCHANGED <<index, owner, refresh>>
Remove(f) == Changed /\ gguf[f] # Missing /\ gguf' = [gguf EXCEPT ![f] = Missing] /\ UNCHANGED <<index, owner, refresh>>

\* Create, also of a file still to be downloaded, and Update with a context.
AddModel(m, f) ==
    /\ Changed /\ owner[m] = Missing /\ \A n \in Owners : owner[n] # Missing => owner[n].path # f
    /\ owner' = [owner EXCEPT ![m] = [path |-> f, ctx |-> 0, size |-> {}]] /\ UNCHANGED <<gguf, index, refresh>>
SetContext(m) ==
    /\ Changed /\ owner[m] # Missing /\ owner' = [owner EXCEPT ![m].ctx = -changes'] /\ UNCHANGED <<gguf, index, refresh>>

-----------------------------------------------------------------------------
(* The index, as each scan uses it.                                        *)

\* cachedGGUFSummary answers from the loaded index when size and time agree.
Cached(idx, f, fp) == idx[f] # Missing /\ idx[f].fp = fp

\* ReadSummary of what is there now.
KindNow(f) == IF gguf[f] = Missing THEN "bad" ELSE gguf[f].kind

\* storeGGUFIndex: under the fingerprint the file had before it was read.
Entry(f, fp, k) == [fp |-> fp, kind |-> k]

Store(f, fp, k) == index' = [index EXCEPT ![f] = Entry(f, fp, k)]

-----------------------------------------------------------------------------
(* AvailableGGUFs.                                                         *)

\* The models' files, then the index.
BeginScan(q) ==
    /\ scan[q].pc = "idle"
    /\ scan' = [scan EXCEPT ![q] = [NoScan EXCEPT !.pc = "load", !.used = {owner[m].path : m \in {n \in Owners : owner[n] # Missing}}]]
    /\ UNCHANGED <<gguf, index, owner, refresh, changes>>

LoadIndex(q) ==
    /\ scan[q].pc = "load" /\ scan' = [scan EXCEPT ![q].pc = "walk", ![q].idx = index, ![q].walk = GGUFs]
    /\ UNCHANGED <<gguf, index, owner, refresh, changes>>

See(q) ==
    /\ scan[q].pc = "walk"
    /\ \E f \in scan[q].walk :
         scan' = [scan EXCEPT ![q].walk = @ \ {f}, ![q].seen[f] = IF gguf[f] = Missing THEN Missing ELSE gguf[f].fp]
    /\ UNCHANGED <<gguf, index, owner, refresh, changes>>

\* removeMissingGGUFIndex; then one file stands for each complete set.
DropMissing(q) ==
    /\ scan[q].pc = "walk" /\ scan[q].walk = {}
    /\ LET gone == {f \in GGUFs : scan[q].idx[f] # Missing /\ scan[q].seen[f] = Missing}
           whole == {s \in Sets : \A f \in s : scan[q].seen[f] # Missing}
       IN /\ index' = [f \in GGUFs |-> IF f \in gone THEN Missing ELSE index[f]]
          /\ scan' = [scan EXCEPT ![q].pc = "classify", ![q].idx = [f \in GGUFs |-> IF f \in gone THEN Missing ELSE @[f]],
                           ![q].todo = {Primary[s] : s \in whole} \ scan[q].used]
    /\ UNCHANGED <<gguf, owner, refresh, changes>>

\* Helpers are left out; what cannot be read is offered with a warning.
Offer(q, f, k) == [scan EXCEPT ![q].todo = @ \ {f}, ![q].read = Missing, ![q].idx[f] = Entry(f, scan[q].seen[f], k),
                               ![q].offer = IF k = "helper" THEN @ ELSE @ \cup {<<f, k>>}]

Classify(q) ==
    /\ scan[q].pc = "classify" /\ scan[q].read = Missing
    /\ \E f \in scan[q].todo :
         scan' = IF Cached(scan[q].idx, f, scan[q].seen[f])
                 THEN [scan EXCEPT ![q].todo = @ \ {f}, ![q].offer = IF scan[q].idx[f].kind = "helper" THEN @ ELSE @ \cup {<<f, scan[q].idx[f].kind>>}]
                 ELSE [scan EXCEPT ![q].read = <<f, KindNow(f)>>]
    /\ UNCHANGED <<gguf, index, owner, refresh, changes>>

StoreRead(q) ==
    /\ scan[q].read # Missing
    /\ LET f == scan[q].read[1]  k == scan[q].read[2] IN Store(f, scan[q].seen[f], k) /\ scan' = Offer(q, f, k)
    /\ UNCHANGED <<gguf, owner, refresh, changes>>

AnswerScan(q) ==
    /\ scan[q].pc = "classify" /\ scan[q].todo = {} /\ scan' = [scan EXCEPT ![q] = NoScan]
    /\ UNCHANGED <<gguf, index, owner, refresh, changes>>

-----------------------------------------------------------------------------
(* RefreshUnknownContexts, again and again.                                *)

BeginPass ==
    /\ refresh.pc = "idle"
    /\ refresh' = [NoPass EXCEPT !.pc = "next", !.todo = {m \in Owners : owner[m] # Missing}]
    /\ UNCHANGED <<gguf, index, owner, scan, changes>>

\* RefreshLogicalSize: every shard has to be there.
NextModel ==
    /\ refresh.pc = "next"
    /\ \/ \E m \in refresh.todo :
            refresh' = [refresh EXCEPT !.todo = @ \ {m}, !.m = m, !.pc = IF Whole(owner[m].path) THEN "size" ELSE "context",
                                       !.size = IF Whole(owner[m].path) THEN WholeSize(owner[m].path) ELSE {}]
       \/ refresh.todo = {} /\ refresh' = NoPass
    /\ UNCHANGED <<gguf, index, owner, scan, changes>>

WriteSize ==
    /\ refresh.pc = "size" /\ owner' = [owner EXCEPT ![refresh.m].size = refresh.size]
    /\ refresh' = [refresh EXCEPT !.pc = "context"]
    /\ UNCHANGED <<gguf, index, scan, changes>>

\* RefreshDetectedContext of a model whose context is unknown: the fingerprint,
\* the index, then a read when they disagree.
FindContext ==
    /\ refresh.pc = "context"
    /\ LET f == owner[refresh.m].path IN
       refresh' = IF owner[refresh.m].ctx # 0 \/ gguf[f] = Missing THEN [refresh EXCEPT !.pc = "next"]
                  ELSE [refresh EXCEPT !.pc = "read", !.fp = gguf[f].fp]
    /\ UNCHANGED <<gguf, index, owner, scan, changes>>

ReadContext ==
    /\ refresh.pc = "read"
    /\ LET f == owner[refresh.m].path IN
       IF Cached(index, f, refresh.fp) THEN refresh' = [refresh EXCEPT !.pc = "fill", !.read = index[f].kind] /\ UNCHANGED index
       ELSE refresh' = [refresh EXCEPT !.pc = "fill", !.read = KindNow(f)] /\ Store(f, refresh.fp, KindNow(f))
    /\ UNCHANGED <<gguf, owner, scan, changes>>

\* The context of a file stands for the fingerprint it was detected under.
FillContext ==
    /\ refresh.pc = "fill" /\ refresh' = [refresh EXCEPT !.pc = "next", !.read = Missing]
    /\ owner' = IF refresh.read = "main" /\ owner[refresh.m].ctx = 0 THEN [owner EXCEPT ![refresh.m].ctx = refresh.fp] ELSE owner
    /\ UNCHANGED <<gguf, index, scan, changes>>

RefreshStep == BeginPass \/ NextModel \/ WriteSize \/ FindContext \/ ReadContext \/ FillContext
DiscNext ==
    \/ \E f \in GGUFs : (\E k \in Kinds : Put(f, k)) \/ Remove(f) \/ \E m \in Owners : AddModel(m, f)
    \/ \E m \in Owners : SetContext(m)
    \/ \E q \in Scanners : BeginScan(q) \/ LoadIndex(q) \/ See(q) \/ DropMissing(q) \/ Classify(q) \/ StoreRead(q) \/ AnswerScan(q)
    \/ RefreshStep
DiscSpec == DiscInit /\ [][DiscNext]_discVars /\ WF_discVars(RefreshStep)

-----------------------------------------------------------------------------
(* Properties.                                                             *)

DiscTypeOK ==
    /\ \A f \in GGUFs : \A e \in {gguf[f], index[f]} \ {Missing} : e.fp \in 1..changes /\ e.kind \in Kinds
    /\ \A m \in Owners : owner[m] # Missing => owner[m].path \in GGUFs /\ owner[m].ctx \in (-changes)..changes
    /\ changes \in 0..ChangeLimit

\* However scans, the reconciler and changes of files interleave, an entry that
\* agrees with its file's size and time says what the file holds
\* (gguf_index.go:78-104).
IndexRight ==
    \A f \in GGUFs : index[f] # Missing /\ gguf[f] # Missing /\ index[f].fp = gguf[f].fp => index[f].kind = gguf[f].kind

\* A scan during which nothing changed offers just the whole artifacts of no
\* model that are not helpers, each for what it is, whatever was replaced
\* before and whoever else stored or removed entries (discovery.go:58-221).
OfferRight ==
    \A q \in Scanners : scan[q].pc = "classify" /\ scan[q].todo = {} /\ scan[q].quiet =>
        scan[q].offer = {<<Primary[s], gguf[Primary[s]].kind>> :
            s \in {t \in Sets : /\ \A f \in t : gguf[f] # Missing
                                /\ gguf[Primary[t]].kind # "helper"
                                /\ \A m \in Owners : owner[m] # Missing => owner[m].path # Primary[t]}}

\* A context given by hand is never replaced by a detected one (metadata.go:95-126).
GivenKept == \A m \in Owners : owner[m] # Missing /\ owner[m].ctx < 0 => owner'[m].ctx < 0

\* A model whose files stay readable does not stay without a context and its
\* whole size (metadata.go:128-160).
Filled ==
    \A m \in Owners : ~<>[](/\ owner[m] # Missing /\ Whole(owner[m].path) /\ gguf[owner[m].path].kind = "main"
                            /\ (owner[m].ctx = 0 \/ owner[m].size # WholeSize(owner[m].path)))

\* Why: a fingerprint is never given again, so what is known under an older one
\* is not taken for what the file holds now; and a scan to which nothing happened
\* has the models it began with, has seen the files it is past as they are, and
\* offers of them what it is done with.
Scanning == [pc : {"idle", "load", "walk", "classify"}, used : SUBSET GGUFs, idx : [GGUFs -> File \cup {Missing}],
             walk : SUBSET GGUFs, seen : [GGUFs -> Nat \cup {Missing}], todo : SUBSET GGUFs,
             read : (GGUFs \X Kinds) \cup {Missing}, offer : SUBSET (GGUFs \X Kinds), quiet : BOOLEAN]
Passing  == [pc : {"idle", "next", "size", "context", "read", "fill"}, todo : SUBSET Owners, m : Owners \cup {Missing},
             size : SUBSET Nat, fp : Nat, read : Kinds \cup {Missing}]

Taken    == {owner[m].path : m \in {n \in Owners : owner[n] # Missing}}
Standing == {Primary[s] : s \in {t \in Sets : \A f \in t : gguf[f] # Missing}}
Stamp(f) == IF gguf[f] = Missing THEN Missing ELSE gguf[f].fp
Tells(f, fp, k) == gguf[f] # Missing /\ gguf[f].fp = fp => gguf[f].kind = k
Right(idx) == \A f \in GGUFs : idx[f] # Missing => idx[f].fp \in 1..changes /\ Tells(f, idx[f].fp, idx[f].kind)

ReadRight(q) ==
    /\ Right(scan[q].idx) /\ \A f \in GGUFs : scan[q].seen[f] # Missing => scan[q].seen[f] \in 1..changes
    /\ \A f \in scan[q].todo : scan[q].pc = "classify" /\ scan[q].seen[f] # Missing
    /\ scan[q].read # Missing =>
          /\ scan[q].pc = "classify" /\ scan[q].read[1] \in scan[q].todo
          /\ Tells(scan[q].read[1], scan[q].seen[scan[q].read[1]], scan[q].read[2])

QuietRight(q) ==
    /\ scan[q].pc # "classify" => scan[q].offer = {}
    /\ scan[q].quiet =>
        /\ scan[q].pc # "idle" => scan[q].used = Taken
        /\ scan[q].pc = "walk" => \A f \in GGUFs \ scan[q].walk : scan[q].seen[f] = Stamp(f)
        /\ scan[q].pc = "classify" =>
              /\ \A f \in GGUFs : scan[q].seen[f] = Stamp(f)
              /\ scan[q].todo \subseteq Standing \ Taken
              /\ scan[q].offer = {<<f, gguf[f].kind>> :
                                      f \in {g \in Standing \ (Taken \cup scan[q].todo) : gguf[g].kind # "helper"}}

PassRight ==
    /\ refresh.pc \in {"read", "fill"} => refresh.fp \in 1..changes
    /\ refresh.pc \notin {"idle", "next"} => refresh.m \in Owners /\ owner[refresh.m] # Missing
    /\ \A m \in refresh.todo : owner[m] # Missing

DiscInv ==
    /\ DiscTypeOK /\ gguf \in [GGUFs -> File \cup {Missing}] /\ index \in [GGUFs -> File \cup {Missing}]
    /\ owner \in [Owners -> Row \cup {Missing}] /\ scan \in [Scanners -> Scanning] /\ refresh \in Passing
    /\ Right(index) /\ PassRight /\ \A q \in Scanners : ReadRight(q) /\ QuietRight(q)
=============================================================================
