------------------------------ MODULE Instances ------------------------------
(***************************************************************************)
(* Instance rows and their hot cache (instances/service.go, hot_cache.go). *)
(* Readers fill the cache from the table; a writer commits its row first   *)
(* and then tells the cache, in sections of their own.  An update reads the*)
(* row it starts from through the cache, and keeps from it the fields its  *)
(* request leaves out.  The import reconciler enables instances in the     *)
(* table alone, and tells the cache of the first time at most.             *)
(***************************************************************************)
EXTENDS Integers, FiniteSets

CONSTANTS
    Insts,      \* instance ids
    Slugs,      \* public names
    Values,     \* values of the fields an update may leave out
    Born,       \* what a create may ask for: enabled or not
    Readers, Writers,   \* requests
    Absent,     \* no row, no entry
    WriteLimit  \* bound on writes

Workers == Readers \cup Writers
Record  == [slug : Slugs, kept : Values, on : BOOLEAN]

InstancesAssumption ==
    Readers \cap Writers = {} /\ WriteLimit \in Nat /\ Absent \notin Record /\ Absent \notin Values
    /\ Born \subseteq BOOLEAN

VARIABLES
    row,        \* instances: the row of each id; Absent before and after
    byID,       \* hotCache.byID
    slugTo,     \* hotCache.slugToID
    gen,        \* hotCache.generation
    work,       \* where each request stands
    dropped,    \* ids deleted with their model, of which the cache hears nothing
    clashed,    \* ids that two writers were at together (history)
    writes,
    lapsed      \* ids enabled in the table since the cache last heard of them (history)

instVars == <<row, byID, slugTo, gen, work, dropped, clashed, writes, lapsed>>

Idle == [pc |-> "idle", op |-> "none", id |-> Absent, seen |-> Absent, gen |-> 0, next |-> Absent]

\* A write is settled once the cache has been told.
Busy(i) == {w \in Writers : work[w].pc # "idle" /\ work[w].id = i}
Goes(w, pc) == work' = [work EXCEPT ![w].pc = pc]
Done(w)  == work' = [work EXCEPT ![w] = Idle]

InstInit ==
    /\ row = [i \in Insts |-> Absent] /\ byID = [i \in Insts |-> Absent] /\ slugTo = [s \in Slugs |-> Absent]
    /\ gen = 0 /\ work = [w \in Workers |-> Idle] /\ dropped = {} /\ clashed = {} /\ writes = 0 /\ lapsed = {}

-----------------------------------------------------------------------------
(* The cache, each operator one section under its lock.                    *)

\* rememberHotLocked
RememberLocked(i, item) ==
    /\ byID' = [byID EXCEPT ![i] = item]
    /\ slugTo' = [s \in Slugs |-> IF s = item.slug THEN i
                                 ELSE IF byID[i] # Absent /\ s = byID[i].slug THEN Absent ELSE slugTo[s]]

RememberHot(i, item) == gen' = gen + 1 /\ RememberLocked(i, item)

ForgetHot(i) ==
    /\ gen' = gen + 1 /\ byID' = [byID EXCEPT ![i] = Absent]
    /\ slugTo' = [s \in Slugs |-> IF byID[i] # Absent /\ s = byID[i].slug THEN Absent ELSE slugTo[s]]

-----------------------------------------------------------------------------
(* Reading through the cache (GetByID, GetBySlug).                         *)

Read(w) ==
    /\ work[w].pc = "idle" /\ w \in Readers
    /\ \/ \E i \in Insts : work' = [work EXCEPT ![w] = [Idle EXCEPT !.pc = "lookup", !.op = "get", !.id = i]]
       \/ \E s \in Slugs, k \in Insts : \* a slug the cache does not lead anywhere is asked of the table
            /\ (IF slugTo[s] = Absent THEN TRUE ELSE byID[slugTo[s]] = Absent)
            /\ row[k] # Absent /\ row[k].slug = s
            /\ work' = [work EXCEPT ![w] = [Idle EXCEPT !.pc = "remember", !.op = "get", !.id = k, !.seen = row[k], !.gen = gen]]
    /\ UNCHANGED <<row, byID, slugTo, gen, dropped, clashed, writes, lapsed>>

\* What the next step of a request that has read its row is.
After(w) == IF work[w].op = "get" THEN "answer" ELSE "commit"

Lookup(w) ==
    /\ work[w].pc = "lookup"
    /\ LET i == work[w].id IN
       work' = IF byID[i] # Absent THEN [work EXCEPT ![w].pc = After(w), ![w].seen = byID[i]]
               ELSE [work EXCEPT ![w].pc = "query", ![w].gen = gen]
    /\ UNCHANGED <<row, byID, slugTo, gen, dropped, clashed, writes, lapsed>>

Query(w) ==
    /\ work[w].pc = "query"
    /\ work' = IF row[work[w].id] = Absent THEN [work EXCEPT ![w] = Idle]
               ELSE [work EXCEPT ![w].pc = "remember", ![w].seen = row[work[w].id]]
    /\ UNCHANGED <<row, byID, slugTo, gen, dropped, clashed, writes, lapsed>>

\* Faulty remembering: what was read is kept whatever changed since.
RememberAnyway(w) ==
    /\ work[w].pc = "remember"
    /\ RememberLocked(work[w].id, work[w].seen) /\ Goes(w, After(w))
    /\ UNCHANGED <<row, gen, dropped, clashed, writes, lapsed>>

\* rememberHotIfGeneration: otherwise the read starts again.
Remember(w) ==
    /\ work[w].pc = "remember"
    /\ IF work[w].gen = gen THEN RememberLocked(work[w].id, work[w].seen) /\ Goes(w, After(w))
       ELSE Goes(w, "lookup") /\ UNCHANGED <<byID, slugTo>>
    /\ UNCHANGED <<row, gen, dropped, clashed, writes, lapsed>>

Answer(w) == work[w].pc = "answer" /\ Done(w) /\ UNCHANGED <<row, byID, slugTo, gen, dropped, clashed, writes, lapsed>>

-----------------------------------------------------------------------------
(* Writers.                                                                *)

Free(s, i) == \A k \in Insts \ {i} : row[k] # Absent => row[k].slug # s

Begin(w, op, i, pc, next) ==
    /\ work[w].pc = "idle" /\ w \in Writers /\ writes < WriteLimit /\ writes' = writes + 1
    /\ work' = [work EXCEPT ![w] = [Idle EXCEPT !.pc = pc, !.op = op, !.id = i, !.next = next]]
    /\ clashed' = IF Busy(i) # {} THEN clashed \cup {i} ELSE clashed
    /\ UNCHANGED <<row, byID, slugTo, gen, dropped, lapsed>>

\* A create has a new id of its own; a copy (Duplicate) reads the row it copies
\* first, and tries names until one is free.
Unused(i) == row[i] = Absent /\ byID[i] = Absent /\ i \notin dropped \cup clashed /\ Busy(i) = {}
Create(w) == \E i \in Insts, n \in Record : n.on \in Born /\ Unused(i) /\ Begin(w, "create", i, "commit", n)
Copy(w)   == \E i, k \in Insts : row[i] # Absent /\ Unused(k) /\ Begin(w, "copy", i, "lookup", [to |-> k])
\* An update names a slug, enables unless it says otherwise, and may leave the kept
\* fields out.
Update(w) == \E i \in Insts, s \in Slugs, v \in Values \cup {Absent}, on \in BOOLEAN :
                 Begin(w, "update", i, "lookup", [slug |-> s, kept |-> v, on |-> on])
Delete(w) == \E i \in Insts : Begin(w, "delete", i, "commit", Absent)

\* normalizeUpdate
NewRow(w) == LET n == work[w].next IN IF n.kept = Absent THEN [n EXCEPT !.kept = work[w].seen.kept] ELSE n

CommitWrite(w) ==
    /\ work[w].pc = "commit" /\ work[w].op \in {"create", "update"}
    /\ LET i == work[w].id  n == NewRow(w) IN
       IF Free(n.slug, i) /\ (work[w].op = "update" => row[i] # Absent)
       THEN /\ row' = [row EXCEPT ![i] = n]
            /\ work' = [work EXCEPT ![w].next = n, ![w].pc = IF work[w].op = "update" THEN "forget" ELSE "tell"]
            /\ lapsed' = lapsed \ {i}
       ELSE Done(w) /\ UNCHANGED <<row, lapsed>>
    /\ UNCHANGED <<byID, slugTo, gen, dropped, clashed, writes>>

CommitCopy(w) ==
    /\ work[w].pc = "commit" /\ work[w].op = "copy"
    /\ LET k == work[w].next.to IN
       \/ \E s \in Slugs : /\ Free(s, k) /\ Unused(k)
                           /\ row' = [row EXCEPT ![k] = [work[w].seen EXCEPT !.slug = s]]
                           /\ work' = [work EXCEPT ![w].pc = "tell", ![w].id = k, ![w].next = row'[k]]
       \/ ((\A s \in Slugs : ~Free(s, k)) \/ ~Unused(k)) /\ Done(w) /\ UNCHANGED row
    /\ UNCHANGED <<byID, slugTo, gen, dropped, clashed, writes, lapsed>>

CommitDelete(w) ==
    /\ work[w].pc = "commit" /\ work[w].op = "delete"
    /\ LET i == work[w].id IN
       IF row[i] = Absent THEN Done(w) /\ UNCHANGED <<row, lapsed>>
       ELSE row' = [row EXCEPT ![i] = Absent] /\ Goes(w, "forget") /\ lapsed' = lapsed \ {i}
    /\ UNCHANGED <<byID, slugTo, gen, dropped, clashed, writes>>

\* forgetHot, then rememberHot unless the row is gone.
Forget(w) ==
    /\ work[w].pc = "forget" /\ ForgetHot(work[w].id)
    /\ IF work[w].op = "delete" THEN Done(w) ELSE Goes(w, "tell")
    /\ UNCHANGED <<row, dropped, clashed, writes, lapsed>>

Tell(w) ==
    /\ work[w].pc = "tell" /\ RememberHot(work[w].id, work[w].next) /\ Done(w)
    /\ UNCHANGED <<row, dropped, clashed, writes, lapsed>>

\* A model's rows go with it (ON DELETE CASCADE), and nobody tells the cache.
DropWithModel(i) ==
    /\ row[i] # Absent /\ writes < WriteLimit /\ writes' = writes + 1
    /\ row' = [row EXCEPT ![i] = Absent] /\ dropped' = dropped \cup {i}
    /\ UNCHANGED <<byID, slugTo, gen, work, clashed, lapsed>>

\* A pass over the imports enables an instance whose download has completed, each
\* time it comes by, whatever a user set since.
Reenable(i) ==
    /\ row[i] # Absent /\ writes < WriteLimit /\ writes' = writes + 1
    /\ row' = [row EXCEPT ![i].on = TRUE] /\ lapsed' = lapsed \cup {i}
    /\ UNCHANGED <<byID, slugTo, gen, work, dropped, clashed>>

\* The pass that claims the completion also tells the cache; a writer that is about
\* to tell may still have the old row.
NotifyChange(i) ==
    /\ i \in lapsed /\ ForgetHot(i)
    /\ \/ Busy(i) = {} /\ lapsed' = lapsed \ {i} /\ UNCHANGED writes
       \/ Busy(i) # {} /\ writes < WriteLimit /\ writes' = writes + 1 /\ UNCHANGED lapsed
    /\ UNCHANGED <<row, work, dropped, clashed>>

InstNext ==
    \/ \E w \in Workers : Read(w) \/ Lookup(w) \/ Query(w) \/ Remember(w) \/ Answer(w)
    \/ \E w \in Writers : Create(w) \/ Copy(w) \/ Update(w) \/ Delete(w) \/ CommitWrite(w) \/ CommitCopy(w)
                          \/ CommitDelete(w) \/ Forget(w) \/ Tell(w)
    \/ \E i \in Insts : DropWithModel(i) \/ Reenable(i) \/ NotifyChange(i)
InstSpec == InstInit /\ [][InstNext]_instVars

-----------------------------------------------------------------------------
(* Properties.                                                             *)

InstTypeOK ==
    /\ row \in [Insts -> Record \cup {Absent}] /\ byID \in [Insts -> Record \cup {Absent}]
    /\ slugTo \in [Slugs -> Insts \cup {Absent}] /\ gen \in Nat /\ dropped \cup clashed \cup lapsed \subseteq Insts
    /\ writes \in 0..WriteLimit

\* An entry is its row; after the row was enabled in the table alone, the entry may
\* still show it disabled, and differs in nothing else.
Agrees(i, item) == item = row[i] \/ (i \in lapsed /\ row[i] # Absent /\ item = [row[i] EXCEPT !.on = FALSE])

\* Unless two writers were at one instance together, its entry agrees with its row
\* when no writer is under way, whatever readers put into the cache in between
\* (service.go:190-221, hot_cache.go:76-98).  Of two writes the cache hears nothing:
\* rows that go with their model stay in it, and an instance that a pass of the
\* import reconciler enables again may stay disabled in it until the next change
\* (modelimports/service.go:285-298).
HotFresh ==
    \A i \in Insts : Busy(i) = {} /\ i \notin clashed \cup dropped /\ byID[i] # Absent => Agrees(i, byID[i])

\* A slug leads to an instance that has it, through renames and reused slugs
\* (hot_cache.go:66-74).
SlugLeads ==
    \A s \in Slugs : slugTo[s] # Absent /\ byID[slugTo[s]] # Absent => byID[slugTo[s]].slug = s

\* A field that an update leaves out keeps the value it has in the table, not the
\* one a stale entry has, unless two writers meet (service.go:125-135, 320-356).
LeftOutKept ==
    \A w \in Writers, i \in Insts :
          work[w].pc = "commit" /\ work[w].op = "update" /\ work[w].id = i /\ work[w].next.kept = Absent
              /\ work'[w].pc = "forget" /\ i \notin clashed => row'[i].kept = row[i].kept

\* Why: until a writer that committed has dropped the entry, nothing is said of it;
\* otherwise it agrees with the row, if there is one.  A read that is still good when it is
\* remembered has the row, and so have an update that is about to be committed and
\* a writer that is about to tell, as long as no other is at the instance.
Fine(i)       == i \notin clashed \cup dropped
Forgetting(i) == \E v \in Busy(i) : work[v].pc = "forget"

Draft == [slug : Slugs, kept : Values \cup {Absent}, on : BOOLEAN]
Job   == [pc : {"idle", "lookup", "query", "remember", "answer", "commit", "forget", "tell"},
          op : {"none", "get", "create", "copy", "update", "delete"}, id : Insts \cup {Absent},
          seen : Record \cup {Absent}, gen : Nat, next : Draft \cup [to : Insts] \cup {Absent}]

InOrder(w) ==
    LET k == work[w] IN
    /\ k.gen <= gen
    /\ k.pc # "idle" => k.id \in Insts /\ (IF w \in Writers THEN k.op \notin {"none", "get"} ELSE k.op = "get")
    /\ k.pc \in {"lookup", "query", "remember", "answer"} => k.op \in {"get", "copy", "update"}
    /\ k.pc = "answer" => k.op = "get"
    /\ k.pc \in {"commit", "tell", "forget"} => k.op # "get"
    /\ k.pc = "remember" \/ (k.pc = "commit" /\ k.op \in {"copy", "update"}) => k.seen \in Record
    /\ k.pc # "idle" /\ k.op = "create" => k.next \in Record
    /\ k.pc # "idle" /\ k.op = "update" => k.next \in Draft
    /\ k.pc \in {"lookup", "query", "remember", "commit"} /\ k.op = "copy" => k.next \in [to : Insts]
    /\ k.pc = "forget" => k.op \in {"update", "delete"}
    /\ k.pc = "tell" \/ (k.pc = "forget" /\ k.op = "update") => k.next \in Record
    /\ k.pc = "commit" /\ k.op = "create" => row[k.id] = Absent /\ k.id \notin dropped

WorkRight(w, i) ==
    LET k == work[w] IN
    k.id = i /\ Fine(i) =>
        /\ k.pc = "remember" /\ k.gen = gen /\ ~Forgetting(i) => Agrees(i, k.seen)
        /\ k.pc = "commit" /\ k.op = "update" => row[i] # Absent /\ k.seen.kept = row[i].kept
        /\ k.pc = "tell" \/ (k.pc = "forget" /\ k.op = "update") => Agrees(i, k.next)

OneCreate ==
    \A v, w \in Writers : (\A u \in {v, w} : work[u].pc = "commit" /\ work[u].op = "create") /\ work[v].id = work[w].id => v = w

CacheRight(i) ==
    Fine(i) => (\A u, v \in Busy(i) : u = v) /\ (~Forgetting(i) => byID[i] = Absent \/ Agrees(i, byID[i]))

Leading == \A s \in Slugs : slugTo[s] # Absent => byID[slugTo[s]] # Absent /\ byID[slugTo[s]].slug = s

InstInv ==
    /\ InstTypeOK /\ work \in [Workers -> Job] /\ Leading /\ OneCreate
    /\ \A i \in dropped : row[i] = Absent
    /\ \A w \in Workers : InOrder(w) /\ \A i \in Insts : WorkRight(w, i)
    /\ \A i \in Insts : CacheRight(i)
=============================================================================
