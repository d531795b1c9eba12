------------------------------ MODULE Gateway -------------------------------
(***************************************************************************)
(* Inference requests on their way through the gateway (gateway/gateway.go,*)
(* routing.go, proxy.go, active.go, stored_responses.go, session_context.go)*)
(* and the record each leaves: the write-back buffer of the observability  *)
(* service, its two flushers and the tables (observability/writeback.go,   *)
(* correlation.go, service.go).                                            *)
(*                                                                         *)
(* A request in flight is found by the ID its worker gave it, first in the *)
(* registry of active requests, then in the buffer, then in the database;  *)
(* the hand-over from one to the next is what this module is about.  What  *)
(* an update of a record changes besides (names, timings, bodies) is left  *)
(* out, and the lifecycle is one that grants or refuses.                   *)
(***************************************************************************)
EXTENDS Integers, FiniteSets, FiniteSetsExt

CONSTANTS
    Reqs,     \* requests
    Ids,      \* IDs workers give to responses and completions
    Owners,   \* API keys and users
    Limit,    \* writebackMaxEntries
    Batch,    \* writebackBatchSize
    Faults    \* bound on failed transactions

GatewayAssumption ==
    IsFiniteSet(Reqs) /\ Limit \in Nat \ {0} /\ Batch \in Nat \ {0} /\ Faults \in Nat

NoId  == "no ID"
NoReq == "nobody"
\* Routes that acquire a worker: completions, whose ID goes to the registry,
\* responses, whose ID is stored too, and the others (embeddings, audio).
Proxied == {"completion", "response", "plain"}
Routes  == Proxied \cup {"control", "cancel", "delete", "local"}
Flushers == {"ticker", "exit"}

VARIABLES
    req,         \* the requests
    queued,      \* gauge of requests that wait for a worker
    working,     \* gauge of requests a worker answers
    registered,  \* byManager
    upstream,    \* byUpstream
    cancelled,   \* entries whose cancel function was called
    entry,       \* activeEntries: the record of a request that is not yet settled
    listed,      \* the requests whose entry is in entries, too
    index,       \* openAIToRequest
    flight,      \* what each flusher has taken and not yet settled
    flusher,     \* where each flusher stands
    rows,        \* inference_requests with correlation and log context
    counted,     \* what gateway_requests_total gained for each request
    accepted,    \* what the buffer took of each request (history)
    dropped,     \* entries dropped as permanently invalid (history)
    faults

gwVars   == <<req, queued, working, registered, upstream, cancelled, entry, listed, index,
              flight, flusher, rows, counted, accepted, dropped, faults>>
gauges   == <<queued, working>>
registry == <<registered, upstream, cancelled>>
buffer   == <<entry, listed, index, accepted>>
store    == <<flight, flusher, rows, counted, dropped, faults>>

Request == [pc : {"idle", "auth", "wait", "proxy", "leave", "mark", "await", "final", "attach", "done"},
            route : Routes, owner : Owners, id : Ids \cup {NoId}]
NoEntry == [none |-> TRUE]
Entry   == [final : BOOLEAN, ready : BOOLEAN, id : Ids \cup {NoId}, deleted : BOOLEAN]
NoRow   == [none |-> TRUE]
Row     == [ready : BOOLEAN, id : Ids \cup {NoId}, deleted : BOOLEAN]
Facts   == {"final", "ready", "id", "deleted"}

GwTypeOK ==
    /\ req \in [Reqs -> Request]
    /\ queued \in Nat /\ working \in Nat
    /\ registered \subseteq Reqs /\ cancelled \subseteq Reqs
    /\ upstream \in [Ids -> Reqs \cup {NoReq}]
    /\ entry \in [Reqs -> Entry \cup {NoEntry}]
    /\ listed \subseteq {r \in Reqs : entry[r] # NoEntry}
    /\ index \in [Ids -> Reqs \cup {NoReq}]
    /\ \A f \in Flushers : flight[f] \in [Reqs -> Entry \cup {NoEntry}]
    /\ flusher \in [Flushers -> {"off", "on", "batch", "single", "error", "end", "failed"}]
    /\ rows \in [Reqs -> Row \cup {NoRow}]
    /\ counted \in [Reqs -> Nat]
    /\ accepted \in [Reqs -> SUBSET Facts]
    /\ dropped \subseteq Reqs /\ faults \in 0..Faults

GwInit ==
    /\ req \in [Reqs -> {[pc |-> "idle", route |-> k, owner |-> o, id |-> NoId] : k \in Routes, o \in Owners}]
    /\ queued = 0 /\ working = 0
    /\ registered = {} /\ cancelled = {} /\ upstream = [x \in Ids |-> NoReq]
    /\ entry = [r \in Reqs |-> NoEntry] /\ listed = {} /\ index = [x \in Ids |-> NoReq]
    /\ flight = [f \in Flushers |-> [r \in Reqs |-> NoEntry]]
    /\ flusher = [f \in Flushers |-> IF f = "ticker" THEN "on" ELSE "off"]
    /\ rows = [r \in Reqs |-> NoRow] /\ counted = [r \in Reqs |-> 0]
    /\ accepted = [r \in Reqs |-> {}] /\ dropped = {} /\ faults = 0

Up == flusher["exit"] \notin {"end", "failed"}
At(r, pc) == Up /\ req[r].pc = pc
Step(r, pc) == req' = [req EXCEPT ![r].pc = pc]
Route(r) == req[r].route
Less(n) == IF n > 0 THEN n - 1 ELSE 0

-----------------------------------------------------------------------------
(* The buffer.  Each operation holds its lock; the entry of a request that *)
(* a flusher has taken is listed again when something changes it.          *)

Fresh == [final |-> FALSE, ready |-> FALSE, id |-> NoId, deleted |-> FALSE]
Full == Cardinality(listed) >= Limit
Put(r, e) == entry' = [entry EXCEPT ![r] = e] /\ listed' = listed \cup {r}
Accept(r, fact) == accepted' = [accepted EXCEPT ![r] = @ \cup {fact}]
Relisted(r) == IF r \notin listed /\ entry[r].id # NoId THEN [index EXCEPT ![entry[r].id] = r] ELSE index
Recoverable(r) == entry[r] # NoEntry /\ (r \in listed \/ ~Full)

BufferBegin(r) ==
    IF entry[r] = NoEntry /\ ~Full THEN Put(r, Fresh) /\ UNCHANGED <<index, accepted>>
    ELSE UNCHANGED buffer

\* bufferFinalize makes an entry if there is none.
BufferFinalize(r) ==
    \/ /\ Recoverable(r) \/ (entry[r] = NoEntry /\ ~Full)
       /\ Put(r, IF entry[r] = NoEntry THEN [Fresh EXCEPT !.final = TRUE] ELSE [entry[r] EXCEPT !.final = TRUE])
       /\ index' = IF entry[r] = NoEntry THEN index ELSE Relisted(r)
       /\ Accept(r, "final")
    \/ /\ ~Recoverable(r) /\ (entry[r] # NoEntry \/ Full)      \* ErrWritebackOverflow
       /\ UNCHANGED buffer

BufferContext(r) ==
    IF Recoverable(r)
    THEN Put(r, [entry[r] EXCEPT !.ready = TRUE]) /\ index' = Relisted(r) /\ Accept(r, "ready")
    ELSE UNCHANGED buffer

\* bufferOpenAIResponseID: an ID that another entry has is refused.
BufferID(r, x) ==
    IF Recoverable(r) /\ Relisted(r)[x] \in {r, NoReq}
    THEN /\ Put(r, [entry[r] EXCEPT !.id = x])
         /\ index' = [y \in Ids |-> IF y = x THEN r ELSE IF y = entry[r].id THEN NoReq ELSE index[y]]
         /\ Accept(r, "id")
    ELSE IF Recoverable(r) THEN Put(r, entry[r]) /\ index' = Relisted(r) /\ UNCHANGED accepted
    ELSE UNCHANGED buffer

\* GetStoredOpenAIResponse: the entry the index names, or the row.
Unclaimed == [by |-> NoReq, deleted |-> FALSE]
Buffered(x) ==
    IF index[x] # NoReq /\ index[x] \in listed
    THEN [by |-> index[x], deleted |-> entry[index[x]].deleted] ELSE Unclaimed
InTables(x) ==
    LET those == {r \in Reqs : rows[r] # NoRow /\ rows[r].id = x}
    IN  IF those = {} THEN Unclaimed
        ELSE LET r == CHOOSE s \in those : TRUE IN [by |-> r, deleted |-> rows[r].deleted]
Stored(x) == IF Buffered(x).by # NoReq THEN Buffered(x) ELSE InTables(x)

-----------------------------------------------------------------------------
(* The registry of active requests.                                        *)

Register(r) == registered' = registered \cup {r} /\ UNCHANGED <<upstream, cancelled>>

SetUpstreamID(r, x) ==
    /\ upstream' = IF r \in registered THEN [upstream EXCEPT ![x] = r] ELSE upstream
    /\ UNCHANGED <<registered, cancelled>>

GetByUpstream(x) == upstream[x]

\* Faulty removal: the ID stays in the index.
RemoveNotID(r) == registered' = registered \ {r} /\ UNCHANGED <<upstream, cancelled>>

\* The ID stays if another request has it by now.
Remove(r) ==
    /\ registered' = registered \ {r}
    /\ upstream' = [x \in Ids |-> IF upstream[x] = r THEN NoReq ELSE upstream[x]]
    /\ UNCHANGED cancelled

\* responseOwnerMatches.
Mine(r, s) == req[s].owner = req[r].owner

\* cancelByUpstreamAuthorized: one caller only, the owner, cancels.
CancelAuthorized(r, x) ==
    /\ upstream[x] \notin cancelled \cup {NoReq} /\ Mine(r, upstream[x])
    /\ cancelled' = cancelled \cup {upstream[x]}
    /\ UNCHANGED <<registered, upstream>>

\* GET of a response: the registry answers for the ones in progress.
Retrieved(r, x) ==
    IF GetByUpstream(x) # NoReq /\ Route(GetByUpstream(x)) = "response"
    THEN IF Mine(r, GetByUpstream(x)) THEN "in progress" ELSE "not found"
    ELSE IF Stored(x).by # NoReq /\ ~Stored(x).deleted /\ Mine(r, Stored(x).by)
         THEN "stored" ELSE "not found"

-----------------------------------------------------------------------------
(* ServeHTTP, to the worker and back.                                      *)

Begin(r) ==
    /\ At(r, "idle")
    /\ BufferBegin(r) /\ Step(r, "auth")
    /\ UNCHANGED <<gauges, registry, store>>

\* No valid key, a key for none of the instances that exist, an unknown path,
\* a body that is too large, no such model or not one of the key's; or a
\* route that only reads.
Answer(r) ==
    /\ At(r, "auth") /\ Step(r, "final")
    /\ UNCHANGED <<gauges, registry, buffer, store>>

\* proxyAcquired.
Enqueue(r) ==
    /\ At(r, "auth") /\ Route(r) \in Proxied
    /\ queued' = queued + 1 /\ Step(r, "wait")
    /\ UNCHANGED <<working, registry, buffer, store>>

Refused(r) ==
    /\ At(r, "wait")
    /\ queued' = Less(queued) /\ Step(r, "final")
    /\ UNCHANGED <<working, registry, buffer, store>>

\* Activate takes one request from the queue, then the request registers.
Activate == queued' = Less(queued) /\ working' = working + 1
Proxy(r) ==
    /\ At(r, "wait")
    /\ Activate /\ Step(r, "proxy")
    /\ Register(r)
    /\ UNCHANGED <<buffer, store>>

\* proxyChatControl goes to the worker of the completion it names.  It never
\* was in the queue, and does not register.
Control(r, x) ==
    /\ At(r, "auth") /\ Route(r) = "control" /\ GetByUpstream(x) # NoReq
    /\ Activate /\ Step(r, "proxy")
    /\ UNCHANGED <<registry, buffer, store>>

\* persistOpenAIResponseID.
PersistID(r, x) == IF Route(r) = "response" THEN BufferID(r, x) ELSE UNCHANGED buffer

\* The worker's answer names its ID, once, while the request is registered.
Named(r, x) ==
    /\ At(r, "proxy") /\ Route(r) \in {"completion", "response"} /\ req[r].id = NoId
    /\ req' = [req EXCEPT ![r].id = x]
    /\ SetUpstreamID(r, x) /\ PersistID(r, x)
    /\ UNCHANGED <<gauges, store>>

\* The proxy is done, whichever way: the worker answered or broke off, the
\* client left or cancelled, or the stream panicked.
Answered(r) ==
    /\ At(r, "proxy")
    /\ working' = Less(working) /\ Step(r, IF r \in registered THEN "leave" ELSE "final")
    /\ UNCHANGED <<queued, registry, buffer, store>>

Leave(r) ==
    /\ At(r, "leave") /\ Step(r, "final")
    /\ Remove(r)
    /\ UNCHANGED <<gauges, buffer, store>>

\* Finalize runs deferred, and the log context follows when ServeHTTP is left.
Finalize(r) ==
    /\ At(r, "final")
    /\ BufferFinalize(r) /\ Step(r, "attach")
    /\ UNCHANGED <<gauges, registry, store>>

Attach(r) ==
    /\ At(r, "attach")
    /\ BufferContext(r) /\ Step(r, "done")
    /\ UNCHANGED <<gauges, registry, store>>

-----------------------------------------------------------------------------
(* Requests about responses.                                               *)

\* The one that cancels remembers what it waits for.
Cancel(r, x) ==
    /\ At(r, "auth") /\ Route(r) = "cancel"
    /\ CancelAuthorized(r, x) /\ req' = [req EXCEPT ![r].pc = "await", ![r].id = x]
    /\ UNCHANGED <<gauges, buffer, store>>

\* waitRemoved: until the request has left the registry or the time is over.
Removed(r) ==
    /\ At(r, "await") /\ req' = [req EXCEPT ![r].pc = "final", ![r].id = NoId]
    /\ UNCHANGED <<gauges, registry, buffer, store>>

LookUp(r, x) ==
    /\ At(r, "auth") /\ Route(r) = "delete"
    /\ Stored(x).by # NoReq /\ ~Stored(x).deleted /\ Mine(r, Stored(x).by)
    /\ req' = [req EXCEPT ![r].pc = "mark", ![r].id = x]
    /\ UNCHANGED <<gauges, registry, buffer, store>>

MarkBuffered(by) == entry' = [entry EXCEPT ![by].deleted = TRUE] /\ UNCHANGED rows

\* MarkOpenAIResponseDeleted, wherever the response is by now.
Mark(r) ==
    LET id == req[r].id
        by == Stored(id).by
    IN  /\ At(r, "mark") /\ req' = [req EXCEPT ![r].pc = "final", ![r].id = NoId]
        /\ \/ (by = NoReq \/ Stored(id).deleted) /\ UNCHANGED <<entry, rows, accepted>>
           \/ /\ by # NoReq /\ ~Stored(id).deleted /\ Accept(by, "deleted")
              /\ IF Buffered(id).by # NoReq
                 THEN MarkBuffered(by)
                 ELSE rows' = [rows EXCEPT ![by].deleted = TRUE] /\ UNCHANGED entry
        /\ UNCHANGED <<listed, index, gauges, registry, flight, flusher, counted, dropped, faults>>
-----------------------------------------------------------------------------
(* flushWriteback: a batch of copies is taken out of the buffer, written in*)
(* one transaction or, if that fails, entry by entry; what could not be    *)
(* written for now is listed again unless it has been meanwhile.           *)

Due(f) == {r \in listed : entry[r].final /\ (f = "ticker" => entry[r].ready)}
Taken(f) == {r \in Reqs : flight[f][r] # NoEntry}

Take(f, S) ==
    /\ listed' = listed \ S
    /\ index' = [x \in Ids |-> IF \E r \in S : entry[r].id = x THEN NoReq ELSE index[x]]
    /\ flight' = [flight EXCEPT ![f] = [r \in Reqs |-> IF r \in S THEN entry[r] ELSE NoEntry]]
    /\ flusher' = [flusher EXCEPT ![f] = "batch"]

Collect(f) ==
    /\ Up /\ flusher[f] = "on" /\ Due(f) # {}
    /\ \E S \in SUBSET Due(f) :
          /\ Cardinality(S) = Batch \/ (S = Due(f) /\ Cardinality(S) < Batch)
          /\ Take(f, S)
    /\ UNCHANGED <<req, gauges, registry, entry, accepted, rows, counted, dropped, faults>>

\* persistWritebackEntry.  Another row's ID is not taken; the counters go up
\* with the first row only, and what was deleted stays deleted.
NewRow(table, r, e) ==
    LET old   == table[r]
        free  == e.id # NoId /\ \A s \in Reqs \ {r} : table[s] = NoRow \/ table[s].id # e.id
        first == old = NoRow
    IN  [id      |-> IF free THEN e.id ELSE IF first THEN NoId ELSE old.id,
         ready   |-> e.ready \/ (~first /\ old.ready),
         deleted |-> e.deleted \/ (~first /\ old.deleted)]

Written(f, S) ==
    /\ rows' = FoldSet(LAMBDA r, table : [table EXCEPT ![r] = NewRow(table, r, flight[f][r])], rows, S)
    /\ counted' = [r \in Reqs |-> IF r \in S /\ rows[r] = NoRow THEN counted[r] + 1 ELSE counted[r]]

\* finishWritebackEntries.
Finished(f, S) ==
    /\ entry' = [r \in Reqs |-> IF r \in S \ listed THEN NoEntry ELSE entry[r]]
    /\ flight' = [flight EXCEPT ![f] = [r \in Reqs |-> IF r \in S THEN NoEntry ELSE @[r]]]
    /\ UNCHANGED listed

PersistBatch(f) ==
    /\ Up /\ flusher[f] = "batch"
    /\ \/ /\ Written(f, Taken(f)) /\ Finished(f, Taken(f))
          /\ flusher' = [flusher EXCEPT ![f] = "on"] /\ UNCHANGED faults
       \/ /\ faults < Faults /\ faults' = faults + 1
          /\ flusher' = [flusher EXCEPT ![f] = "single"]
          /\ UNCHANGED <<entry, listed, flight, rows, counted>>
    /\ UNCHANGED <<req, gauges, registry, index, accepted, dropped>>

PutBack(f, r) ==
    /\ IF r \in listed THEN UNCHANGED <<entry, listed, index>>
       ELSE /\ entry' = [entry EXCEPT ![r] = flight[f][r]] /\ listed' = listed \cup {r}
            /\ index' = IF flight[f][r].id = NoId THEN index ELSE [index EXCEPT ![flight[f][r].id] = r]
    /\ flight' = [flight EXCEPT ![f][r] = NoEntry]

PersistOne(f, r) ==
    /\ Up /\ flusher[f] \in {"single", "error"} /\ r \in Taken(f)
    /\ \/ Written(f, {r}) /\ Finished(f, {r}) /\ UNCHANGED <<index, flusher, dropped, faults>>
       \/ /\ faults < Faults /\ faults' = faults + 1      \* a constraint failed
          /\ Finished(f, {r}) /\ dropped' = dropped \cup {r}
          /\ UNCHANGED <<index, flusher, rows, counted>>
       \/ /\ faults < Faults /\ faults' = faults + 1
          /\ PutBack(f, r) /\ flusher' = [flusher EXCEPT ![f] = "error"]
          /\ UNCHANGED <<rows, counted, dropped>>
    /\ UNCHANGED <<req, gauges, registry, accepted>>

\* The ticker goes on after an error; Flush returns it.
Settled(f) ==
    /\ Up /\ flusher[f] \in {"single", "error"} /\ Taken(f) = {}
    /\ flusher' = [flusher EXCEPT ![f] = IF f = "exit" /\ @ = "error" THEN "failed" ELSE "on"]
    /\ UNCHANGED <<req, gauges, registry, buffer, flight, rows, counted, dropped, faults>>

Flush(f) == Collect(f) \/ PersistBatch(f) \/ (\E r \in Reqs : PersistOne(f, r)) \/ Settled(f)

-----------------------------------------------------------------------------
(* The manager stops: the ticker ends when it sees so, Flush repeats until *)
(* nothing is left, and the process exits.  Requests may still be running. *)

ExitBegins ==
    /\ flusher["exit"] = "off" /\ flusher' = [flusher EXCEPT !["exit"] = "on"]
    /\ UNCHANGED <<req, gauges, registry, buffer, flight, rows, counted, dropped, faults>>

TickerEnds ==
    /\ Up /\ flusher["exit"] # "off" /\ flusher["ticker"] = "on"
    /\ flusher' = [flusher EXCEPT !["ticker"] = "off"]
    /\ UNCHANGED <<req, gauges, registry, buffer, flight, rows, counted, dropped, faults>>

ExitEnds ==
    /\ flusher["exit"] = "on" /\ Due("exit") = {}
    /\ flusher' = [flusher EXCEPT !["exit"] = "end"]
    /\ UNCHANGED <<req, gauges, registry, buffer, flight, rows, counted, dropped, faults>>

Serve(r) ==
    \/ Begin(r) \/ Answer(r) \/ Enqueue(r) \/ Refused(r) \/ Proxy(r) \/ Answered(r) \/ Leave(r)
    \/ Finalize(r) \/ Attach(r) \/ Mark(r) \/ Removed(r)
    \/ \E x \in Ids : Control(r, x) \/ Named(r, x) \/ Cancel(r, x) \/ LookUp(r, x)

GwNext ==
    \/ \E r \in Reqs : Serve(r)
    \/ \E f \in Flushers : Flush(f)
    \/ ExitBegins \/ TickerEnds \/ ExitEnds

GwSpec == GwInit /\ [][GwNext]_gwVars

-----------------------------------------------------------------------------
(* Properties.                                                             *)

\* What the buffer took of a request is in an entry that will be written, in
\* a flusher's hands or in the tables, through failed writes, two flushers at
\* once and changes that come while a copy is being written.
Holds(e, fact) ==
    CASE fact = "final" -> TRUE [] fact = "ready" -> e.ready
      [] fact = "id" -> TRUE [] fact = "deleted" -> e.deleted
Held(r, fact) ==
    \/ r \in listed /\ (fact = "final" => entry[r].final) /\ Holds(entry[r], fact)
    \/ \E f \in Flushers : flight[f][r] # NoEntry /\ Holds(flight[f][r], fact)
    \/ rows[r] # NoRow /\ Holds(rows[r], fact)
    \/ r \in dropped
NothingLost == \A r \in Reqs : \A fact \in accepted[r] : Held(r, fact)

\* A request is counted exactly once, when its row first appears.
CountedOnce == \A r \in Reqs : counted[r] = IF rows[r] = NoRow THEN 0 ELSE 1

\* When the final Flush succeeds, what was final is in the tables, or in the
\* hands of a ticker that was not waited for.
ExitFlushed ==
    flusher["exit"] = "end" =>
        \A r \in Reqs : "final" \in accepted[r] =>
            rows[r] # NoRow \/ r \in dropped \/ flight["ticker"][r] # NoEntry

\* The registry finds only requests in flight, by the ID they have; the index
\* only listed entries, by theirs.
RegistryMatches == \A x \in Ids : upstream[x] # NoReq => upstream[x] \in registered /\ req[upstream[x]].id = x
IndexMatches    == \A x \in Ids : index[x] # NoReq => index[x] \in listed /\ entry[index[x]].id = x

\* No two rows have one ID.
UniqueIds ==
    \A r, s \in Reqs : rows[r] # NoRow /\ rows[s] # NoRow /\ rows[r].id = rows[s].id /\ rows[r].id # NoId => r = s

\* The gauge of working requests is exact, and the gauge of waiting ones is
\* as long as no control request took its place in the queue from another.
Count(pc) == Cardinality({r \in Reqs : req[r].pc = pc})
Controls == {r \in Reqs : Route(r) = "control" /\ req[r].pc \in {"proxy", "final", "attach", "done"}}
GaugesExact ==
    /\ working = Count("proxy")
    /\ queued =< Count("wait") /\ queued >= Count("wait") - Cardinality(Controls)

\* While the manager serves, a response that was completed and not deleted is
\* found by its owner, whether its record is in the buffer or in the tables.
CompletedFound ==
    flusher["exit"] = "off" => \A r \in Reqs :
        {"id", "final"} \subseteq accepted[r] /\ "deleted" \notin accepted[r] /\ r \notin dropped =>
        Retrieved(r, req[r].id) = "stored"

\* A deletion that reached the tables is not undone by a copy of the record
\* taken before it.
DeletedSticks == \A r \in Reqs : rows[r] # NoRow /\ rows[r].deleted => rows'[r].deleted
=============================================================================
