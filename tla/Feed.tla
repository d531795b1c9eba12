--------------------------------- MODULE Feed ---------------------------------
(***************************************************************************)
(* The runtime feed and the observability sampler that reads it            *)
(* (supervisor/runtime_events.go, lifecycle/runtime_events.go,             *)
(* observability/sampler.go; the websocket of api/runtime_ws.go reads a feed *)
(* of its own in the same way).  A subscriber takes a snapshot and then every *)
(* transition through two bounded channels; the bus drops the oldest event *)
(* when the first is full.  The sampler derives a worker's throughput from *)
(* two readings of counters that start anew with every process.            *)
(***************************************************************************)
EXTENDS Integers, Sequences, FiniteSets, SequencesExt

CONSTANTS
    Insts,          \* instances
    Overlayers,     \* goroutines that publish a start failure (publishRuntimeOverlay)
    BusRoom,        \* room of a subscriber's channel on the bus (64)
    PipeRoom,       \* room of the channel lifecycle wraps around it (64)
    TokenLimit,     \* bound on a process's token counter
    WorkerLimit,    \* bound on processes started
    Nothing, Done

FeedAssumption == BusRoom > 0 /\ PipeRoom > 0 /\ {TokenLimit, WorkerLimit} \subseteq Nat

Pids == 0..WorkerLimit      \* 0: no process
Seen == [state : {"down", "loading", "ready"}, pid : Pids]   \* down: unloaded or failed

VARIABLES
    runtime,    \* the supervisor's own record of each instance's worker
    tokens,     \* what each process counts: 0 before it is started, and 1 once it is gone and nobody can ask it
    overlay,    \* the runtime each overlayer has read, Nothing before and Done after it is published
    bus, hand, pipe,    \* the events on their way: on the bus, with the forwarder, wrapped
    view,       \* what the subscriber makes of them (current); Nothing before it subscribes
    pushed,     \* instances whose newest event the bus dropped (history)
    outdated,   \* instances an overlay of an older runtime was published for (history)
    scrape,     \* the sample whose counters are being fetched
    base,       \* Sampler.throughput: the baseline of each instance
    rate        \* the processes between whose readings the sample's rate was derived, and the one it names

feedVars == <<runtime, tokens, overlay, bus, hand, pipe, view, pushed, outdated, scrape, base, rate>>
pathVars == <<bus, hand, pipe, view, pushed, outdated>>
sampVars == <<scrape, base, rate>>

Down == [state |-> "down", pid |-> 0]
Used == {p \in Pids : \E i \in Insts : runtime[i].pid >= p \/ tokens[p] > 0}

FeedInit ==
    /\ runtime = [i \in Insts |-> Down] /\ tokens = [p \in Pids |-> 0]
    /\ overlay = [o \in Overlayers |-> Nothing] /\ bus = <<>> /\ hand = Nothing /\ pipe = <<>> /\ view = Nothing
    /\ pushed = {} /\ outdated = {} /\ scrape = Nothing /\ base = [i \in Insts |-> Nothing] /\ rate = Nothing

-----------------------------------------------------------------------------
(* The bus.                                                                *)

\* emitRuntimeLocked: a full channel loses its oldest event.
BusAfter(e) == IF Len(bus) < BusRoom THEN Append(bus, e) ELSE Append(Tail(bus), e)

\* What is dropped matters only when no later event of the instance is coming.
NewestLost(e) ==
    LET all == Append(bus, e)
        last(i) == Max({n \in 1..Len(all) : all[n].id = i} \cup {0})
    IN  {i \in Insts : last(i) # 0 /\ all[last(i)] \notin Range(BusAfter(e))}

Emit(i, r) ==
    LET e == [id |-> i, to |-> r] IN
    IF view = Nothing THEN UNCHANGED <<bus, pushed>>
    ELSE bus' = BusAfter(e) /\ pushed' = (pushed \ {i}) \cup NewestLost(e)

-----------------------------------------------------------------------------
(* The supervisor's transitions, each emitted under the lock that made it. *)

Change(i) ==
    /\ \E r \in Seen :
          /\ \/ /\ runtime[i].state = "down" /\ r.state = "loading"
                /\ r.pid = 1 + Cardinality(Used \ {0}) /\ r.pid <= WorkerLimit
             \/ runtime[i].state = "loading" /\ r.state = "ready" /\ r.pid = runtime[i].pid
             \/ runtime[i].state \in {"loading", "ready"} /\ r.state = "down" /\ r.pid = 0
          /\ runtime' = [runtime EXCEPT ![i] = r] /\ Emit(i, r)
          /\ tokens' = IF r.pid = 0 THEN [tokens EXCEPT ![runtime[i].pid] = 1] ELSE [tokens EXCEPT ![r.pid] = IF @ = 0 THEN 1 ELSE @]
          /\ outdated' = outdated \ {i}
    /\ UNCHANGED <<overlay, hand, pipe, view, sampVars>>

\* A worker at its task.
Generate(i) ==
    /\ runtime[i].state = "ready" /\ tokens[runtime[i].pid] < TokenLimit
    /\ tokens' = [tokens EXCEPT ![runtime[i].pid] = @ + 1]
    /\ UNCHANGED <<runtime, overlay, pathVars, sampVars>>

\* A start failure is recorded or cleared: the overlay reads the status, and is
\* published in a section of its own.  What it adds is left out.
Overlay(o, i) ==
    /\ overlay[o] = Nothing /\ overlay' = [overlay EXCEPT ![o] = [id |-> i, to |-> runtime[i]]]
    /\ UNCHANGED <<runtime, tokens, pathVars, sampVars>>

PublishOverlay(o) ==
    /\ overlay[o] \notin {Nothing, Done}
    /\ LET i == overlay[o].id  r == overlay[o].to IN
       /\ Emit(i, r)
       /\ outdated' = IF view = Nothing THEN outdated
                      ELSE IF r # runtime[i] THEN outdated \cup {i} ELSE outdated \ {i}
    /\ overlay' = [overlay EXCEPT ![o] = Done]
    /\ UNCHANGED <<runtime, tokens, hand, pipe, view, sampVars>>

-----------------------------------------------------------------------------
(* A subscriber.                                                           *)

\* SubscribeRuntimes: the snapshot and the subscription are one section.
Subscribe ==
    /\ view = Nothing /\ view' = runtime
    /\ UNCHANGED <<runtime, tokens, overlay, bus, hand, pipe, pushed, outdated, sampVars>>

\* The forwarder takes an event from the bus and waits for room in the pipe.
Forward ==
    /\ hand = Nothing /\ bus # <<>> /\ hand' = Head(bus) /\ bus' = Tail(bus)
    /\ UNCHANGED <<runtime, tokens, overlay, pipe, view, pushed, outdated, sampVars>>

PutInPipe ==
    /\ hand # Nothing /\ Len(pipe) < PipeRoom /\ pipe' = Append(pipe, hand) /\ hand' = Nothing
    /\ UNCHANGED <<runtime, tokens, overlay, bus, view, pushed, outdated, sampVars>>

\* The sampler's loop takes the next event, unless it is collecting.
Receive ==
    /\ pipe # <<>> /\ scrape = Nothing
    /\ view' = [view EXCEPT ![Head(pipe).id] = Head(pipe).to] /\ pipe' = Tail(pipe)
    /\ UNCHANGED <<runtime, tokens, overlay, bus, hand, pushed, outdated, sampVars>>

-----------------------------------------------------------------------------
(* The sampler.                                                            *)

\* Collect: the samples are those of the runtimes with a PID, as the view has
\* them; baselines of the others are given up.
Collect(i) ==
    /\ view # Nothing /\ scrape = Nothing /\ view[i].pid # 0
    /\ scrape' = [id |-> i, pid |-> view[i].pid, from |-> 0, count |-> 0]
    /\ base' = [k \in Insts |-> IF view[k].pid = 0 THEN Nothing ELSE base[k]] /\ rate' = Nothing
    /\ UNCHANGED <<runtime, tokens, overlay, pathVars>>

\* attachNativeMetrics: whoever answers at the instance's endpoint now.
Fetch ==
    /\ scrape # Nothing /\ scrape.from = 0 /\ view[scrape.id].state = "ready" /\ runtime[scrape.id].state = "ready"
    /\ LET p == runtime[scrape.id].pid IN scrape' = [scrape EXCEPT !.from = p, !.count = tokens[p]]
    /\ UNCHANGED <<runtime, tokens, overlay, pathVars, base, rate>>

Rate(b) == [was |-> b.from, is |-> scrape.from, named |-> scrape.pid]

\* Faulty derivation: whatever process the baseline was read from.
DeriveAcross ==
    /\ scrape # Nothing /\ scrape.from # 0 /\ scrape' = Nothing
    /\ LET b == base[scrape.id] IN rate' = IF b # Nothing /\ scrape.count > b.count THEN Rate(b) ELSE Nothing
    /\ base' = [base EXCEPT ![scrape.id] = scrape]
    /\ UNCHANGED <<runtime, tokens, overlay, pathVars>>

\* applyDerivedThroughput, counterRate
Derive ==
    /\ scrape # Nothing /\ scrape.from # 0 /\ scrape' = Nothing
    /\ LET b == base[scrape.id] IN
       rate' = IF b # Nothing /\ b.pid = scrape.pid /\ scrape.count > b.count THEN Rate(b) ELSE Nothing
    /\ base' = [base EXCEPT ![scrape.id] = scrape]
    /\ UNCHANGED <<runtime, tokens, overlay, pathVars>>

\* No answer in time, or nothing to ask.
Miss == scrape # Nothing /\ scrape.from = 0 /\ scrape' = Nothing /\ rate' = Nothing
        /\ UNCHANGED <<runtime, tokens, overlay, pathVars, base>>

FeedNext ==
    \/ \E i \in Insts : Change(i) \/ Generate(i) \/ Collect(i)
    \/ \E o \in Overlayers : PublishOverlay(o) \/ \E i \in Insts : Overlay(o, i)
    \/ Subscribe \/ Forward \/ PutInPipe \/ Receive \/ Fetch \/ Derive \/ Miss
FeedSpec == FeedInit /\ [][FeedNext]_feedVars

-----------------------------------------------------------------------------
(* Properties.                                                             *)

Delivered == view # Nothing /\ bus = <<>> /\ hand = Nothing /\ pipe = <<>>
AsSeen(i) == view[i].state = runtime[i].state /\ view[i].pid = runtime[i].pid

FeedTypeOK ==
    /\ runtime \in [Insts -> Seen] /\ tokens \in [Pids -> 0..TokenLimit]
    /\ Len(bus) <= BusRoom /\ Len(pipe) <= PipeRoom /\ (view = Nothing \/ view \in [Insts -> Seen])
    /\ (hand = Nothing \/ hand.to \in Seen) /\ pushed \cup outdated \subseteq Insts

\* Once everything is delivered, a subscriber sees every worker as the
\* supervisor has it, whenever it subscribed; except an instance whose newest
\* event was pushed out by events of others, or one for which an overlay read
\* before a transition was published after it (runtime_events.go:25-90).
SeenRight == Delivered => \A i \in Insts \ (pushed \cup outdated) : AsSeen(i)

\* The bus pushes out the newest event of an instance only when events of other
\* instances fill all of the channel (runtime_events.go:81-88).
OnlyOthersPush == \A i \in pushed : \A n \in 1..Len(bus) : bus[n].id # i

\* A rate is that of one process: counters of a process that is gone are never
\* set against its successor's, as long as the counters fetched are those of
\* the process the sample names (sampler.go:205-250).
RateOfOne == rate # Nothing /\ rate.is = rate.named => rate.was = rate.is
=============================================================================
