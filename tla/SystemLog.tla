------------------------------- MODULE SystemLog -------------------------------
(***************************************************************************)
(* The diagnostic log of the manager and the streams of it that the API    *)
(* serves (systemlog/systemlog.go, api/system_logs.go).  Entries are kept in *)
(* a ring; a viewer gets a snapshot of it and, through a channel that drops *)
(* what it has no room for, every entry after it.  Both are filtered, and  *)
(* the snapshot shows the newest few of each source.  An entry is known by *)
(* its place in the history; one without a source or a message, or of no   *)
(* level, is refused and changes nothing.                                  *)
(***************************************************************************)
EXTENDS Integers, Sequences, FiniteSets, SequencesExt

CONSTANTS
    Sources,    \* who writes to the log
    Viewers,    \* requests for a stream, all with the same filter
    RingSize,   \* entries kept, and the scan limit of the API (4000)
    Room,       \* room of a viewer's channel (256)
    PerSource,  \* entries of a source in a snapshot
    MaxAdds,    \* bound on entries written
    Nothing, Done

LogAssumption == {RingSize, Room, PerSource} \subseteq Nat \ {0} /\ MaxAdds \in Nat

VARIABLES
    data, offset, full,     \* the ring; 0 is no entry
    history,    \* every entry written, each with its source and whether the filter shows it
    cleared,    \* how many of them were written before the last Reset
    viewer      \* each viewer: its channel, what it was sent, what the channel dropped

logVars == <<data, offset, full, history, cleared, viewer>>

Matches(n) == history[n].shown
Watching   == {v \in Viewers : viewer[v] \notin {Nothing, Done}}

LogInit ==
    /\ data = [i \in 0..(RingSize - 1) |-> 0] /\ offset = 0 /\ full = FALSE
    /\ history = <<>> /\ cleared = 0 /\ viewer = [v \in Viewers |-> Nothing]

\* The entries in the ring, oldest first.
EntriesLocked ==
    IF full THEN [i \in 1..RingSize |-> data[(offset + i - 1) % RingSize]]
    ELSE [i \in 1..offset |-> data[i - 1]]

LastPerSource(entries, limit) ==
    LET later(i) == {j \in (i + 1)..Len(entries) : history[entries[j]].source = history[entries[i]].source}
        kept == SetToSortSeq({i \in DOMAIN entries : Cardinality(later(i)) < limit}, <)
    IN  [k \in DOMAIN kept |-> entries[kept[k]]]

\* What a viewer is sent first.
Limited == LastPerSource(SelectSeq(LastPerSource(EntriesLocked, RingSize), Matches), PerSource)

Add(source, shown) ==
    LET n == Len(history) + 1
        offered(v) == IF Len(viewer[v].queue) < Room THEN [viewer[v] EXCEPT !.queue = Append(@, n)]
                                                     ELSE [viewer[v] EXCEPT !.lost = @ \cup {n}]
    IN  /\ n <= MaxAdds
        /\ history' = Append(history, [source |-> source, shown |-> shown])
        /\ data' = [data EXCEPT ![offset] = n]
        /\ offset' = (offset + 1) % RingSize /\ full' = (full \/ offset + 1 = RingSize)
        /\ viewer' = [v \in Viewers |-> IF v \in Watching THEN offered(v) ELSE viewer[v]]
        /\ UNCHANGED cleared

\* Called by the store's tests only: the old entries stay in the array.
Reset ==
    /\ cleared < Len(history) /\ cleared' = Len(history)
    /\ offset' = 0 /\ full' = FALSE /\ UNCHANGED <<data, history, viewer>>

Subscribe(v) ==
    /\ viewer[v] = Nothing
    /\ viewer' = [viewer EXCEPT ![v] = [queue |-> <<>>, sent |-> Limited, lost |-> {},
                                        since |-> Len(history), cleared |-> cleared]]
    /\ UNCHANGED <<data, offset, full, history, cleared>>

Stream(v) ==
    /\ v \in Watching /\ viewer[v].queue # <<>>
    /\ LET n == Head(viewer[v].queue) IN
       viewer' = [viewer EXCEPT ![v].queue = Tail(@), ![v].sent = IF Matches(n) THEN Append(@, n) ELSE @]
    /\ UNCHANGED <<data, offset, full, history, cleared>>

\* The client leaves, or a write to it fails.
Leave(v) ==
    /\ v \in Watching /\ viewer' = [viewer EXCEPT ![v] = Done]
    /\ UNCHANGED <<data, offset, full, history, cleared>>

LogNext ==
    \/ \E s \in Sources, b \in BOOLEAN : Add(s, b)
    \/ \E v \in Viewers : Subscribe(v) \/ Stream(v) \/ Leave(v)
    \/ Reset

-----------------------------------------------------------------------------

Numbers == 1..MaxAdds

LogTypeOK ==
    /\ data \in [0..(RingSize - 1) -> {0} \cup Numbers] /\ offset \in 0..(RingSize - 1) /\ full \in BOOLEAN
    /\ history \in Seq([source : Sources, shown : BOOLEAN]) /\ cleared \in 0..Len(history)
    /\ \A v \in Watching : /\ Range(viewer[v].queue) \cup Range(viewer[v].sent) \cup viewer[v].lost \subseteq Numbers
                           /\ Len(viewer[v].queue) <= Room

\* The ring holds the newest entries since the last Reset, in order.
RingNewest ==
    LET count == Min({RingSize, Len(history) - cleared})
    IN  EntriesLocked = [i \in 1..count |-> Len(history) - count + i]

\* A viewer gets, once and in order, the newest few of each source when it
\* came and every later entry, but for those its channel had no room for.
StreamExact ==
    \A v \in Watching :
        LET c == viewer[v]
            all == c.sent \o SelectSeq(c.queue, Matches)
            old(n) == n <= c.since /\ n > c.cleared /\ n > c.since - RingSize
            newer(n) == {m \in (n + 1)..c.since : Matches(m) /\ history[m].source = history[n].source}
        IN  /\ \A i \in 2..Len(all) : all[i - 1] < all[i]
            /\ Range(all) = {n \in DOMAIN history :
                                /\ Matches(n)
                                /\ \/ n > c.since /\ n \notin c.lost
                                   \/ old(n) /\ Cardinality(newer(n)) < PerSource}
=============================================================================
