------------------------------ MODULE TokenUsage ------------------------------
(***************************************************************************)
(* What the gateway learns from a worker's answer about tokens and tool    *)
(* calls (gateway/metrics.go).  A streamed answer is read in chunks as they *)
(* come and collected line by line; any other is parsed as a whole.  A body *)
(* is a sequence of symbols: a newline, a space, the prefix of an event, and *)
(* JSON objects.  A line tells something only if it is the prefix and one  *)
(* object.                                                                 *)
(***************************************************************************)
EXTENDS Integers, Sequences, FiniteSets, SequencesExt, TLC

CONSTANTS
    LineLimit,      \* sseMetadataLineLimit
    BodyLimit,      \* bound on a body
    ChunkLimit,     \* bound on what one Read returns
    Nothing

UsageAssumption == {LineLimit, BodyLimit, ChunkLimit} \subseteq Nat

VARIABLES
    body,       \* what the worker has sent (history)
    pending, discardLine, values,   \* the usageStreamCollector; values are its accumulator's
    result      \* what is recorded of the request

usageVars == <<body, pending, discardLine, values, result>>

\* A first event that names a tool call and a last one with the timings: the
\* fields of usage, timings and choices that each object has.
Objects == [
    first |-> [usage |-> [prompt |-> 2], timings |-> <<>>, tools |-> {"a"}, reason |-> <<>>],
    last  |-> [usage |-> [generated |-> 1, total |-> 4], timings |-> [prompt_n |-> 1, predicted_n |-> 3],
               tools |-> {"a", "b"}, reason |-> [finish_reason |-> "stop"]]]

Symbols == {"newline", "space", "data"} \cup DOMAIN Objects
NoUsage == [prompt |-> 0, generated |-> 0, total |-> 0, stats |-> <<>>, tools |-> {}]

IntValue(f, k) == IF k \in DOMAIN f THEN f[k] ELSE 0
Either(new, old) == IF new > 0 THEN new ELSE old

UsageFromObject(o) ==
    LET used(k) == IntValue(o.usage, k)
        prompt    == Either(used("prompt"), IntValue(o.timings, "prompt_n"))
        generated == Either(used("generated"), IntValue(o.timings, "predicted_n"))
    IN  [prompt |-> prompt, generated |-> generated, stats |-> o.timings,
         total |-> Either(used("total"), Either(used("prompt") + used("generated"), prompt + generated))]

\* addObject: later values replace earlier ones, tool calls add up.
AddObject(u, o) ==
    LET c == UsageFromObject(o)
    IN  [prompt |-> Either(c.prompt, u.prompt), generated |-> Either(c.generated, u.generated),
         total |-> Either(c.total, u.total), stats |-> o.reason @@ c.stats @@ u.stats, tools |-> u.tools \cup o.tools]

\* addRaw: nothing but a single object is valid.
AddRaw(u, s) == IF Len(s) = 1 /\ s[1] \in DOMAIN Objects THEN AddObject(u, Objects[s[1]]) ELSE u

TrimSpace(s) ==
    LET solid == {i \in DOMAIN s : s[i] \notin {"space", "newline"}}
    IN  IF solid = {} THEN <<>> ELSE SubSeq(s, Min(solid), Max(solid))

ProcessLine(u, line) ==
    LET s == TrimSpace(line)
    IN  IF s # <<>> /\ Head(s) = "data" THEN AddRaw(u, TrimSpace(Tail(s))) ELSE u

Lines(s) ==
    LET breaks == {0, Len(s) + 1} \cup {i \in DOMAIN s : s[i] = "newline"}
        nth(k) == CHOOSE i \in breaks : Cardinality({j \in breaks : j < i}) = k
    IN  [k \in 1..(Cardinality(breaks) - 1) |-> SubSeq(s, nth(k - 1) + 1, nth(k) - 1)]

ResultOf(u) == IF u.tools = {} THEN u
               ELSE [u EXCEPT !.stats = ("tool_calls" :> Cardinality(u.tools)) @@ @]

ParseUsage(s) ==
    LET t == TrimSpace(s)
    IN  ResultOf(FoldLeft(ProcessLine, AddRaw(NoUsage, t), Lines(s)))

-----------------------------------------------------------------------------
(* The collector.                                                          *)

UsageInit ==
    /\ body = <<>> /\ pending = <<>> /\ discardLine = FALSE /\ values = NoUsage /\ result = Nothing

\* What Feed does with the rest of a line, and with a chunk's end.
EndLine(c, segment) ==
    [pending |-> <<>>, discardLine |-> FALSE,
     values |-> IF ~c.discardLine /\ Len(c.pending) + Len(segment) <= LineLimit
                THEN ProcessLine(c.values, c.pending \o segment) ELSE c.values]

KeepRest(c, rest) ==
    IF c.discardLine THEN c
    ELSE IF Len(c.pending) + Len(rest) > LineLimit THEN [c EXCEPT !.pending = <<>>, !.discardLine = TRUE]
    ELSE [c EXCEPT !.pending = @ \o rest]

Fed(chunk) ==
    LET c == [pending |-> pending, discardLine |-> discardLine, values |-> values]
        parts == Lines(chunk)
    IN  KeepRest(FoldLeft(EndLine, c, Front(parts)), Last(parts))

Finished(c) == IF ~c.discardLine /\ c.pending # <<>> THEN ProcessLine(c.values, c.pending) ELSE c.values

Chunks == {<<>>} \cup UNION {[1..n -> Symbols] : n \in 1..ChunkLimit}

Feed(chunk) ==
    /\ chunk # <<>> /\ body' = body \o chunk
    /\ LET c == Fed(chunk) IN pending' = c.pending /\ discardLine' = c.discardLine /\ values' = c.values
    /\ UNCHANGED result

\* The stream ends, with a last chunk or without, or the client leaves and the
\* result is taken of what has come.
Finish(chunk) ==
    LET c == Fed(chunk) IN
    /\ body' = body \o chunk /\ pending' = <<>> /\ discardLine' = c.discardLine
    /\ values' = Finished(c) /\ result' = ResultOf(Finished(c))

UsageNext ==
    \E chunk \in Chunks :
        /\ result = Nothing /\ Len(body) + Len(chunk) <= BodyLimit
        /\ Feed(chunk) \/ Finish(chunk)

-----------------------------------------------------------------------------

UsageTypeOK ==
    /\ body \in Seq(Symbols) /\ pending \in Seq(Symbols) /\ discardLine \in BOOLEAN
    /\ Len(pending) <= LineLimit
    /\ {values.prompt, values.generated, values.total} \subseteq Nat
    /\ result # Nothing => {result.prompt, result.generated, result.total} \subseteq Nat

\* However an answer is cut into chunks, what is recorded of it is what its
\* lines say, but for those too long to keep; with no such line it is what the
\* parser of whole bodies finds, unless the body is one bare object.
ChunksAgree ==
    result # Nothing =>
        LET lines == Lines(body)
            short == SelectSeq(lines, LAMBDA l : Len(l) <= LineLimit)
        IN  /\ result = ResultOf(FoldLeft(ProcessLine, NoUsage, short))
            /\ short = lines /\ (TrimSpace(body) = <<>> \/ TrimSpace(body)[1] \notin DOMAIN Objects)
                  => result = ParseUsage(body)
=============================================================================
