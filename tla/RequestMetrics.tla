---------------------------- MODULE RequestMetrics ----------------------------
(* MetricsCollector and the CacheEventStore beneath it: what the dashboard     *)
(* shows of requests, in memory and on disk.  A request is started and         *)
(* finished; DELETE /clap/v1/dashboard begins a new accounting epoch in        *)
(* between; an append may fail and the server may be restarted, or killed in   *)
(* the middle of an append.                                                    *)
(*                                                                             *)
(* Every line counts as one byte.  Rates, histograms and the fields of a       *)
(* record that nothing decides on are left out.                                *)
EXTENDS Integers, FiniteSets, SequencesExt

CONSTANTS
    Observed,
    Results,        \* what finish is told: [status, hit], hit being "yes", "no" or "none"
    HistoryLimit,
    SegmentBytes,   \* configured size of a segment
    Limits,         \* values maxBytes may be configured to
    MaxAge,
    MaxTime,        \* bound: clock ticks
    MaxFailures,    \* bound: appends that throw
    MaxStarts       \* bound: starts of the server

ASSUME MetricsAssumption ==
    /\ IsFiniteSet(Observed)
    /\ Results \subseteq [status : {"ok", "error", "cancelled"}, hit : {"yes", "no", "none"}]
    /\ HistoryLimit \in Nat /\ MaxAge \in Nat /\ Limits \subseteq Nat

VARIABLES
    state,          \* per request: "new", "active", "finished", "lost" or "gone"
    generation,     \* requestGeneration of each request's handle
    intent,         \* requests with a cache intent
    resetGeneration, history, byId, totals,
    rotated,        \* closed segments, oldest first
    currentSegment, \* the segment that is written
    maxBytes, now,
    born,           \* per request: how often the dashboard had been reset at its start
    resets,
    stored,         \* events whose lines were written since the last reset
    tail,           \* what a failed append left: "whole", "torn", or "spoilt" by the next
    failures, starts

memory == <<state, generation, intent, resetGeneration, history, byId, totals>>
disk == <<rotated, currentSegment>>
metricsVars == <<memory, disk, maxBytes, now, born, resets, stored, tail, failures,
                 starts>>

Fields == {"requests", "ok", "error", "cancelled", "physicalHits", "physicalMisses",
           "hits", "misses", "notEligible"}
NoTotals == [f \in Fields |-> 0]
Segment(lines, mtime) == [lines |-> lines, mtime |-> mtime]
NoSegment == Segment(<< >>, 0)
Event(r, at) == [kind |-> "event", request |-> r, at |-> at]
Torn == [kind |-> "torn"]
Malformed == [kind |-> "malformed"]

MetricsInit ==
    /\ state = [r \in Observed |-> "new"] /\ generation = [r \in Observed |-> 0]
    /\ intent = {} /\ resetGeneration = 0 /\ history = << >> /\ byId = {}
    /\ totals = NoTotals
    /\ rotated = << >> /\ currentSegment = NoSegment
    /\ maxBytes \in Limits /\ now = 0
    /\ born = [r \in Observed |-> 0] /\ resets = 0 /\ stored = << >>
    /\ tail = "whole" /\ failures = 0 /\ starts = 1

-----------------------------------------------------------------------------
(* CacheEventStore *)

Take(s, n) == SubSeq(s, 1, n)
Drop(s, n) == SubSeq(s, n + 1, Len(s))
Size(segments) == FoldLeft(LAMBDA n, s : n + Len(s.lines), 0, segments)
SegmentLimit == IF SegmentBytes < maxBytes THEN SegmentBytes ELSE maxBytes

(* rotateCurrent, when the next line would make the segment too large. *)
RotatedFirst(d) ==
    IF d[2].lines # << >> /\ Len(d[2].lines) + 1 > SegmentLimit
    THEN <<Append(d[1], d[2]), NoSegment>> ELSE d

(* What is written behind a line without an end becomes part of it. *)
Written(d, line) ==
    LET lines == d[2].lines
        open == lines # << >> /\ Last(lines) = Torn
        joined == IF line = Torn THEN Torn ELSE Malformed
    IN  <<d[1], Segment(IF open THEN Append(Front(lines), joined) ELSE Append(lines, line),
                        now)>>

(* What becomes of the tail when a line, a part of one, or nothing is written. *)
TailAfter(d, written) ==
    LET joins == tail = "torn" /\ d[2] = currentSegment
    IN  IF tail = "spoilt" THEN "spoilt"
        ELSE CASE written = "line" /\ joins      -> "spoilt"
               [] written = "part"               -> "torn"
               [] written = "nothing" /\ joins   -> "torn"
               [] OTHER                          -> "whole"

(* For the mutants: the limit falls upon the newest segments. *)
RetainedOldest(d, limit) ==
    LET kept == CHOOSE k \in 0 .. Len(d[1]) :
                    /\ k = 0 \/ Size(Take(d[1], k)) + Len(d[2].lines) <= limit
                    /\ \A j \in k + 1 .. Len(d[1]) :
                           Size(Take(d[1], j)) + Len(d[2].lines) > limit
    IN  <<Take(d[1], kept), d[2]>>

(* trimCurrentToBytes gives every line it keeps an end. *)
Trimmed(s, limit) ==
    LET excess == IF Len(s.lines) > limit THEN Len(s.lines) - limit ELSE 0
        kept == Drop(s.lines, excess)
    IN  Segment([i \in DOMAIN kept |-> IF kept[i] = Torn THEN Malformed ELSE kept[i]], now)

OnlyIf(keep, x) == IF keep THEN <<x>> ELSE << >>

Young(segments, cutoff) ==
    FlattenSeq([i \in DOMAIN segments |-> OnlyIf(segments[i].mtime >= cutoff, segments[i])])

(* enforceRetention: segments that are too old, then the oldest until the rest *)
(* fits, then the beginning of the current one.                                *)
Retained(d, limit) ==
    LET young == Young(d[1], now - MaxAge)
        Fits(n) == Size(Drop(young, n)) + Len(d[2].lines) <= limit
        n == CHOOSE n \in 0 .. Len(young) :
                 /\ n = Len(young) \/ Fits(n)
                 /\ \A m \in 0 .. n - 1 : ~ Fits(m)
    IN  <<Drop(young, n), IF Fits(n) THEN d[2] ELSE Trimmed(d[2], limit)>>

(* recoverCurrentTail: everything from the first line that is no event. *)
Recovered(d) ==
    LET lines == d[2].lines
        n == CHOOSE n \in 0 .. Len(lines) :
                 /\ \A i \in 1 .. n : lines[i].kind = "event"
                 /\ n < Len(lines) => lines[n + 1].kind # "event"
    IN  IF n = Len(lines) THEN d ELSE <<d[1], Segment(Take(lines, n), now)>>

Fresh(lines, cutoff) ==
    FlattenSeq([i \in DOMAIN lines |->
                  OnlyIf(lines[i].kind = "event" /\ lines[i].at >= cutoff, lines[i])])

(* readAll *)
ReadFrom(segments, cutoff) ==
    FlattenSeq([i \in DOMAIN segments |-> Fresh(segments[i].lines, cutoff)])
Readable == ReadFrom(Append(rotated, currentSegment), now - MaxAge)

-----------------------------------------------------------------------------
(* MetricsCollector *)

StartRequest(r) ==
    /\ state[r] = "new"
    /\ state' = [state EXCEPT ![r] = "active"]
    /\ generation' = [generation EXCEPT ![r] = resetGeneration]
    /\ intent' \in {intent, intent \cup {r}}
    /\ byId' = byId \cup {r}
    /\ totals' = [totals EXCEPT !.requests = @ + 1]
    /\ born' = [born EXCEPT ![r] = resets]
    /\ UNCHANGED <<resetGeneration, history, disk, maxBytes, now, resets, stored, tail,
                   failures, starts>>

(* For the mutants: the outcome of any request is accounted. *)
CurrentAlways(r) == TRUE

Current(r) == generation[r] = resetGeneration

(* finish of a request that started before a reset. *)
FinishStale(r) ==
    /\ state[r] = "active" /\ ~Current(r)
    /\ state' = [state EXCEPT ![r] = "finished"]
    /\ UNCHANGED <<generation, intent, resetGeneration, history, byId, totals, disk,
                   maxBytes, now, born, resets, stored, tail, failures, starts>>

Plus(t, fields) == [f \in Fields |-> IF f \in fields THEN t[f] + 1 ELSE t[f]]

CacheFields(r, result) ==
    CASE result.hit = "yes"  -> {"physicalHits", IF r \in intent THEN "hits"
                                                 ELSE "notEligible"}
      [] result.hit = "no"   -> {"physicalMisses", IF r \in intent THEN "misses"
                                                   ELSE "notEligible"}
      [] result.hit = "none" -> {"notEligible"}

Forgets(removed) == byId \ removed

Remembers(r) ==
    LET longer == Append(history, r)
        excess == Len(longer) > HistoryLimit
    IN  /\ history' = IF excess THEN Tail(longer) ELSE longer
        /\ byId' = Forgets(IF excess THEN {Head(longer)} ELSE {})

Finish(r) ==
    /\ state[r] = "active" /\ Current(r)
    /\ \E result \in Results :
          totals' = Plus(totals, {result.status} \cup CacheFields(r, result))
    /\ LET d == Retained(Written(RotatedFirst(disk), Event(r, now)), maxBytes)
       IN  rotated' = d[1] /\ currentSegment' = d[2]
    /\ stored' = Append(stored, Event(r, now))
    /\ tail' = TailAfter(RotatedFirst(disk), "line")
    /\ Remembers(r)
    /\ state' = [state EXCEPT ![r] = "finished"]
    /\ UNCHANGED <<generation, intent, resetGeneration, maxBytes, now, born, resets,
                   failures, starts>>

(* append throws, before it has written, in the middle of the line, or behind  *)
(* it, and the rest of finish is skipped.                                      *)
FinishThrows(r) ==
    /\ state[r] = "active" /\ Current(r) /\ failures < MaxFailures
    /\ failures' = failures + 1
    /\ \E result \in Results : totals' = Plus(totals, {result.status})
    /\ \E written \in {"nothing", "part", "line"} :
          LET before == RotatedFirst(disk)
              d == CASE written = "nothing" -> before
                     [] written = "part"    -> Written(before, Torn)
                     [] written = "line"    -> Written(before, Event(r, now))
          IN  /\ rotated' = d[1] /\ currentSegment' = d[2]
              /\ stored' = IF written = "line" THEN Append(stored, Event(r, now))
                           ELSE stored
              /\ tail' = TailAfter(before, written)
    /\ state' = [state EXCEPT ![r] = "lost"]
    /\ UNCHANGED <<generation, intent, resetGeneration, history, byId, maxBytes, now, born,
                   resets, starts>>

(* DELETE /clap/v1/dashboard: clear, then resetDashboard. *)
Reset ==
    /\ rotated' = << >> /\ currentSegment' = NoSegment
    /\ resetGeneration' = resetGeneration + 1
    /\ history' = << >> /\ byId' = {} /\ totals' = NoTotals
    /\ resets' = resets + 1 /\ stored' = << >> /\ tail' = "whole"
    /\ UNCHANGED <<state, generation, intent, maxBytes, now, born, failures, starts>>

(* One of the files cannot be removed: those before it are, and no more. *)
ResetThrows ==
    /\ failures < MaxFailures /\ failures' = failures + 1
    /\ \E n \in 1 .. Len(rotated) : rotated' = Drop(rotated, n)
    /\ UNCHANGED <<memory, currentSegment, maxBytes, now, born, resets, stored, tail,
                   starts>>

(* The server stops, at once or in the middle of an append, and is started     *)
(* again with a configuration that may have changed.                           *)
Restart ==
    /\ starts < MaxStarts /\ starts' = starts + 1
    /\ maxBytes' \in Limits
    /\ \E interrupted \in {r \in Observed : state[r] = "active" /\ Current(r)} \cup {"none"} :
          LET left == IF interrupted = "none" THEN disk
                      ELSE Written(RotatedFirst(disk), Torn)
              d == Retained(Recovered(left), maxBytes')
          IN  rotated' = d[1] /\ currentSegment' = d[2]
    /\ tail' = IF tail = "torn" THEN "whole" ELSE tail
    /\ state' = [r \in Observed |-> IF state[r] = "new" THEN "new" ELSE "gone"]
    /\ resetGeneration' = 0 /\ history' = << >> /\ byId' = {} /\ totals' = NoTotals
    /\ UNCHANGED <<generation, intent, now, born, resets, stored, failures>>

Tick ==
    /\ now < MaxTime /\ now' = now + 1
    /\ UNCHANGED <<memory, disk, maxBytes, born, resets, stored, tail, failures, starts>>

MetricsNext ==
    \/ \E r \in Observed :
           StartRequest(r) \/ Finish(r) \/ FinishStale(r) \/ FinishThrows(r)
    \/ (resets < Cardinality(Observed) /\ Reset)
    \/ ResetThrows \/ Restart \/ Tick

MetricsSpec == MetricsInit /\ [][MetricsNext]_metricsVars

-----------------------------------------------------------------------------
InEpoch(s) == {r \in Observed : state[r] = s /\ Current(r)}

Events == [kind : {"event"}, request : Observed, at : Nat]
Lines == Events \cup {Torn, Malformed}
Segments == [lines : Seq(Lines), mtime : Nat]

(* The types of the variables. *)
MetricsTypeOK ==
    /\ state \in [Observed -> {"new", "active", "finished", "lost", "gone"}]
    /\ generation \in [Observed -> Nat] /\ intent \subseteq Observed
    /\ history \in Seq(Observed) /\ byId \subseteq Observed
    /\ totals \in [Fields -> Nat] /\ resetGeneration \in Nat
    /\ rotated \in Seq(Segments) /\ currentSegment \in Segments
    /\ maxBytes \in Limits /\ now \in Nat /\ born \in [Observed -> Nat] /\ resets \in Nat
    /\ stored \in Seq(Events) /\ tail \in {"whole", "torn", "spoilt"}
    /\ failures \in Nat /\ starts \in Nat

(* A reset begins a new epoch and the totals of an epoch add up: each request *)
(* of it is running or counted under its outcome, and each that was accounted  *)
(* to the end is a hit, a miss or not eligible, with no more hits or misses    *)
(* than the cache has seen and intents were stated.  A request that began      *)
(* before the reset appears neither in the history nor in the log afterwards,  *)
(* whenever it ends and however often the server starts.                       *)
EpochBalances ==
    LET ended == totals.ok + totals.error + totals.cancelled
    IN  /\ totals.requests = ended + Cardinality(InEpoch("active"))
        /\ ended = totals.hits + totals.misses + totals.notEligible
                       + Cardinality(InEpoch("lost"))
        /\ totals.hits <= totals.physicalHits /\ totals.misses <= totals.physicalMisses
        /\ totals.hits + totals.misses <= Cardinality({r \in intent : Current(r)})
        /\ \A i \in DOMAIN history : born[history[i]] = resets
        /\ \A i \in DOMAIN Readable : born[Readable[i].request] = resets

(* The log is the newest part of what was stored since the last reset and is   *)
(* not too old: nothing is lost but from its beginning, in no order but its    *)
(* own, unless a line was written behind one that a failed append had torn.    *)
LogIsNewest ==
    tail # "spoilt" =>
        IsSuffix(Readable, Fresh(stored, now - MaxAge))
=============================================================================
