--------------------------- MODULE V1RequestTracker ---------------------------
(* What the router makes of the lines of a worker: V1WorkerProtocolDecoder    *)
(* takes a line for an event, V1RequestTracker holds the event against what   *)
(* the request has come to.  A line that either refuses is a fault, for which *)
(* the whole worker is killed.                                                *)
(*                                                                            *)
(* The pipe keeps the order of lines, so that of a sequence number only its   *)
(* being the next one matters.  Of the tombstones the oldest are forgotten    *)
(* beyond a limit; both "terminal" and "unknown" refuse every event.          *)
EXTENDS Naturals

RequestEvents == {"accepted", "started", "token", "prefill_progress", "completed",
                  "failed"}
WorkerEvents == {"ready", "telemetry", "diagnostic"}
Terminals == {"completed", "failed"}

(* A line is "garbage" if it is too long, no JSON object, of another version, *)
(* of an unknown type or not of its type's shape.                             *)
Line(type, id, inSequence) == [type |-> type, id |-> id, inSequence |-> inSequence]

NewTracker(ids) == [negotiated |-> FALSE, state |-> [i \in ids |-> "unknown"]]

(* decode: ready comes once and first. *)
Decodes(tracker, line) ==
    /\ line.type \in RequestEvents \cup WorkerEvents
    /\ tracker.negotiated <=> line.type # "ready"

Register(tracker, id) == [tracker EXCEPT !.state[id] = "registered"]

(* For the mutants: only what has started may end. *)
FollowsStrictly(state, type) ==
    CASE type = "accepted"   -> state = "registered"
      [] type = "started"    -> state = "accepted"
      [] OTHER               -> state = "started"

(* Which event may come in which state. *)
Follows(state, type) ==
    CASE type = "accepted"   -> state = "registered"
      [] type = "started"    -> state = "accepted"
      [] type \in Terminals  -> state \in {"accepted", "started"}
      [] OTHER               -> state = "started"

Accepts(tracker, line) ==
    /\ Decodes(tracker, line)
    /\ line.type \in RequestEvents =>
          /\ line.id \in DOMAIN tracker.state /\ line.inSequence
          /\ Follows(tracker.state[line.id], line.type)

(* consume: what an event that is accepted does. *)
Consume(tracker, line) ==
    CASE line.type = "ready"                   -> [tracker EXCEPT !.negotiated = TRUE]
      [] line.type \in {"accepted", "started"} ->
            [tracker EXCEPT !.state[line.id] = line.type]
      [] line.type \in Terminals               ->
            [tracker EXCEPT !.state[line.id] = "terminal"]
      [] OTHER                                 -> tracker
=============================================================================
