---------------------------- MODULE StreamedAnswer ----------------------------
(* The answer to one chat request that has its slot and its lease, streamed    *)
(* (streamResidentResponse, strictStreamSSE) or not (jsonResidentResponse):    *)
(* tokens of the worker go through the filter into a queue of writes, beside   *)
(* a heartbeat and the writes of the route itself, and through a pipe to a     *)
(* client that reads slowly or leaves; an operator may cancel at any time.     *)
(* Two more routes ask the chat route on behalf of their client and translate  *)
(* what it answers: "ollama" reads the stream and writes lines of its own,     *)
(* "responses" waits for the whole answer and tells it in events.              *)
(*                                                                             *)
(* The first chunk, which names the role, is in the response from the start:   *)
(* it gets there before the server can hear of the client again.               *)
EXTENDS Integers, FiniteSets, SequencesExt, V1RequestTracker

CONSTANTS
    Symbols,        \* what texts are made of
    AnswerTexts,    \* texts the worker may generate
    FreshFilter,    \* a new StreamingOutputFilter
    Filtered(_, _), \* what one is after it is fed, and what it lets through
    Parsed(_),      \* parseAssistantOutput
    Remaining(_, _),   \* remainingDelta
    Filters,        \* what a filter may be behind each part of each text
    Beats           \* bound: heartbeats

Modes == {"content", "reasoning"}
Take(s, n) == SubSeq(s, 1, n)
Between(s, m, n) == SubSeq(s, m + 1, n)

(* The filter lets text through for content or for reasoning, however what it  *)
(* is fed is cut, and so do the parsers of the whole: never anything else.     *)
ASSUME AnswerAssumption ==
    /\ Beats \in Nat
    /\ \A t \in AnswerTexts :
          /\ t \in Seq(Symbols) /\ FreshFilter \in Filters[t][0]
          /\ \A n \in 0 .. Len(t) : \A f \in Filters[t][n] :
                /\ f.deltas \in Seq(Modes \X Seq(Symbols))
                /\ \A k \in n .. Len(t) : Filtered(f, Between(t, n, k)) \in Filters[t][k]
                /\ \A m \in Modes :
                      Remaining(Parsed(Take(t, n))[m], f.emitted[m]) \in Seq(Symbols)
          /\ \A n \in 0 .. Len(t) : \A m \in Modes :
                Parsed(Take(t, n))[m] \in Seq(Symbols)

VARIABLES
    route,
    text, fed,  \* what the worker generates, how much of it has arrived
    reading,    \* what the parsers make of the text, wherever the worker ends it
    filter,
    at,         \* where the route is
    worker,     \* what has become of worker.chat
    tracker,    \* of the launch
    said,       \* the last line of the worker about the chat
    command,    \* what has become of the cancel command
    blame,      \* whose is the line that was refused
    writes,     \* writeQueue: chunks whose turn has not come
    owed,       \* the writes an await of writeQueue still waits for
    script,     \* what the route itself has to write
    pipe,       \* chunks being written, each by the queue or by the route
    buffer,     \* what the response holds for the client
    received,   \* what the client has read
    connected,  \* whether someone reads the response
    left,       \* whether the client behind another route has gone
    adapter,    \* the reader of the stream behind the Ollama route
    aborted, registered,
    cancelled,  \* whether the operator was told "cancelled", and when
    status,     \* of the handle
    parsed,     \* what the parsers have found in the text
    beats       \* heartbeats so far

wire == <<tracker, said, command, blame>>
client == <<buffer, received, connected, left, adapter>>
request == <<registered, cancelled, status, parsed>>
answerVars ==
    <<route, text, reading, fed, filter, at, worker, wire, writes, owed, script, pipe,
      client, aborted, request, beats>>

Routes == {"stream", "json", "ollama", "responses"}
Streamed == route \in {"stream", "ollama"}

Delta(mode, t) == [kind |-> mode, text |-> t]
Chunk(kind) == [kind |-> kind, text |-> << >>]
By(writer, chunk) == [writer |-> writer, chunk |-> chunk]

AnswerInit ==
    /\ route \in Routes /\ text \in AnswerTexts /\ fed = 0
    /\ reading = [n \in 0 .. Len(text) |-> Parsed(Take(text, n))]
    /\ filter = FreshFilter
    /\ at = "loading" /\ worker = "idle"
    /\ tracker = Consume(NewTracker({"chat", "cancel"}), Line("ready", "none", TRUE))
    /\ said = "nothing" /\ command = "no" /\ blame = "none"
    /\ writes = << >> /\ owed = 0 /\ script = << >> /\ pipe = << >>
    /\ buffer = IF Streamed THEN <<Chunk("role")>> ELSE << >>
    /\ received = << >> /\ connected = TRUE /\ left = FALSE
    /\ adapter = IF route = "ollama" THEN "reading" ELSE "none"
    /\ aborted = FALSE
    /\ registered = TRUE /\ cancelled = "no" /\ status = "active"
    /\ parsed = reading[0]
    /\ beats = 0

-----------------------------------------------------------------------------

ByQueue == Cardinality({i \in DOMAIN pipe : pipe[i].writer = "queue"})
ByRoute == Cardinality({i \in DOMAIN pipe : pipe[i].writer = "route"})

(* finish: only the first counts. *)
Finishes(s) == status' = IF status = "active" THEN s ELSE status

(* finally, and onDone: usage, registry entry, slot and lease go back. *)
Ends == at' = "ended" /\ registered' = FALSE

(* For the mutants: the queued writes are not waited for. *)
OwedNothing(queue) == 0

(* What an await of writeQueue waits for. *)
Owed(queue) == Len(queue) + ByQueue

(* catch begins by awaiting writeQueue. *)
Throws == at' = "caught" /\ owed' = Owed(writes)

JsonEnds(s, body) ==
    /\ Finishes(s) /\ Ends
    /\ received' = IF s # "error" /\ connected THEN body ELSE received
    /\ UNCHANGED <<owed, buffer, connected, left, adapter>>

Fails ==
    IF Streamed THEN Throws /\ UNCHANGED <<client, registered, status>>
    ELSE JsonEnds("error", << >>)

(* sendControl: an aborted signal sends the cancel command while the chat is   *)
(* pending.                                                                    *)
CancelSent ==
    /\ command' = "sent"
    /\ tracker' = Register(IF worker = "idle" THEN Register(tracker, "chat") ELSE tracker,
                           "cancel")

Aborts ==
    /\ aborted' = TRUE
    /\ IF worker = "generating" /\ ~aborted THEN CancelSent
       ELSE UNCHANGED <<tracker, command>>
    /\ UNCHANGED <<said, blame>>

(* worker.load, then worker.chat. *)
Load ==
    /\ at = "loading"
    /\ \/ /\ at' = "chatting" /\ worker' = "generating"
          /\ IF aborted THEN CancelSent
             ELSE tracker' = Register(tracker, "chat") /\ UNCHANGED command
          /\ UNCHANGED <<said, blame, owed, client, registered, status>>
       \/ Fails /\ UNCHANGED <<worker, wire>>
    /\ UNCHANGED <<route, text, reading, fed, filter, writes, script, pipe, aborted,
                   cancelled,
                   parsed, beats>>

-----------------------------------------------------------------------------
(* Lines of the worker.  ProtocolWriter and dispatch of the llama worker: a    *)
(* request is accepted when it is read, starts when a sequence is free, and    *)
(* ends once; a cancel ends a waiting one at once and an active one at the     *)
(* next tick, unless it has ended before.                                      *)

ChatLine(type) == Line(type, "chat", TRUE)
CancelLine(type) == Line(type, "cancel", TRUE)

Hears(type) ==
    /\ worker = "generating" /\ Accepts(tracker, ChatLine(type))
    /\ tracker' = Consume(tracker, ChatLine(type))
    /\ said' = type /\ UNCHANGED blame

(* What a worker that keeps the protocol may say next. *)
CanSay(line) ==
    IF line.id = "cancel" THEN command = "sent" /\ said # "nothing"
    ELSE CASE line.type = "accepted"                    -> said = "nothing"
           [] line.type = "started"                     -> said = "accepted"
           [] line.type = "prefill_progress"            -> said = "started"
           [] line.type = "token"                       -> said \in {"started", "token"}
           [] line.type = "failed"  -> said \in {"accepted", "started", "token"}
           [] line.type = "completed"                   ->
                 said \in {"started", "token"} \/ (said = "accepted" /\ command = "read")
           [] OTHER                                     -> FALSE

(* accepted, started *)
Progress ==
    /\ \E type \in {"accepted", "started"} : Hears(type)
    /\ UNCHANGED <<route, text, reading, fed, filter, at, worker, command, writes,
                   owed, script,
                   pipe, client, aborted, request, beats>>

(* enqueueWrite; without a client the queue is rejected and takes no more. *)
Enqueued(chunks) == IF connected THEN writes \o chunks ELSE writes

(* onToken: n symbols of the text have arrived. *)
Arrives(n) ==
    LET f == Filtered(filter, Between(text, fed, n))
    IN  /\ fed' = n /\ filter' = f
        /\ writes' = IF Streamed
                     THEN Enqueued([i \in DOMAIN f.deltas |->
                                       Delta(f.deltas[i][1], f.deltas[i][2])])
                     ELSE writes

Token ==
    /\ fed < Len(text) /\ Hears("token")
    /\ \E n \in fed + 1 .. Len(text) : Arrives(n)
    /\ UNCHANGED <<route, text, reading, at, worker, command, owed, script, pipe,
                   client, aborted,
                   request, beats>>

Heartbeat ==
    /\ Streamed /\ at # "ended" /\ ~aborted /\ beats < Beats
    /\ beats' = beats + 1
    /\ writes' = Enqueued(<<Chunk("beat")>>)
    /\ UNCHANGED <<route, text, reading, fed, filter, at, worker, wire, owed, script,
                   pipe, client,
                   aborted, request>>

(* For the mutants: only the worker's word on a cancel counts. *)
WasCancelledByWorker(outcome) == outcome = "cancelled"

WasCancelled(outcome) == outcome = "cancelled" \/ aborted

(* What is left to tell once the queue has drained. *)
Closing(answer) ==
    LET Rest(mode) == Remaining(answer[mode], filter.emitted[mode])
        Told(mode) == IF Rest(mode) = << >> THEN << >> ELSE <<Delta(mode, Rest(mode))>>
    IN  Told("reasoning") \o (IF answer.call THEN <<Chunk("call")>> ELSE Told("content"))
        \o <<Chunk("finish"), Chunk("done")>>

(* responseFromChat and streamResponseBody: a call comes in place of the       *)
(* message.                                                                    *)
ResponseEvents(answer) ==
    LET Told(mode) == IF answer[mode] = << >> THEN << >> ELSE <<Delta(mode, answer[mode])>>
    IN  <<Chunk("created")>> \o Told("reasoning")
        \o (IF answer.call THEN <<Chunk("call")>> ELSE Told("content"))
        \o <<Chunk("completed")>>

Body(answer) ==
    IF route = "responses" THEN ResponseEvents(answer) ELSE <<Chunk("body")>>

(* What the route makes of the end of worker.chat after n symbols;             *)
(* chatResponse parses also what there is of a cancelled answer.               *)
Answered(n) ==
    IF Streamed
    THEN /\ at' = "draining" /\ owed' = Owed(writes')
         /\ UNCHANGED <<client, registered, status, parsed>>
    ELSE /\ parsed' = reading[n]
         /\ IF parsed'.fails THEN JsonEnds("error", << >>)
            ELSE JsonEnds(IF WasCancelled(worker') THEN "cancelled" ELSE "ok", Body(parsed'))

(* The worker reads the cancel command and accepts and completes it; a chat    *)
(* that waits for its turn ends in between.                                    *)
CancelProgress ==
    /\ worker # "failed" /\ said # "nothing"
    /\ \E type \in {"accepted", "completed"} :
          /\ command = (IF type = "accepted" THEN "sent" ELSE "read")
          /\ type = "completed" => said # "accepted"
          /\ Accepts(tracker, CancelLine(type))
          /\ tracker' = Consume(tracker, CancelLine(type))
          /\ command' = IF type = "accepted" THEN "read" ELSE "done"
    /\ UNCHANGED <<route, text, reading, fed, filter, at, worker, said, blame, writes,
                   owed, script,
                   pipe, client, aborted, request, beats>>

(* The chat is completed; the text in the result counts if no token came.  Of  *)
(* a cancelled chat only the MLX worker says so in the result.                 *)
Completed ==
    /\ Hears("completed")
    /\ worker' \in {"answered"} \cup IF command \in {"read", "done"} THEN {"cancelled"}
                                    ELSE {}
    /\ \E n \in {fed} \cup IF fed = 0 THEN {Len(text)} ELSE {} :
          Arrives(n) /\ Answered(n)
    /\ UNCHANGED <<route, text, reading, command, script, pipe, aborted, cancelled,
                   beats>>

(* The chat is rejected: by the worker, or with it when it exits. *)
ChatRejected ==
    /\ worker = "generating"
    /\ \/ Hears("failed") \/ UNCHANGED <<tracker, said, blame>>
    /\ worker' = "failed" /\ Fails
    /\ UNCHANGED <<route, text, reading, fed, filter, command, writes, script, pipe,
                   aborted,
                   cancelled, parsed, beats>>

(* protocolUnhealthy: a line is refused, and all that is pending is rejected.  *)
Refused ==
    /\ worker = "generating"
    /\ \E line \in {ChatLine(type) : type \in RequestEvents \cup {"ready", "garbage"}}
                  \cup {CancelLine("accepted"), Line("token", "chat", FALSE)} :
          /\ ~Accepts(tracker, line)
          /\ blame' = IF CanSay(line) /\ line.inSequence THEN "router" ELSE "worker"
    /\ worker' = "failed" /\ Fails
    /\ UNCHANGED <<route, text, reading, fed, filter, tracker, said, command, writes,
                   script, pipe,
                   aborted, cancelled, parsed, beats>>

Drained ==
    /\ at = "draining" /\ owed = 0
    /\ IF WasCancelled(worker)
       THEN Finishes("cancelled") /\ Ends /\ UNCHANGED <<owed, script, parsed>>
       ELSE /\ parsed' = reading[fed]
            /\ IF parsed'.fails THEN Throws /\ UNCHANGED <<script, registered, status>>
               ELSE /\ script' = Closing(parsed') /\ at' = "telling"
                    /\ UNCHANGED <<owed, registered, status>>
    /\ UNCHANGED <<route, text, reading, fed, filter, worker, wire, writes, pipe,
                   client, aborted,
                   cancelled, beats>>

(* The next write of the route itself; there is one at a time. *)
Tell ==
    /\ at = "telling" \/ (at = "apologizing" /\ connected)
    /\ script # << >> /\ ByRoute = 0
    /\ IF connected
       THEN /\ pipe' = Append(pipe, By("route", Head(script)))
            /\ script' = Tail(script)
            /\ UNCHANGED <<at, owed>>
       ELSE Throws /\ UNCHANGED <<pipe, script>>
    /\ UNCHANGED <<route, text, reading, fed, filter, worker, wire, writes, client,
                   aborted, request,
                   beats>>

Told ==
    /\ at = "telling" /\ script = << >> /\ ByRoute = 0
    /\ Finishes("ok") /\ Ends
    /\ UNCHANGED <<route, text, reading, fed, filter, worker, wire, writes, owed,
                   script, pipe, client,
                   aborted, cancelled, parsed, beats>>

(* catch *)
Catch ==
    /\ at = "caught" /\ owed = 0
    /\ IF aborted
       THEN Finishes("cancelled") /\ Ends /\ UNCHANGED script
       ELSE /\ Finishes("error") /\ at' = "apologizing"
            /\ script' = <<Chunk("error")>> /\ UNCHANGED registered
    /\ UNCHANGED <<route, text, reading, fed, filter, worker, wire, writes, owed, pipe,
                   client, aborted,
                   cancelled, parsed, beats>>

(* The error is written or cannot be. *)
Apologized ==
    /\ at = "apologizing" /\ ByRoute = 0 /\ (script = << >> \/ ~connected)
    /\ Ends /\ script' = << >>
    /\ UNCHANGED <<route, text, reading, fed, filter, worker, wire, writes, owed, pipe,
                   client, aborted,
                   cancelled, status, parsed, beats>>

(* writeQueue: the next write begins when the last one is taken.  Once the     *)
(* route has ended the writer is closed to new ones.                           *)
QueueWrites ==
    /\ at # "ended" /\ writes # << >> /\ ByQueue = 0
    /\ pipe' = Append(pipe, By("queue", Head(writes)))
    /\ writes' = Tail(writes)
    /\ UNCHANGED <<route, text, reading, fed, filter, at, worker, wire, owed, script,
                   client, aborted,
                   request, beats>>

(* pull: a write is over when its chunk is taken. *)
Pull ==
    /\ pipe # << >> /\ buffer = << >>
    /\ buffer' = <<Head(pipe).chunk>> /\ pipe' = Tail(pipe)
    /\ owed' = IF Head(pipe).writer = "queue" /\ owed > 0 THEN owed - 1 ELSE owed
    /\ UNCHANGED <<route, text, reading, fed, filter, at, worker, wire, writes, script,
                   received,
                   connected, left, adapter, aborted, request, beats>>

ClientReads ==
    /\ connected /\ adapter = "none" /\ buffer # << >>
    /\ received' = received \o buffer /\ buffer' = << >>
    /\ UNCHANGED <<route, text, reading, fed, filter, at, worker, wire, writes, owed,
                   script,
                   pipe, connected, left, adapter, aborted, request, beats>>

(* For the mutants: the writes under way are not rejected. *)
ClientLeavesQuietly ==
    /\ connected /\ ~left /\ at # "ended" /\ adapter = "none"
    /\ left' = TRUE /\ connected' = FALSE
    /\ IF route # "responses" THEN Aborts ELSE UNCHANGED <<wire, aborted>>
    /\ UNCHANGED <<route, text, reading, fed, filter, at, worker, writes, owed, script,
                   pipe,
                   buffer, received, adapter, request, beats>>

(* cancel of the response: writes under way and to come are rejected.  The     *)
(* client of another route is not heard of here.                               *)
ClientLeaves ==
    /\ connected /\ ~left /\ at # "ended" /\ adapter = "none"
    /\ left' = TRUE /\ connected' = FALSE
    /\ IF route # "responses" THEN Aborts ELSE UNCHANGED <<wire, aborted>>
    /\ writes' = << >> /\ pipe' = << >> /\ buffer' = << >>
    /\ owed' = 0
    /\ at' = IF at = "telling" /\ ByRoute > 0 THEN "caught" ELSE at
    /\ UNCHANGED <<route, text, reading, fed, filter, worker, script, received,
                   adapter, request,
                   beats>>

(* POST /clap/v1/requests/:id/cancel *)
OperatorCancels ==
    /\ registered /\ cancelled = "no"
    /\ cancelled' = IF at \in {"loading", "chatting"} THEN "early" ELSE "late"
    /\ Aborts
    /\ UNCHANGED <<route, text, reading, fed, filter, at, worker, writes, owed, script,
                   pipe,
                   client, registered, status, parsed, beats>>

-----------------------------------------------------------------------------
(* ollamaStreamFromSse: the stream is read at once into lines for a client     *)
(* whose leaving shows only when a line is written to it.                      *)

Lines(chunk) ==
    CASE chunk.kind \in Modes \cup {"call", "error"} -> <<chunk>>
      [] chunk.kind = "done"                        -> <<Chunk("final")>>
      [] OTHER                                      -> << >>

AdapterOnly ==
    UNCHANGED <<route, text, reading, fed, filter, at, worker, wire, writes, owed,
                script, pipe,
                connected, left, aborted, request, beats>>

AdapterReads ==
    /\ adapter = "reading" /\ buffer # << >>
    /\ buffer' = << >>
    /\ received' = IF left THEN received ELSE received \o Lines(Head(buffer))
    /\ adapter' = IF \/ Head(buffer).kind \in {"done", "error"}
                     \/ left /\ Lines(Head(buffer)) # << >>
                  THEN "stopped" ELSE adapter
    /\ AdapterOnly

(* The stream is over without [DONE]. *)
AdapterEnds ==
    /\ adapter = "reading" /\ at = "ended" /\ pipe = << >> /\ buffer = << >>
    /\ received' = IF left THEN received ELSE Append(received, Chunk("final"))
    /\ adapter' = "stopped" /\ UNCHANGED buffer
    /\ AdapterOnly

(* Nothing but the adapter's next write tells of a client that has left. *)
OllamaClientLeaves ==
    /\ adapter = "reading" /\ ~left
    /\ left' = TRUE
    /\ UNCHANGED <<route, text, reading, fed, filter, at, worker, wire, writes, owed,
                   script, pipe,
                   buffer, received, connected, adapter, aborted, request, beats>>

-----------------------------------------------------------------------------

Proceeds ==
    \/ Load \/ Progress \/ Completed \/ CancelProgress \/ ChatRejected
    \/ Refused \/ Drained \/ Tell \/ Told \/ Catch \/ Apologized
    \/ QueueWrites \/ Pull \/ AdapterReads \/ AdapterEnds

AnswerNext ==
    \/ Proceeds \/ Token \/ Heartbeat \/ OperatorCancels
    \/ ClientReads \/ ClientLeaves \/ OllamaClientLeaves

(* The worker answers, and the client reads on or the server's idle timeout    *)
(* disconnects it.                                                             *)
Fairness == WF_answerVars(Proceeds) /\ WF_answerVars(ClientReads \/ ClientLeaves)

AnswerSpec == AnswerInit /\ [][AnswerNext]_answerVars
FairAnswerSpec == AnswerSpec /\ Fairness

-----------------------------------------------------------------------------
Read(mode) ==
    LET deltas == SelectSeq(received, LAMBDA c : c.kind = mode)
    IN  FlattenSeq([i \in DOMAIN deltas |-> deltas[i].text])
Received(kind) == \E i \in DOMAIN received : received[i].kind = kind

(* The types of the variables. *)
AnswerTypeOK ==
    /\ route \in Routes /\ fed \in 0 .. Len(text) /\ owed \in Nat /\ beats \in 0 .. Beats
    /\ at \in {"loading", "chatting", "draining", "telling", "caught", "apologizing",
               "ended"}
    /\ worker \in {"idle", "generating", "answered", "cancelled", "failed"}
    /\ said \in {"nothing"} \cup RequestEvents /\ command \in {"no", "sent", "read", "done"}
    /\ blame \in {"none", "worker", "router"}
    /\ status \in {"active", "ok", "error", "cancelled"}
    /\ adapter \in {"none", "reading", "stopped"}
    /\ Len(buffer) <= 1 /\ Len(pipe) <= 2
    /\ connected \in BOOLEAN /\ aborted \in BOOLEAN /\ registered \in BOOLEAN

(* However the text is cut into tokens and the writes are interleaved, what    *)
(* the client reads begins the text that a single chunk would have come to, or *)
(* that the parsers find, and with [DONE], or the last line or event of another *)
(* route, it has all of what an unstreamed answer would say.                   *)
ClientReadsAnswer ==
    LET shown == Filtered(FreshFilter, Take(text, fed)).emitted
        All(m) == (m = "content" /\ parsed.call) \/ Read(m) = parsed[m]
    IN  route # "json" /\ received # << >> => \A m \in Modes :
        /\ IsPrefix(Read(m), shown[m]) \/ IsPrefix(Read(m), parsed[m])
        /\ Received("done") => All(m)
        /\ Received("final") /\ status # "cancelled" => All(m)
        /\ Received("completed") => All(m)

(* What anyone was told agrees with what is recorded.  Who was told [DONE] is  *)
(* not recorded as failed or cancelled, who was told of an error not as        *)
(* completed, and a stream is recorded as completed only when its [DONE] is    *)
(* out; what an operator was told to be cancelled while the worker was at it   *)
(* is not recorded as completed, although the worker may complete nevertheless.*)
(* A client of the Ollama route is told of the end once and last, and not of   *)
(* a good end where the answer failed (index.ts ollamaStreamFromSse).          *)
ToldAsRecorded ==
    /\ Received("done") => status \in {"active", "ok"}
    /\ Received("error") => status = "error"
    /\ route = "stream" /\ connected /\ status = "ok" =>
          Received("done") \/ buffer = <<Chunk("done")>>
    /\ cancelled = "early" => status # "ok"
    /\ route = "ollama" =>
          /\ \A i \in DOMAIN received : received[i].kind \in {"final", "error"} =>
                i = Len(received)
          /\ Received("final") => status # "error"

(* No line of a worker that keeps the protocol is refused, whichever comes     *)
(* first, its last line or a cancel: a refused line costs every request of     *)
(* the worker.                                                                 *)
GoodLinesAccepted == blame # "router"

(* The slot, the lease and the registry entry come back, and not before the    *)
(* worker is through; except when the client of the Ollama route leaves.       *)
AnswersEnd ==
    <>(route = "ollama" /\ left) \/ []<>(at = "ended" /\ worker # "generating")

(* README.md: "when a client disconnects mid-stream (or aborts a non-streaming *)
(* request), the server sends a protocol-v1 cancel to the resident worker":    *)
(* unless the answer is over by then.                                          *)
LeaversCancelled == left ~> (aborted \/ at = "ended")

(* milestone-1.md: a stream "terminates with data: [DONE]".                    *)
DoneIsLast ==
    \A i \in DOMAIN received : received[i].kind = "done" => i = Len(received)

(* index.ts: "A cancelled request stays cancelled in the record even if the    *)
(* worker raced to a normal completion".                                       *)
CancelledIsRecorded == cancelled = "early" => status \in {"active", "cancelled"}
=============================================================================
