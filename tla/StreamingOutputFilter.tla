------------------------ MODULE StreamingOutputFilter ------------------------
(* StreamingOutputFilter (stream-state.ts): a worker's text arrives in chunks  *)
(* cut anywhere, and what may go to the client is let through: markers are     *)
(* removed, switch between content and reasoning or end the output, and a text *)
(* that may still become a marker is held back.                                *)
(*                                                                             *)
(* Texts are sequences of symbols.  A marker is as many symbols as it needs to *)
(* be cut in two; channel words, white space and a call's name are symbols.    *)
(* state, which repeats the other fields, is left out.                         *)
EXTENDS Integers, SequencesExt

CONSTANTS
    Markers,       \* the markers in force, as <<text, action>> in their order
    Stops,         \* the stop texts of the request
    ChannelWords,  \* the words after a channel marker, with the mode of each
    Blanks, Names, Brace,
    BufferAll,     \* whether the output is a structured one
    FirstMode      \* whether the output starts in reasoning

Modes == {"content", "reasoning"}
Separator == [content |-> <<"newline">>, reasoning |-> <<"blankline">>]

Fresh == [pending |-> << >>, mode |-> FirstMode, held |-> << >>, started |-> FALSE,
          separator |-> << >>, suppressed |-> FALSE, stopped |-> FALSE,
          emitted |-> [m \in Modes |-> << >>], deltas |-> << >>]

Take(s, n) == SubSeq(s, 1, n)
Drop(s, n) == SubSeq(s, n + 1, Len(s))

(* How many symbols of a set s begins with. *)
Leading(s, set) ==
    CHOOSE n \in 0 .. Len(s) : /\ \A i \in 1 .. n : s[i] \in set
                               /\ n < Len(s) => s[n + 1] \notin set

(* Where t begins first in s: what comes before it, or -1. *)
IndexOf(s, t) ==
    LET at == {i \in 0 .. Len(s) - Len(t) : SubSeq(s, i + 1, i + Len(t)) = t}
    IN  IF at = {} THEN -1 ELSE CHOOSE i \in at : \A j \in at : i <= j

NoMatch == [index |-> -1]
Match(index, length, action, resolved) ==
    [index |-> index, length |-> length, action |-> action, resolved |-> resolved]

(* resolveChannel: the word after the marker counts once it is seen to end. *)
ResolveChannel(s, index, length) ==
    LET rest == Drop(s, index + length)
        blank == Leading(rest, Blanks)
        word == Drop(rest, blank)
        after == Drop(word, 1)
        space == Leading(after, Blanks)
    IN  IF word = << >> THEN Match(index, length, "channel", FALSE)
        ELSE IF word[1] \notin DOMAIN ChannelWords THEN Match(index, length, "strip", TRUE)
        ELSE IF after = << >> \/ after[1] \in Names
        THEN Match(index, length, "channel", FALSE)
        ELSE Match(index, length + blank + 1 + space, ChannelWords[word[1]], TRUE)

(* resolveFunctionCall: call:name{ *)
ResolveCall(s, index, length) ==
    LET rest == Drop(s, index + length)
        name == Leading(rest, Names)
        after == Drop(rest, name + Leading(Drop(rest, name), Blanks))
    IN  IF name > 0 /\ after # << >> /\ after[1] = Brace
        THEN Match(index, length, "suppress", TRUE)
        ELSE IF after = << >> THEN Match(index, length, "suppress", FALSE)
        ELSE NoMatch

MarkerMatch(s, marker) ==
    LET index == IndexOf(s, marker[1])
        length == Len(marker[1])
    IN  IF index < 0 THEN NoMatch
        ELSE CASE marker[2] = "channel"   -> ResolveChannel(s, index, length)
               [] marker[2] = "call"      -> ResolveCall(s, index, length)
               [] OTHER                   -> Match(index, length, marker[2], TRUE)

Texts == Markers \o [i \in DOMAIN Stops |-> <<Stops[i], "stop">>]

(* earliestMarker: of two at one place the one that is listed first. *)
Earliest(matches) ==
    LET found == {i \in DOMAIN matches : matches[i].index >= 0}
    IN  IF found = {} THEN NoMatch
        ELSE matches[CHOOSE i \in found : \A j \in found :
                         \/ matches[i].index < matches[j].index
                         \/ matches[i].index = matches[j].index /\ i <= j]

EarliestMarker(s) == Earliest([i \in DOMAIN Texts |-> MarkerMatch(s, Texts[i])])

(* For the mutants: a whole marker is looked for and no beginning of one. *)
PartialSuffixWhole(s) == 0

(* partialSuffixLength: the longest end of s that a marker begins with. *)
PartialSuffix(s) ==
    CHOOSE n \in 0 .. Len(s) :
        LET Partial(k) == \E i \in DOMAIN Texts : IsPrefix(Drop(s, Len(s) - k), Texts[i][1])
        IN  (n > 0 => Partial(n)) /\ \A k \in n + 1 .. Len(s) : ~Partial(k)

(* emitText: space before a segment is dropped, space behind it is held. *)
EmitText(f, text) ==
    LET start == IF f.started THEN text ELSE Drop(text, Leading(text, Blanks))
        value == f.held \o start
        shown == Len(value) - Leading(Reverse(value), Blanks)
        out == f.separator \o Take(value, shown)
        spaced == [f EXCEPT !.started = TRUE, !.held = Drop(value, shown)]
    IN  IF start = << >> /\ ~f.started THEN f
        ELSE IF shown = 0 THEN spaced
        ELSE [spaced EXCEPT !.separator = << >>, !.emitted[f.mode] = @ \o out,
                            !.deltas = Append(@, <<f.mode, out>>)]

SetMode(f, mode) ==
    IF mode = f.mode THEN f
    ELSE [f EXCEPT !.mode = mode, !.started = FALSE, !.held = << >>,
                   !.separator = IF f.emitted[mode] = << >> THEN << >>
                                 ELSE Separator[mode]]

(* drain, with the earliest marker in what is pending *)
RECURSIVE Drain(_, _)
Drain(f, match) ==
    LET Shown(n) == [EmitText(f, Take(f.pending, n)) EXCEPT !.pending = Drop(@, n)]
        past == [f EXCEPT !.pending = Drop(@, match.length)]
        On(g) == Drain(g, EarliestMarker(g.pending))
    IN  IF f.pending = << >> THEN f
        ELSE IF match = NoMatch THEN Shown(Len(f.pending) - PartialSuffix(f.pending))
        ELSE IF match.index > 0 THEN On(Shown(match.index))
        ELSE IF ~match.resolved THEN f
        ELSE CASE match.action \in Modes      -> On(SetMode(past, match.action))
               [] match.action = "suppress"   -> [past EXCEPT !.suppressed = TRUE]
               [] match.action = "stop"       -> [past EXCEPT !.stopped = TRUE]
               [] match.action = "strip"      -> On(past)

Feed(f, chunk) ==
    LET pending == f.pending \o chunk
    IN  IF BufferAll \/ f.suppressed \/ f.stopped \/ chunk = << >>
        THEN [f EXCEPT !.deltas = << >>]
        ELSE Drain([f EXCEPT !.deltas = << >>, !.pending = pending],
                   EarliestMarker(pending))

(* What a text comes to in a single chunk. *)
Whole(text) == Feed(Fresh, text)

(* remainingDelta: what of the parsed text has not been emitted. *)
RemainingDelta(full, emitted) ==
    LET trimmed == Take(emitted, Len(emitted) - Leading(Reverse(emitted), Blanks))
    IN  IF IsPrefix(emitted, full) THEN Drop(full, Len(emitted))
        ELSE IF trimmed # << >> /\ IsPrefix(trimmed, full) THEN Drop(full, Len(trimmed))
        ELSE << >>
=============================================================================
