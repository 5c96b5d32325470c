----------------------------- MODULE FilteredText -----------------------------
(* A text arrives in pieces and goes through the filter to a client that is     *)
(* streamed to, while parseAssistantOutput reads it whole for one that is not:  *)
(* what the two are told, for every text and every way to cut it.               *)
EXTENDS AnswerParsing

CONSTANTS
    Pieces,     \* what may arrive at once
    MaxPieces   \* bound: pieces of a text

VARIABLES heard, pieces, shown

textVars == <<heard, pieces, shown>>

Init ==
    /\ heard = << >> /\ pieces = 0
    /\ shown = Fresh

(* onToken; a text may end behind any piece. *)
Arrive(piece) ==
    /\ pieces < MaxPieces /\ pieces' = pieces + 1
    /\ heard' = heard \o piece
    /\ shown' = [Feed(shown, piece) EXCEPT !.deltas = << >>]

Next == \E piece \in Pieces : Arrive(piece)

Spec == Init /\ [][Next]_textVars

-----------------------------------------------------------------------------
Occurrences(s, t) ==
    Cardinality({i \in 0 .. Len(s) - Len(t) : SubSeq(s, i + 1, i + Len(t)) = t})

(* A closing tag has its opening one before it, and each is there once. *)
Paired(s, open, close) ==
    /\ Occurrences(s, open) <= 1 /\ Occurrences(s, close) <= 1
    /\ IndexOf(s, close) >= 0 => IndexOf(Cut(s, close).before, open) >= 0

(* "call:" begins a call, as far as the text goes. *)
BeginsACall(s) ==
    LET after == Cut(s, CallWord).after
        rest == Drop(after, Leading(after, Names))
        body == Drop(rest, Leading(rest, Blanks))
    IN  after = << >> \/ (rest # after /\ (body = << >> \/ body[1] = Brace))

(* Where the two are known to differ: tags that are not paired, thoughts or a   *)
(* channel behind other text, two segments of one channel, and "call:" in *)
(* prose or twice.                                                              *)
Regular(s) ==
    /\ Paired(s, ThinkOpen, ThinkClose) /\ Paired(s, ToolOpen, ToolClose)
    /\ \A tag \in {ThinkOpen, ChannelTag} :
          IndexOf(s, tag) >= 0 => Trim(Cut(s, tag).before) = << >>
    /\ \A m \in Modes : Cardinality({i \in DOMAIN s : s[i] \in DOMAIN ChannelWords
                                                     /\ ChannelWords[s[i]] = m}) <= 1
    /\ Occurrences(s, CallWord) <= 1 /\ BeginsACall(s)

(* A client that is streamed to has in the end what one that is not is told:   *)
(* with what the filter has let through, and with what remainingDelta adds to   *)
(* it, it has the reasoning and the content the parsers find, or the calls.     *)
StreamedIsParsed ==
    LET told == ParseOutput(heard)
        Read(m) == shown.emitted[m] \o RemainingDelta(told[m], shown.emitted[m])
    IN  Regular(heard) /\ ~told.fails =>
            /\ Read("reasoning") = told["reasoning"]
            /\ told.call \/ Read("content") = told["content"]
=============================================================================
