-------------------------- MODULE MCStreamedAnswer --------------------------
(* Constants of the answer model for TLC: a few markers of two symbols.  The   *)
(* same run also checks the filter against the parsers alone (FilteredText):   *)
(* `side` says which of the two moves in a behaviour.                          *)
EXTENDS StreamedAnswer, TLC

CONSTANTS
    Markers, Stops, ChannelWords, Blanks, Names, Brace, BufferAll, FirstMode,
    ThinkOpen, ThinkClose, ChannelTag, ToolOpen, ToolClose, CallWord, EndTags,
    CloseBrace, ToolNames, ToolMode

VARIABLES side, heard, pieces, shown

Think == <<"<", "think">>
EndThink == <<"<", "/think">>
Channel == <<"<", "channel">>
Tool == <<"<", "tool">>
EndTool == <<"<", "/tool">>
Call == <<"call:">>
Ends1 == << <<"<", "end">> >>
SomeMarkers == << <<Think, "reasoning">>, <<EndThink, "content">>, <<Channel, "channel">>,
                  <<Tool, "suppress">>, <<Call, "call">>, <<Ends1[1], "strip">>,
                  <<<<"{">>, "suppress">> >>
SomeStops == << <<"o", "p">> >>
SomeWords == "thought" :> "reasoning" @@ "final" :> "content"
SomeTexts == { <<"a", " ", "o", "b">>, Think \o <<"a">> \o EndThink \o <<"b">>,
               <<"a">> \o Call \o <<"f", "{", "}">>, Channel \o <<"final", " ", "b">>,
               <<"a">> \o Tool \o <<"b">>, <<"a">> \o Ends1[1] \o <<"o", "p">> }
SomePieces == { <<"a">>, <<" ">>, Think, EndThink, Channel \o <<"thought", " ">>,
                Channel \o <<"final", " ">>, Tool, EndTool, Call \o <<"f", "{">>,
                <<"{", "f">>, <<"}">>, Ends1[1], <<"o", "p">>, <<"<">>, Call, <<"think">> }

Parsing == INSTANCE AnswerParsing
FilterFresh == Parsing!Fresh
FilterFeed(f, chunk) == Parsing!Feed(f, chunk)
FilterRemaining(full, emitted) == Parsing!RemainingDelta(full, emitted)
ParsersOutput(t) == Parsing!ParseOutput(t)

SomeSymbols == UNION {{t[i] : i \in DOMAIN t} : t \in SomeTexts} \cup {"newline", "blankline"}

(* However the text is cut. *)
Reached(t) ==
    LET Fed(states, m, n) == {FilterFeed(f, Between(t, m, n)) : f \in states}
        reached[n \in 0 .. Len(t)] ==
            LET late == IF n = 0 THEN {FilterFresh}
                        ELSE UNION {Fed(reached[m], m, n) : m \in 0 .. n - 1}
            IN  late \cup Fed(late, n, n)
    IN  reached
SomeFilters == [t \in SomeTexts |-> Reached(t)]

Text == INSTANCE FilteredText WITH Pieces <- SomePieces, MaxPieces <- 4

beside == <<side, heard, pieces, shown>>
allVars == <<answerVars, beside>>

(* The text arrives beside an answer that stays where it begins. *)
StandsStill == route = "json" /\ text = <<"a", " ", "o", "b">>

MCInit == AnswerInit /\ Text!Init /\ side \in {"answer", "text"} /\ (side = "text" => StandsStill)

Answers(Action) == side = "answer" /\ Action /\ UNCHANGED beside

MCNext ==
    \/ Answers(AnswerNext)
    \/ side = "text" /\ Text!Next /\ UNCHANGED <<answerVars, side>>

MCSpec ==
    /\ MCInit /\ [][MCNext]_allVars
    /\ WF_allVars(Answers(Proceeds)) /\ WF_allVars(Answers(ClientReads \/ ClientLeaves))

StreamedIsParsed == Text!StreamedIsParsed
AllAnswersEnd == side = "answer" => AnswersEnd
=============================================================================
