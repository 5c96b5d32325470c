---------------------------- MODULE AnswerParsing ----------------------------
(* parseAssistantOutput (chat-compat.ts and its parsers): what a worker's whole *)
(* text comes to, as content and reasoning or as tool calls.  Of the parser of  *)
(* each model family one is here for each kind: a call between tags, a call     *)
(* named in the open, and JSON with nothing around it; the arguments of a call, *)
(* structured output and markers of user profiles are left out.                 *)
EXTENDS StreamingOutputFilter, FiniteSets

CONSTANTS
    ThinkOpen, ThinkClose, ChannelTag, ToolOpen, ToolClose, CallWord,
    EndTags,       \* end-of-turn markers
    CloseBrace,
    ToolNames,     \* what an object that is a tool call begins with
    ToolMode       \* whether the request has tools

TrimEnd(s) == Take(s, Len(s) - Leading(Reverse(s), Blanks))
Trim(s) == TrimEnd(Drop(s, Leading(s, Blanks)))

First(at, otherwise) ==
    IF at = {} THEN otherwise ELSE CHOOSE i \in at : \A j \in at : i <= j

(* A text in two, before and behind the first of another. *)
CutAt(s, t, i) ==
    IF i < 0 THEN [found |-> FALSE, before |-> s, after |-> << >>]
    ELSE [found |-> TRUE, before |-> Take(s, i), after |-> Drop(s, i + Len(t))]
Cut(s, t) == CutAt(s, t, IndexOf(s, t))

RECURSIVE Without(_, _)
Without(s, t) ==
    LET cut == Cut(s, t)
    IN  IF cut.found THEN cut.before \o Without(cut.after, t) ELSE s

Join(parts, separator) ==
    FlattenSeq([i \in DOMAIN parts |-> (IF i = 1 THEN << >> ELSE separator) \o parts[i]])
NonEmpty(parts) == SelectSeq(parts, LAMBDA p : p # << >>)

(* Where call:name begins, and where the name is followed by an object. *)
Calls(s) ==
    {i \in 0 .. Len(s) - Len(CallWord) - 1 :
        /\ SubSeq(s, i + 1, i + Len(CallWord)) = CallWord
        /\ s[i + Len(CallWord) + 1] \in Names}
PastLeading(s, set) == Drop(s, Leading(s, set))
OpenCalls(s) ==
    {i \in Calls(s) :
        IsPrefix(<<Brace>>,
                 PastLeading(PastLeading(Drop(s, i + Len(CallWord)), Names), Blanks))}

(* cleanupProtocolText *)
BeforeCalls(s) == Trim(Take(s, First(Calls(s), Len(s))))
Cleanup(s) ==
    BeforeCalls(FoldSeq(LAMBDA t, r : Without(r, t), s,
                        EndTags \o <<ChannelTag, ToolOpen, ToolClose>>))

(* extractThinkReasoning: thoughts without an end go to the end of the text,   *)
(* and those without a beginning begin with it, if there are no others.        *)
RECURSIVE Thoughts(_), Thought(_, _)
Thoughts(s) ==
    LET open == Cut(s, ThinkOpen)
    IN  IF open.found THEN Thought(open.before, Cut(open.after, ThinkClose))
        ELSE [content |-> s, thoughts |-> << >>]
Thought(before, inside) ==
    LET on == Thoughts(inside.after)
    IN  [content |-> before \o on.content,
         thoughts |-> <<Cleanup(inside.before)>> \o on.thoughts]

Reasoned(content, thoughts, close) ==
    IF thoughts = << >> /\ close.found /\ close.before # << >>
    THEN [content |-> Trim(close.after), reasoning |-> Cleanup(close.before)]
    ELSE [content |-> Trim(content), reasoning |-> Join(thoughts, Separator["reasoning"])]
WithThoughts(t, existing) ==
    Reasoned(t.content, NonEmpty(<<existing>> \o t.thoughts), Cut(t.content, ThinkClose))

(* extractChannelReasoning: segments behind each tag, of the mode that its     *)
(* word says, up to where a call begins (findProtocolStart).                   *)
RECURSIVE Segments(_), Segment(_, _)
Segments(s) ==
    LET tag == Cut(s, ChannelTag)
    IN  IF tag.found THEN Segment(PastLeading(tag.after, Blanks), << >>) ELSE << >>
Segment(s, word) ==
    IF word = << >> /\ s # << >> /\ s[1] \in DOMAIN ChannelWords
    THEN Segment(PastLeading(Drop(s, 1), Blanks), Take(s, 1))
    ELSE <<[worded |-> word # << >>, text |-> Cut(s, ChannelTag).before,
            mode |-> IF word = << >> THEN "content" ELSE ChannelWords[word[1]]]>>
         \o Segments(s)

ProtocolStart(s) == First(OpenCalls(s) \cup ({IndexOf(s, ToolOpen)} \ {-1}), Len(s))

SegmentShown(mode, body, call) ==
    IF mode = "content" THEN <<body, call>> ELSE NonEmpty(<<call>>)
SegmentThought(mode, body) == IF mode = "content" THEN << >> ELSE Cleanup(body)
SplitAt(g, n) == [mode |-> g.mode, body |-> Take(g.text, n), call |-> Drop(g.text, n)]

Channelled(before, parts) ==
    [content |-> Trim(Join(NonEmpty(<<before>>)
                           \o FlattenSeq([i \in DOMAIN parts |->
                                SegmentShown(parts[i].mode, parts[i].body, parts[i].call)]),
                           Separator["content"])),
     reasoning |-> Join(NonEmpty([i \in DOMAIN parts |->
                                     SegmentThought(parts[i].mode, parts[i].body)]),
                        Separator["reasoning"])]
WithSegments(s, segments) ==
    IF \E i \in DOMAIN segments : segments[i].worded
    THEN Channelled(Cut(s, ChannelTag).before,
                    [i \in DOMAIN segments |->
                        SplitAt(segments[i], ProtocolStart(segments[i].text))])
    ELSE [content |-> s, reasoning |-> << >>]

(* extractReasoning *)
AfterChannels(c) == WithThoughts(Thoughts(c.content), c.reasoning)
ExtractReasoning(s) == AfterChannels(WithSegments(s, Segments(s)))

(* parseJsonLike and normalizeToolCall: the first object, closed or not, is a *)
(* call when it has the name of one.                                          *)
IsCall(s) == \E name \in ToolNames : IsPrefix(<<name>>, Cut(s, <<Brace>>).after)

(* The native parsers: is there a call named in the open, or one between tags? *)
TaggedCall(close) == close.found /\ IsCall(close.before)
NativeCall(s) ==
    \/ \E i \in OpenCalls(s) : IndexOf(Drop(s, i), <<CloseBrace>>) >= 0
    \/ TaggedCall(Cut(Cut(s, ToolOpen).after, ToolClose))

HasExplicitMarker(s) == OpenCalls(s) # {} \/ IndexOf(s, ToolOpen) >= 0

(* trailingBalancedObject: the text ends in a closed object that is a call. *)
TrailingCall(s) ==
    \E i \in DOMAIN s : /\ s[i] = Brace /\ IsCall(Drop(s, i - 1))
                        /\ IndexOf(Drop(s, i), <<CloseBrace>>) = Len(s) - i - 1

(* suppressProtocolMarkers: calls between tags are not shown, nor what is      *)
(* behind a tag that stays open, nor calls named in the open.                  *)
RECURSIVE WithoutTagged(_), BehindTagged(_)
WithoutTagged(s) ==
    LET open == Cut(s, ToolOpen)
    IN  open.before \o BehindTagged(Cut(open.after, ToolClose))
BehindTagged(close) == IF close.found THEN WithoutTagged(close.after) ELSE << >>

RECURSIVE WithoutCalls(_, _)
WithoutCalls(s, i) ==
    LET close == Cut(Drop(s, i), <<CloseBrace>>)
    IN  IF close.found
        THEN Take(s, i) \o WithoutCalls(close.after,
                                        First(OpenCalls(close.after), Len(close.after)))
        ELSE s

VisibleOf(s) == Cleanup(WithoutCalls(s, First(OpenCalls(s), Len(s))))

(* applyStop: the text ends before the first stop. *)
BeforeStops(s) ==
    Take(s, First({IndexOf(s, Stops[i]) : i \in DOMAIN Stops} \ {-1}, Len(s)))

(* A template that opens the thoughts itself. *)
WithThink(s) ==
    IF FirstMode = "reasoning" /\ ~Cut(s, ThinkOpen).found THEN ThinkOpen \o s ELSE s

(* recoverToolCallsFromReasoning *)
Recovered(input, visible, reasoning) ==
    /\ reasoning # << >>
    /\ \/ HasExplicitMarker(input) /\ NativeCall(input)
       \/ ToolMode /\ visible = << >> /\ TrailingCall(reasoning)

(* A call is told instead of the content; with tools, a marker without a call *)
(* is an error.                                                               *)
Outcome(input, visible, reasoning, call) ==
    [call |-> call, reasoning |-> reasoning,
     content |-> IF call THEN << >> ELSE visible,
     fails |-> ~call /\ ToolMode /\ HasExplicitMarker(input)]

Parse(input, r, found, visible) ==
    Outcome(input, visible, r.reasoning,
            found \/ Recovered(input, visible, r.reasoning))

(* runToolParsers, JSON last *)
RunParsers(input, r) ==
    Parse(input, r, NativeCall(r.content) \/ (ToolMode /\ IsCall(r.content)),
          VisibleOf(WithoutTagged(r.content)))

(* parseAssistantOutput, and parse of createParser. *)
ParseInput(input) == RunParsers(input, ExtractReasoning(input))
ParseOutput(text) == ParseInput(WithThink(BeforeStops(text)))
=============================================================================
