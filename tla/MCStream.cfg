CONSTANTS
    Markers <- SomeMarkers
    Stops <- SomeStops
    ChannelWords <- SomeWords
    Blanks = {" ", "newline", "blankline"}
    Names = {"a", "b", "f", "o", "p"}
    Brace = "{"
    CloseBrace = "}"
    ThinkOpen <- Think
    ThinkClose <- EndThink
    ChannelTag <- Channel
    ToolOpen <- Tool
    ToolClose <- EndTool
    CallWord <- Call
    EndTags <- Ends1
    ToolNames = {"f"}
    ToolMode = TRUE
    BufferAll = FALSE
    FirstMode = "content"
    Symbols <- SomeSymbols
    AnswerTexts <- SomeTexts
    FreshFilter <- FilterFresh
    Filtered <- FilterFeed
    Parsed <- ParsersOutput
    Remaining <- FilterRemaining
    Filters <- SomeFilters
    Beats = 1
SPECIFICATION MCSpec
INVARIANTS ClientReadsAnswer ToldAsRecorded GoodLinesAccepted StreamedIsParsed
PROPERTY AllAnswersEnd
CHECK_DEADLOCK FALSE
