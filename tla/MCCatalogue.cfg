CONSTANTS
    h = h
    o = o
    q4 = q4
    q8 = q8
    Hub = {h}
    Tags = {o}
    Ggufs = {q4, q8}
    Score <- ScoreOf
    Alias <- TheAlias
    Offers <- TheLayouts
    Left <- WasLeft
    PullCalls = {1}
    Removals = {1}
    Pollers = {1}
    Ttl = 1
    StaleLimit = 2
    Nothing = Nothing
SPECIFICATION FairSpec
INVARIANTS ListedResolves
PROPERTIES CompletedServes PollersConverge
CHECK_DEADLOCK FALSE
