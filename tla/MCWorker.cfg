CONSTANTS
    Chats = {c1}
    Loads = {l1}
    Unload = unload
    Loader = loader
    MaxLaunches = 2
    CrashLimit = 2
    Drains = TRUE
SPECIFICATION FairSpec
INVARIANTS PendingIsLive StraysAreDying
PROPERTY TasksSettle
CHECK_DEADLOCK FALSE
