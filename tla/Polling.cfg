CONSTANTS
    Clients = {c1}
    Entries = {e1}
    ClientTimers = {1}
    TimeIdStart = 1
    MaxTimerId = 1
    Tasks = {t1, t2}
    Delays = {1}
    Period = 2
    Epochs = 2
    MaxLag = 1
    Capacity = 1
    MaxChannels = 1
    Android = TRUE
    Restarts = FALSE
    None = None
SPECIFICATION FairSpec
INVARIANTS
    TypeOK
    TokenIsCurrent
PROPERTIES
    CancelledTasksEnd
    TimersTick
