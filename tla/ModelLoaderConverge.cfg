CONSTANTS
    s1 = s1
    s2 = s2
    a = a
    b = b
    w1 = w1
    w2 = w2
    Source = {s1}
    Model = {a, b}
    Contents <- Mixed
    Watcher = {w1}
    MaxEdits = 2
    MaxTerms = 2
    MaxErrors = 0
    Serial = TRUE
    Timeouts = TRUE
CHECK_DEADLOCK FALSE
SPECIFICATION FairSpec
INVARIANT SyncedWhenQuiet
PROPERTIES Converges CallbackReturns
