CONSTANTS
    s1 = s1
    s2 = s2
    a = a
    b = b
    w1 = w1
    w2 = w2
    Source = {s1}
    Model = {a, b}
    Contents <- Swap
    Watcher = {w1}
    MaxEdits = 1
    MaxTerms = 2
    MaxErrors = 1
    Serial = FALSE
    Timeouts = FALSE
CHECK_DEADLOCK FALSE
SPECIFICATION Spec
INVARIANTS TypeOK OneLiveRun NotAbandoned
PROPERTY NoStaleInsert
