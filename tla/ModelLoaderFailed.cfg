CONSTANTS
    s1 = s1
    s2 = s2
    a = a
    b = b
    w1 = w1
    w2 = w2
    Source = {s1}
    Model = {a, b}
    Contents <- Mixed
    Watcher = {w1}
    MaxEdits = 1
    MaxTerms = 1
    MaxErrors = 0
    Serial = FALSE
    Timeouts = FALSE
CHECK_DEADLOCK FALSE
SPECIFICATION Spec
PROPERTY FailedKept
