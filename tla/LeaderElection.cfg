CONSTANTS
    n1 = n1
    n2 = n2
    c1 = c1
    c2 = c2
    Node = {n1, n2}
    Callback = {c1}
    UnhealthyThreshold = 3
    MaxFaults = 2
SPECIFICATION FairSpec
INVARIANTS TypeOK CallbacksDrained NoMissedCallback
PROPERTIES KeepsTerms HandoverAfterDrain StaleLeaderStepsDown EventuallyOneLeader
