CONSTANTS
    f1 = f1
    s1 = s1
    s2 = s2
    File = {f1}
    Sub = {s1, s2}
    FileOf <- OneFile
    MaxChanges = 2
CHECK_DEADLOCK FALSE
SPECIFICATION FairSpec
INVARIANTS TypeOK NoPanic HashTracks NoLostChange
PROPERTIES CatchesUp ChannelsClose
