CONSTANTS
    k1 = k1
    k2 = k2
    v1 = v1
    Key = {k1}
    NoKey = NoKey
    Url = {v1}
    NoUrl = NoUrl
    ByUrl = {}
    MaxUid = 2
    MaxEdits = 2
    MaxCrashes = 1
SPECIFICATION FairSpec
INVARIANTS TypeOK UndeployedWhenGone
PROPERTIES Refinement DeletionNotBlocked EventuallyInSync
