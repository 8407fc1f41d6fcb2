CONSTANTS
    t1 = t1 t2 = t2 t3 = t3 i1 = i1 i2 = i2 i3 = i3 i4 = i4 k1 = k1 k2 = k2
    Threads <- MCThreads
    MayCall <- MCCalls
    Items <- MCItems
    Keys <- MCKeys
    KeyOf <- MCKeyOf
    HashOf <- MCHashes
    NoItem = NoItem
    NoThread = NoThread
    Volume = 2
    Share = 1
    BucketSize = 1
    AllocFails = TRUE
    MaxCalls <- MCBounds
SPECIFICATION FairSpec
INVARIANTS CountsAddUp WithinVolume
PROPERTIES CallsReturn
CHECK_DEADLOCK FALSE
