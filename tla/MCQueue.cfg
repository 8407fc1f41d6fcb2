CONSTANTS
    w1 = w1 w2 = w2 e = e x = x y = y
    Threads <- ThreeThreads
    MayCall <- Calls
    Data <- TwoPointers
    Unique = {x}
    NoData = NoData
    NoThread = NoThread
    Max = 2
    CountMod = 3
    Cancelable = {w1}
    Beyond <- NothingBeyond
SPECIFICATION FairSpec
INVARIANTS MutexInv RingInv NoLostWakeup NoDuplicates
PROPERTIES ImplementsFifo AllDelivered
