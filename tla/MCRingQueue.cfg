SPECIFICATION FairSpec
CONSTANTS
    t1 = t1
    t2 = t2
    a = a
    b = b
    none = none
    Threads <- MCThreads
    Data <- MCData
    NoData = none
    Max = 3
    MayCall <- MCMayCall
PROPERTIES ImplementsFifo CallsReturn
