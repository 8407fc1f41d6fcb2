CONSTANTS
    a = a b = b c = c x = x y = y
    Threads <- MCThreads
    MayCall <- MCCalls
    Data <- MCData
    Accepts <- MCAccepts
    NoData = NoData
    NoThread = NoThread
    Volume = 2
SPECIFICATION FairSpec
PROPERTIES ImplementsList DeleteEnds
CHECK_DEADLOCK FALSE
