CONSTANTS
    w1 = w1
    w2 = w2
    Workers <- MCWorkers
    MaxSay = 2
    BufSize = 2
    HeaderLen = 2
    Padding = 2
    SockBuf = 2
    MaxRequests = 1
SPECIFICATION FairSpec
INVARIANTS ReplyIsWhole TimeoutIsItsOwn
PROPERTIES AnswersOrEnds
CHECK_DEADLOCK FALSE
