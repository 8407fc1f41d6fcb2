CONSTANTS
    c1 = c1 c2 = c2
    Conns = {c1, c2}
    MaxSay = 3
    BufSize = 2
    KernelBuf = 2
    MaxImps = 2
SPECIFICATION EchoFairSpec
INVARIANTS EchoesInOrder
PROPERTIES EveryByteReturns HangUpEnds
CHECK_DEADLOCK FALSE
