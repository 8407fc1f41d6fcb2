CONSTANTS
    Bytes = 4
    Sizes = {1, 3}
    BufMax = 3
    Chunk = 2
    Iovs = 2
    SockBuf = 3
SPECIFICATION FairSpec
INVARIANTS BytesInOrder CountsMatch ZeroIsTheEnd
PROPERTIES AllArrives
