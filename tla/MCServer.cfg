CONSTANTS
    w1 = w1 w2 = w2 l1 = l1 i1 = i1
    Imps = {l1, i1}
    Listeners = {l1}
    MayTerm = {i1}
    Workers = {w1, w2}
    NoImp = NoImp
    MayFail = {"heart", "workers", "maintainer", "monitor", "rooms"}
    Pids = {p1, p2}
    NoPid = NoPid
    Low = 3
    Wanted = 12
    MaxLimit = 14
SPECIFICATION FairSpec
INVARIANTS ThreadsEndFirst DismissedOnce QueuedAreDismissed OneHeart LimitFound
PROPERTIES ShutdownEnds HeartComesBack
CHECK_DEADLOCK FALSE
