CONSTANTS
    main = main w1 = w1 w2 = w2 i1 = i1 i2 = i2 i3 = i3
    Imps <- TwoImps
    Workers <- OneWorker
    Main = main
    NoImp = NoImp
    nr_max = 2
    Requests <- TimerOnly
    MaySummon <- OneSummoner
    MayTerm = {i2}
    MayKill = {i1}
    MayRefuse = {}
    Debug = FALSE
SPECIFICATION FairSpec
PROPERTIES KillIsObeyed
CHECK_DEADLOCK FALSE
