CONSTANTS
    main = main w1 = w1 w2 = w2 i1 = i1 i2 = i2 i3 = i3
    Imps <- ThreeImps
    Workers <- TwoWorkers
    Main = main
    NoImp = NoImp
    nr_max = 2
    Requests <- Events
    MaySummon <- Summoners
    MayTerm = {i2}
    MayKill = {i1}
    MayRefuse = {i1}
    Debug = FALSE
SPECIFICATION FairSpec
INVARIANTS TypeOK NoUseAfterFree Accounting AsleepIsArmed
PROPERTIES ImplementsImpLife QueuedIsDriven TimerWakes TerminatedIsFreed
CONSTRAINT Bounds
CHECK_DEADLOCK FALSE
