SPECIFICATION FairSpec
CONSTANTS
    None = None
    Host <- TheHost
    Strangers <- Elsewhere
    BACKLOG = 2
    MAX_ANNOUNCED = 4
    MAX_STRAYS = 1
    MAX_FAULTS = 1
    MAX_PAGES = 1
INVARIANT TypeOK
INVARIANT NothingForgotten
INVARIANT NewsInTime
PROPERTY StatusIsHosts
PROPERTY BusyHostIsSpared
PROPERTY NewsArrives
