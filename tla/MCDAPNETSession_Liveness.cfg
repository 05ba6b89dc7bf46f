SPECIFICATION FairSpec
CONSTANTS
    None = None
    Closed = Closed
    MAX_PAGES = 3
    MAX_OTHERS = 1
    MAX_CONNS = 2
    MAX_FAILS = 2
    ID_RANGE = 2
    WINDOW = 2
    COALESCE = 1
    Cuts = {FALSE}
    OtherKinds <- ServerKinds
    JunkKinds = {}
PROPERTY EveryPageArrives
