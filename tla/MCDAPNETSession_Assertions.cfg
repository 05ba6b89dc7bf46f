SPECIFICATION Spec
CONSTANTS
    None = None
    Closed = Closed
    MAX_PAGES = 1
    MAX_OTHERS = 1
    MAX_CONNS = 1
    MAX_FAILS = 2
    ID_RANGE = 2
    WINDOW = 1
    COALESCE = 1
    Cuts = {TRUE, FALSE}
    OtherKinds <- ServerKinds
    JunkKinds = {}
INVARIANT AssertionsHold
