SPECIFICATION Spec
CONSTANTS
    None = None
    Closed = Closed
    MAX_PAGES = 2
    MAX_OTHERS = 1
    MAX_CONNS = 2
    MAX_FAILS = 1
    ID_RANGE = 2
    WINDOW = 2
    COALESCE = 2
    Cuts = {TRUE, FALSE}
    OtherKinds <- ServerKinds
    JunkKinds <- Junk
INVARIANT TypeOK
INVARIANT SocketOpen
INVARIANT OncePerConnection
PROPERTY NoPageDropped
PROPERTY AcksAreHonest
PROPERTY FeedsTheLoop
