\* Every operation through both surfaces.
CONSTANTS
    None = None
    ByteBase = 16
    Requests <- MCRequests
    Fds = {5, 6}

SPECIFICATION Spec
\* Both calls may have ended, with the client closed.
CHECK_DEADLOCK FALSE

INVARIANTS
    TypeOK
    SameOutcome
    NothingLost
    ViewIsReply
