\* Two goroutines of one process, a token whose calls fail, crashes.
SPECIFICATION FairSpec
CONSTANTS
    p1 = p1
    Process = {p1}
    Request = {r1, r2}
    Home <- OneProcess
    CID = {c1, c2}
    NoCID = NoCID
    Nobody = Nobody
    Faults = {"failed", "torn"}
    MaxSessions = 2
INVARIANTS
    TypeOK
    LoggedInAtWork
    SessionsAreReleased
    NoOrphanObjects
PROPERTIES
    ImplementsKeyService
    CallsReturn
