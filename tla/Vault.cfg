\* Two callers, a Vault that fails in every way, crashes.
SPECIFICATION Spec
CONSTANTS
    Request = {r1, r2}
    CID = {c1, c2}
    NoCID = NoCID
    Faults = {"refused", "failed", "unreachable", "lost"}
    MaxLate = 1
SYMMETRY GoroutinesAndArtifacts
INVARIANTS
    TypeOK
    RotateKeepsOneCopy
    IssuedStaysUsable
    ErasureIsFinal
    NoOrphanKeys
    KeyNotFoundIsHonest
PROPERTY ImplementsKeyService
