\* A Vault that works, and two callers who delete the same artifact.
SPECIFICATION Spec
CONSTANTS
    Request = {r1, r2}
    CID = {c1}
    NoCID = NoCID
    Faults = {}
    MaxLate = 0
SYMMETRY GoroutinesAndArtifacts
INVARIANT DeleteIsIdempotent
