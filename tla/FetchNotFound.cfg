\* A mirror that missed a write answers for a primary that fails for a moment.
SPECIFICATION Spec
CONSTANTS
    Request = {r1}
    CID = {c1}
    Body = {b1}
    NoBody = NoBody
    Ops = {"push", "fetch", "delete"}
    PrimaryKind = "gcs"
    MirrorKind = "gcs"
    HasSigner = TRUE
    MaxLate = 0
SYMMETRY Goroutines
INVARIANT NotFoundMeansAbsent
