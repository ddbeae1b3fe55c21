\* Stores that refuse or fail a metadata request.
SPECIFICATION Spec
CONSTANTS
    Request = {r1}
    CID = {c1}
    Body = {b1}
    NoBody = NoBody
    Ops = {"push", "exists", "delete"}
    PrimaryKind = "gcs"
    MirrorKind = "gcs"
    HasSigner = TRUE
    MaxLate = 0
SYMMETRY Goroutines
INVARIANT ExistsNoIsHonest
