\* Two requests over a mirrored pair, every operation.
SPECIFICATION Spec
CONSTANTS
    Request = {r1, r2}
    CID = {c1}
    Body = {b1}
    NoBody = NoBody
    Ops = {"push", "fetch", "exists", "pin", "delete", "resolve", "healthy"}
    PrimaryKind = "gcs"
    MirrorKind = "gcs"
    HasSigner = TRUE
    MaxLate = 1
SYMMETRY Goroutines
INVARIANTS
    TypeOK
    SuccessHasGrounds
    NoReadOfDeleted
    FetchNotFoundIsHonest
    PinNotFoundIsHonest
    DurableWrites
    DeletedStaysDeleted
    MirrorFollowsPrimary
    StoreInv
