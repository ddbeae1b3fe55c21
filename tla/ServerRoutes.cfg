\* Two clients, an in-memory primary that a crash empties, a mirror whose calls
\* may take effect late.
SPECIFICATION ServerSpec
CONSTANTS
    c1 = c1
    c2 = c2
    Request = {r1, r2}
    CID = {c1}
    Body = {1, 2}
    NoBody = NoBody
    Ops <- AllOps
    PrimaryKind = "memory"
    MirrorKind = "gcs"
    HasSigner = FALSE
    MaxLate = 1
    Routes = {"push", "fetch", "delete", "resolve"}
    DigestOf <- OneDigest
    VerifyOnPush = TRUE
    TokenPolicy = "optional"
    Keys <- TrustedKeys
    Tokens <- NoTokens
    NoToken = NoToken
    MaxBody = 1
    MaxTime = 1
SYMMETRY Goroutines
INVARIANTS
    ServerInv
    MirroredOutlivesRestart
PROPERTY StoreIsUsedProperly
