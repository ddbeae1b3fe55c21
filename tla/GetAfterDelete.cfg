\* One client and a mirrored store: push, delete, get.
SPECIFICATION ServerSpec
CONSTANTS
    c1 = c1
    c2 = c2
    Request = {r1}
    CID = {c1}
    Body = {1, 2}
    NoBody = NoBody
    Ops <- AllOps
    PrimaryKind = "gcs"
    MirrorKind = "gcs"
    HasSigner = TRUE
    MaxLate = 0
    Routes = {"push", "fetch", "delete"}
    DigestOf <- OneDigest
    VerifyOnPush = TRUE
    TokenPolicy = "off"
    Keys <- TrustedKeys
    Tokens <- NoTokens
    NoToken = NoToken
    MaxBody = 1
    MaxTime = 0
INVARIANT GetAfterDelete
