\* A client with good, bad and stale tokens; the clock moves on while calls run.
SPECIFICATION URLSpec
CONSTANTS
    c1 = c1
    c2 = c2
    Request = {r1}
    CID = {c1, c2}
    Body <- Lengths
    NoBody = NoBody
    Ops <- AllOps
    PrimaryKind = "gcs"
    MirrorKind = "rustfs"
    HasSigner = TRUE
    MaxLate = 1
    Routes = {"push", "fetch", "resolve", "exists", "healthy"}
    DigestOf <- Digest
    VerifyOnPush = TRUE
    TokenPolicy = "required"
    Keys <- TrustedKeys
    Tokens <- SomeTokens
    NoToken = NoToken
    MaxBody = 1
    MaxTime = 2
    Expiries <- SomeExpiries
    DefaultExpiry = 2
    Second = 2
    Range = 8
INVARIANTS
    URLInv
    BodiesAreWhole
    PushOkIsStored
    ContentMatchesCID
    StoredOnlyUnderToken
    DigestVerdictNeedsToken
    CredentialLasts
    ResolvedWasUploaded
