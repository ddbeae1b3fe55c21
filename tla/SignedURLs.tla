----------------------------- MODULE SignedURLs -----------------------------
(***************************************************************************)
(* The lifetime of what GET /resolve hands out: api/resolve.go reads the   *)
(* lifetime a client asks for, the primary's signer writes it into a URL   *)
(* with a start time of its own, and the credential sent to the client,    *)
(* api/wire.go, tells when the URL ends by a later reading of the clock.   *)
(*                                                                         *)
(* ArtifactServer leaves these data out; its steps are here extended with  *)
(* them.  A time.Duration counts ticks in a signed integer that overflows. *)
(* The clock is read in whole seconds.                                     *)
(***************************************************************************)
EXTENDS ArtifactServer

CONSTANTS
    Expiries,      \* values of ?expiry=; 0 stands for none that parses
    DefaultExpiry, \* cfg.DefaultResolveExpiry, a Duration
    Second,        \* time.Second: ticks in a second
    Range          \* Durations are -Range .. Range - 1

ASSUME URLAssumption ==
    /\ Expiries \subseteq Int
    /\ Second \in Nat \ {0}
    /\ Range \in Nat \ {0}
    /\ DefaultExpiry \in (-Range)..(Range - 1)

VARIABLES
    expiry,      \* the Duration each handler passes to Resolve
    till,        \* the second at which the URL signed for it ends
    credential   \* what the last step sent to a client

(* History, used only in the properties *)
VARIABLES
    asked,       \* the lifetime a request asks for, in seconds
    arrived      \* the time at which it arrived

urlVars == <<expiry, till, credential, asked, arrived>>

\* A direct credential, that of the in-memory store, carries no expiry.
NoCredential == [method |-> "none", till |-> 0, expiry |-> 0, asked |-> 0, arrived |-> 0]

URLTypeOK ==
    /\ ServerTypeOK
    /\ expiry \in [Request -> (-Range)..(Range - 1)]
    /\ till \in [Request -> Int]
    /\ asked \in [Request -> Int]
    /\ arrived \in [Request -> 0..MaxTime]
    /\ credential \in [method : {"none", "direct", "signed_url"}, till : Int,
                       expiry : Int, asked : Int, arrived : 0..MaxTime]

URLInit ==
    /\ ServerInit
    /\ expiry = [r \in Request |-> DefaultExpiry]
    /\ till = [r \in Request |-> 0]
    /\ asked = [r \in Request |-> 0]
    /\ arrived = [r \in Request |-> 0]
    /\ credential = NoCredential

-----------------------------------------------------------------------------
\* int64 arithmetic.
Wrap(d) == ((d + Range) % (2 * Range)) - Range

\* Mutant: the seconds are taken for a Duration.
expiryOf_Unscaled(secs) == IF secs > 0 THEN Wrap(secs) ELSE DefaultExpiry

\* The handler's expiry for this query parameter.
expiryOf(secs) == IF secs > 0 THEN Wrap(secs * Second) ELSE DefaultExpiry

\* int(d.Seconds()), which cuts towards zero.
Seconds(d) == IF d >= 0 THEN d \div Second ELSE -((-d) \div Second)

\* A URL ends at its X-Goog-Date plus its X-Goog-Expires, which have no limit.
SignURL(d) == now + Seconds(d)

\* The same of X-Amz-Date and X-Amz-Expires.
PresignGetObject(d) == now + Seconds(d)

\* Mutant: the signer does not see the lifetime the client asked for.
Signed_Default(d) == SignURL(DefaultExpiry)

\* What Resolve asks of the primary's signer.
Signed(d) == IF PrimaryKind = "gcs" THEN SignURL(d) ELSE PresignGetObject(d)

\* Resolve's credential, with its Expiry in RFC 3339, to the second.
retrievalCredentialToWire(r) ==
    [method  |-> IF PrimaryKind = "memory" THEN "direct" ELSE "signed_url",
     till    |-> till[r],
     expiry  |-> IF PrimaryKind = "memory" THEN 0 ELSE now + (expiry[r] \div Second),
     asked   |-> asked[r],
     arrived |-> arrived[r]]

-----------------------------------------------------------------------------
(* The steps of ArtifactServer *)

\* Requests rs have none of these data.
Reset(rs) ==
    LET reset(f, v) == [r \in Request |-> IF r \in rs THEN v ELSE f[r]] IN
    /\ expiry' = reset(expiry, DefaultExpiry)
    /\ till' = reset(till, 0)
    /\ asked' = reset(asked, 0)
    /\ arrived' = reset(arrived, 0)

URLServe(r) ==
    /\ Serve(r)
    /\ \/ route'[r] # "resolve" /\ Reset({r})
       \/ /\ route'[r] = "resolve"
          /\ \E secs \in Expiries :
                /\ expiry' = [expiry EXCEPT ![r] = expiryOf(secs)]
                /\ asked' = [asked EXCEPT ![r] = secs]
          /\ arrived' = [arrived EXCEPT ![r] = now]
          /\ UNCHANGED till
    /\ credential' = NoCredential

URLStoreStep(r) ==
    /\ StoreStep(r)
    /\ till' = IF op[r] = "resolve" THEN [till EXCEPT ![r] = Signed(expiry[r])] ELSE till
    /\ credential' = NoCredential
    /\ UNCHANGED <<expiry, asked, arrived>>

URLAnswer(r) ==
    /\ Answer(r)
    /\ credential' = IF resp'.route = "resolve" /\ resp'.status = 200
                     THEN retrievalCredentialToWire(r) ELSE NoCredential
    /\ Reset({q \in {r} : route'[r] = "none"})

URLCrash ==
    /\ ServerCrash
    /\ credential' = NoCredential
    /\ Reset(Request)

URLSign(r) ==
    /\ Sign(r)
    /\ credential' = NoCredential
    /\ UNCHANGED <<expiry, till, asked, arrived>>

\* The other steps do not concern them.
Elsewhere ==
    /\ \/ \E r \in Request : Push(r) \/ BadPath(r)
       \/ \E l \in late : ApplyLate(l) /\ Silent
       \/ Tick
    /\ credential' = NoCredential
    /\ UNCHANGED <<expiry, till, asked, arrived>>

URLNext ==
    \/ \E r \in Request : URLServe(r) \/ URLStoreStep(r) \/ URLAnswer(r) \/ URLSign(r)
    \/ URLCrash
    \/ Elsewhere

URLSpec == URLInit /\ [][URLNext]_<<allVars, urlVars>>

-----------------------------------------------------------------------------
(* Properties *)

\* The longest lifetime a Duration can hold.
MaxSeconds == (Range - 1) \div Second

\* For a lifetime that a Duration can hold, the end that ResolveHandler's signer
\* writes into the URL is no earlier than what the client asked for, counted
\* from its request, however long the store and the signing take; what
\* retrievalCredentialToWire tells of it is no earlier, and later by no more
\* than the time the request took.  (Whether a storage service honours a URL of
\* more than seven days is up to the service: the code sets no limit.)
CredentialLasts ==
    credential.method = "signed_url" /\ credential.asked \in 1..MaxSeconds =>
        /\ credential.till >= credential.arrived + credential.asked
        /\ credential.expiry >= credential.till
        /\ credential.expiry - credential.till <= now - credential.arrived

\* A credential is given out only for a CID that some client uploaded: the
\* existence check takes no refusal or outage of the store for an object.
ResolvedWasUploaded ==
    credential.method # "none" => \E p \in uploads : p[1] = resp.cid
-----------------------------------------------------------------------------
(* The inductive invariant: why a credential is what it should be *)

\* A handler of /resolve asks the store first whether the object exists; it
\* goes on to sign only for a CID that was uploaded.
ResolvesAreInStep ==
    \A r \in Request : route[r] = "resolve" =>
        /\ pc[r] # "idle" => op[r] \in {"exists", "resolve"}
        /\ pc[r] = "idle" \/ op[r] = "resolve" => \E p \in uploads : p[1] = path[r]

\* A handler of /resolve keeps the lifetime it was asked for, and its URL is
\* signed between the arrival of the request and now.
LifetimesAreKept ==
    \A r \in Request : route[r] = "resolve" =>
        /\ expiry[r] = expiryOf(asked[r])
        /\ arrived[r] <= now
        /\ pc[r] = "return" /\ op[r] = "resolve" =>
              \E t \in arrived[r]..now : till[r] = t + Seconds(expiry[r])

\* The types and the two facts above, whatever the store and the clock do.
URLInv ==
    /\ URLTypeOK
    /\ ResolvesAreInStep
    /\ LifetimesAreKept
=============================================================================
