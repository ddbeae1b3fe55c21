-------------------------- MODULE ArtifactServer ---------------------------
(***************************************************************************)
(* api/: the HTTP handlers over the store that main.go's initBackend       *)
(* builds.  A request r is served by one handler, which checks its input   *)
(* without touching the store, makes one call to the store (two for        *)
(* resolve) and writes one response.  The steps of the store are those of  *)
(* MirroredStore, whose variables this module shares.                      *)
(*                                                                         *)
(* A body is a number, its length: two bodies of one length are not told   *)
(* apart, and reading a body up to a limit yields a shorter body.          *)
(***************************************************************************)
EXTENDS MirroredStore, UploadToken

CONSTANTS
    Routes,       \* the routes clients use, a subset of AllOps
    DigestOf,     \* DigestOf[b]: the CID of the bytes b
    VerifyOnPush, \* cfg.VerifyOnPush
    TokenPolicy,  \* cfg.RequireUploadToken: "off", "optional" or "required"
    Keys,         \* the operator keys by kid (no verifier without a policy)
    Tokens,       \* tokens clients present
    NoToken,      \* no X-Upload-Token header
    MaxBody,      \* cfg.MaxBodySize
    MaxTime       \* bound on the clock

ASSUME ServerAssumption ==
    /\ Body \subseteq Nat
    /\ Routes \subseteq AllOps
    /\ Ops = AllOps
    /\ DigestOf \in [Body -> CID]
    /\ VerifyOnPush \in BOOLEAN
    /\ TokenPolicy \in {"off", "optional", "required"}
    /\ \A t \in Tokens : t.form \in {"ok", "garbled", "notjson"} /\ t.exp \in Int
    /\ NoToken \notin Tokens
    /\ MaxBody \in Nat
    /\ MaxTime \in Nat

VARIABLES
    route,     \* the handler serving each request, "none" between requests
    path,      \* the CID the handler parsed from path or header
    resp,      \* the response written in the last step, if it wrote one
    now        \* time.Now().Unix()

serverVars == <<route, path, resp, now>>

(* History, used only in the properties *)
VARIABLES
    uploads,   \* the <<cid, body>> pairs as clients sent them
    licensed,  \* the <<cid, size>> pairs some valid token was presented for
    deleted,   \* CIDs whose DELETE was answered 200 while no Push of them was
               \* under way, and that no Push was called for since
    after      \* requests that arrived for a CID deleted then and ever since

auditVars == <<uploads, licensed, deleted, after>>

allVars == <<vars, serverVars, auditVars>>

Statuses == {0, 200, 400, 401, 404, 413, 500, 501, 503}

Reasons ==
    {"", "missing_cid_header", "invalid_cid_header", "read_body_error",
     "size_exceeded", "cid_mismatch", "backend_error",
     "token_required_missing", "token_invalid", "token_unknown_kid",
     "token_expired", "token_cid_mismatch", "token_size_mismatch",
     "token_malformed"}

\* reason is the audit log's; cid and body are those the response is about.
Response == [route : AllOps \cup {"none"}, status : Statuses, reason : Reasons,
             cid : CID, body : Nat \cup {NoBody}]

NoResponse == [route |-> "none", status |-> 0, reason |-> "",
               cid |-> AnyCID, body |-> NoBody]

ServerTypeOK ==
    /\ TypeOK
    /\ route \in [Request -> AllOps \cup {"none"}]
    /\ path \in [Request -> CID]
    /\ resp \in Response
    /\ now \in 0..MaxTime
    /\ uploads \subseteq CID \X Nat
    /\ licensed \subseteq {<<t.cid, t.size>> : t \in Tokens}
    /\ deleted \subseteq CID
    /\ after \subseteq Request

ServerInit ==
    /\ Init
    /\ route = [r \in Request |-> "none"]
    /\ path = [r \in Request |-> AnyCID]
    /\ resp = NoResponse
    /\ now = 0
    /\ uploads = {}
    /\ licensed = {}
    /\ deleted = {}
    /\ after = {}

-----------------------------------------------------------------------------
(* api/push.go *)

Min2(a, b) == IF a < b THEN a ELSE b

\* Mutant: the reader stops at the limit, so a longer body passes, cut short.
ReadBody_NoExtraByte(sent) == Min2(sent, MaxBody)

\* io.LimitReader: at most one byte more than the limit is read.
ReadBody(sent) == Min2(sent, MaxBody + 1)

\* checkUploadToken: "" lets the push proceed.
checkUploadToken(t, c, size) ==
    IF TokenPolicy = "off" THEN ""
    ELSE IF t = NoToken
         THEN (IF TokenPolicy = "required" THEN "token_required_missing" ELSE "")
    ELSE LET err == Verify(Keys, t, c, size, now)
         IN  IF err = "nil" THEN "" ELSE classifyTokenError(err)

\* Mutants: a token stands in for the digest check; the digest is checked
\* before the token.
pushVerdict_TrustsToken(header, sent, read, t) ==
    LET body_ == ReadBody(sent) IN
    IF header \notin CID \/ ~read         THEN "read_body_error"
    ELSE IF body_ > MaxBody              THEN "size_exceeded"
    ELSE IF checkUploadToken(t, header, body_) # ""
                                         THEN checkUploadToken(t, header, body_)
    ELSE IF VerifyOnPush /\ t = NoToken /\ DigestOf[body_] # header
                                         THEN "cid_mismatch"
    ELSE ""

pushVerdict_DigestFirst(header, sent, read, t) ==
    LET body_ == ReadBody(sent) IN
    IF header \notin CID \/ ~read         THEN "read_body_error"
    ELSE IF body_ > MaxBody              THEN "size_exceeded"
    ELSE IF VerifyOnPush /\ DigestOf[body_] # header THEN "cid_mismatch"
    ELSE checkUploadToken(t, header, body_)

\* The reason a push is turned away before the store is called, "" if none.
\* The header is a CID, "missing" or "invalid"; sent is the body, read tells
\* whether it arrived whole.
pushVerdict(header, sent, read, t) ==
    LET body_ == ReadBody(sent) IN
    IF header = "missing"                THEN "missing_cid_header"
    ELSE IF header = "invalid"           THEN "invalid_cid_header"
    ELSE IF ~read                        THEN "read_body_error"
    ELSE IF body_ > MaxBody              THEN "size_exceeded"
    ELSE IF checkUploadToken(t, header, body_) # ""
                                         THEN checkUploadToken(t, header, body_)
    ELSE IF VerifyOnPush /\ DigestOf[body_] # header THEN "cid_mismatch"
    ELSE ""

StatusOfReason(reason) ==
    CASE reason \in {"missing_cid_header", "invalid_cid_header",
                     "read_body_error", "cid_mismatch"} -> 400
      [] reason = "size_exceeded"                       -> 413
      [] OTHER                                          -> 401

\* What a token must be for its holder to have the operator's permission now.
Permits(t) ==
    /\ t.form = "ok"
    /\ t.kid \in DOMAIN Keys
    /\ t.signer = Keys[t.kid]
    /\ 0 < t.exp /\ now <= t.exp

\* What the history learns from an arriving push.
NoteUpload(header, sent, t, why) ==
    /\ uploads' = uploads \cup {u \in {<<header, sent>>} : why = ""}
    /\ licensed' = licensed \cup
         {<<u.cid, u.size>> : u \in {v \in {t} \ {NoToken} : Permits(v)}}

\* Request r stops being "after" a deletion when its CID is pushed again.
NoteArrival(r, o, c) ==
    /\ deleted' = IF o = "push" THEN deleted \ {c} ELSE deleted
    /\ after' = {q \in after \ {r} : ~(o = "push" /\ path[q] = c)} \cup
                {q \in {r} : c \in deleted'}

Respond(r, status, reason, c, b) ==
    /\ route' = [route EXCEPT ![r] = "none"]
    /\ resp' = [route |-> route[r], status |-> status, reason |-> reason,
                cid |-> c, body |-> b]

\* The step concerns the store alone.
Silent == resp' = NoResponse /\ UNCHANGED <<route, path, now, auditVars>>

\* The upload goes to the store.
Admit(r, header, sent) ==
    /\ Call(r, "push", header, ReadBody(sent))
    /\ NoteArrival(r, "push", header)
    /\ route' = [route EXCEPT ![r] = "push"]
    /\ path' = [path EXCEPT ![r] = header]
    /\ resp' = NoResponse

TurnAway(header, sent, why) ==
    /\ resp' = [route |-> "push", status |-> StatusOfReason(why), reason |-> why,
                cid |-> IF header \in CID THEN header ELSE AnyCID,
                body |-> ReadBody(sent)]
    /\ UNCHANGED <<vars, route, path, deleted, after>>

\* PushHandler up to backend.Push, or up to the rejection.
Push(r) ==
    /\ route[r] = "none"
    /\ "push" \in Routes
    /\ \E header \in CID \cup {"missing", "invalid"}, sent \in Body,
          read \in BOOLEAN, t \in Tokens \cup {NoToken} :
          LET why == pushVerdict(header, sent, read, t) IN
          /\ NoteUpload(header, sent, t, why)
          /\ \/ why = "" /\ Admit(r, header, sent)
             \/ why # "" /\ TurnAway(header, sent, why)
    /\ UNCHANGED now

-----------------------------------------------------------------------------
(* api/fetch.go, exists.go, pin.go, delete.go, resolve.go, health.go *)

\* The first store call of each handler.
FirstCall(o) == IF o = "resolve" THEN "exists" ELSE o

\* A request whose path names a CID reaches the store; health has no path.
Serve(r) ==
    /\ route[r] = "none"
    /\ \E o \in Routes \ {"push"}, c \in CID :
          /\ o = "healthy" => c = AnyCID
          /\ Call(r, FirstCall(o), c, NoBody)
          /\ NoteArrival(r, o, c)
          /\ route' = [route EXCEPT ![r] = o]
          /\ path' = [path EXCEPT ![r] = c]
    /\ resp' = NoResponse
    /\ UNCHANGED <<now, uploads, licensed>>

\* parseCIDFromPath fails.
BadPath(r) ==
    /\ route[r] = "none"
    /\ \E o \in Routes \ {"push", "healthy"} :
          resp' = [NoResponse EXCEPT !.route = o, !.status = 400]
    /\ UNCHANGED <<vars, route, path, now, auditVars>>

\* The status each handler makes of the store's result.
NotFoundOr500(err) ==
    CASE err = "nil"      -> 200
      [] err = "notfound" -> 404
      [] OTHER            -> 500

FetchStatus(err) == NotFoundOr500(err)

ExistsStatus(err) ==
    CASE err = "true"  -> 200
      [] err = "false" -> 404
      [] OTHER         -> 500

PinStatus(err) == NotFoundOr500(err)

\* Deleting what is not there is an internal error when the store says so.  No
\* backend of this repository returns storage.ErrNotSupported.
DeleteStatus(err) ==
    CASE err = "nil"          -> 200
      [] err = "notsupported" -> 501
      [] OTHER                -> 500

\* Of the existence check, or of the signing that follows it.
ResolveStatus(err) ==
    IF err \in {"true", "false"} THEN ExistsStatus(err) ELSE NotFoundOr500(err)

HealthStatus(err) == IF err = "nil" THEN 200 ELSE 503

\* Mutant: a push the store failed is answered as if it had worked.
PushStatus_IgnoresError(err) == 200

PushStatus(err) == IF err = "nil" THEN 200 ELSE 500

StatusOf(o, err) ==
    CASE o = "push"    -> PushStatus(err)
      [] o = "fetch"   -> FetchStatus(err)
      [] o = "exists"  -> ExistsStatus(err)
      [] o = "pin"     -> PinStatus(err)
      [] o = "delete"  -> DeleteStatus(err)
      [] o = "resolve" -> ResolveStatus(err)
      [] OTHER         -> HealthStatus(err)

\* Only a push is audited.
ReasonOf(o, err) ==
    IF o = "push" /\ PushStatus(err) # 200 THEN "backend_error" ELSE ""

\* The resolve handler goes on to sign once the object is known to exist.
SignNext(r) == route[r] = "resolve" /\ op[r] = "exists" /\ ret[r] = "true"

\* Mutant: the handler answers and goes, wherever its call of the store is.
Answer_GivesUp(r) ==
    /\ pc[r] # "idle"
    /\ Leave({r})
    /\ Respond(r, 500, "", path[r], NoBody)
    /\ UNCHANGED <<storeVars, settled, erased, offered, acked, path, now, auditVars>>

\* The store returned to the handler.
Answer(r) ==
    /\ Return(r)
    /\ IF SignNext(r)
       THEN resp' = NoResponse /\ UNCHANGED route
       ELSE Respond(r, StatusOf(route[r], ret[r]), ReasonOf(route[r], ret[r]),
                    path[r], IF route[r] = "push" THEN body[r] ELSE data[r])
    /\ deleted' = deleted \cup
         {c \in {path[r]} : /\ route[r] = "delete" /\ ret[r] = "nil"
                            /\ \A s \in Side : ~PendingAt(s, "push", c)}
    /\ after' = IF SignNext(r) THEN after ELSE after \ {r}
    /\ path' = IF SignNext(r) THEN path ELSE [path EXCEPT ![r] = AnyCID]
    /\ UNCHANGED <<now, uploads, licensed>>

Sign(r) ==
    /\ route[r] = "resolve"
    /\ pc[r] = "idle"
    /\ Call(r, "resolve", path[r], NoBody)
    /\ Silent

-----------------------------------------------------------------------------
ServerCrash ==
    /\ Crash
    /\ route' = [r \in Request |-> "none"]
    /\ path' = [r \in Request |-> AnyCID]
    /\ resp' = NoResponse
    /\ after' = {}
    /\ deleted' = {c \in deleted : \A s \in Side : ~PendingAt(s, "push", c)}
    /\ UNCHANGED <<now, uploads, licensed>>

Tick ==
    /\ now < MaxTime
    /\ now' = now + 1
    /\ resp' = NoResponse
    /\ UNCHANGED <<vars, route, path, auditVars>>

StoreStep(r) == Step(r) /\ Silent

ServerNext ==
    \/ \E r \in Request :
          Push(r) \/ Serve(r) \/ BadPath(r) \/ StoreStep(r) \/ Answer(r) \/ Sign(r)
    \/ \E l \in late : ApplyLate(l) /\ Silent
    \/ ServerCrash
    \/ Tick

ServerSpec == ServerInit /\ [][ServerNext]_allVars

-----------------------------------------------------------------------------
(* Properties *)

\* All the bytes that are stored, or may still be, with their CIDs.
AtRest ==
    {<<c, objects[s][c]>> : s \in Side, c \in CID} \ {<<c, NoBody>> : c \in CID}

\* With VerifyOnPush, what is stored under a CID hashes to it, on both sides,
\* and so does every body a GET is answered with.
ContentMatchesCID ==
    VerifyOnPush =>
        /\ \A p \in AtRest : DigestOf[p[2]] = p[1]
        /\ resp.route = "fetch" /\ resp.status = 200 => DigestOf[resp.body] = resp.cid

\* No body is stored cut short or over the limit: what is at rest is, whole,
\* what a client sent under that CID.
BodiesAreWhole ==
    \A p \in AtRest : p[2] <= MaxBody /\ p \in uploads

\* When tokens are required, nothing is stored that no token was valid for at
\* the time it was presented, with the right CID and size.
StoredOnlyUnderToken ==
    TokenPolicy = "required" => \A p \in AtRest : p \in licensed

\* The handler does not tell whether bytes match a CID before the token for
\* them is accepted.
DigestVerdictNeedsToken ==
    TokenPolicy = "required" /\ resp.reason = "cid_mismatch"
    => <<resp.cid, resp.body>> \in licensed

\* A push answered 200 was acknowledged by the primary, with the same bytes.
PushOkIsStored ==
    resp.route = "push" /\ resp.status = 200 => <<resp.cid, resp.body>> \in acked

\* The handlers use the store as MirroredStore lets its callers: what holds
\* of every behaviour of the store holds of the server.
StoreIsUsedProperly == Spec

\* What reached the mirror outlives the process: a GET does not answer 404 for
\* an object that the mirror acknowledged and that no Delete was called for
\* since, also when a restart has emptied an in-memory primary.  (Not so with a
\* mirror that is a RustFS, whose refusals rustfs.go takes for absence.)
MirroredOutlivesRestart ==
    \A r \in Request :
        /\ Mirrored /\ MirrorKind # "rustfs"
        /\ pc[r] = "return" /\ route[r] = "fetch"
        /\ StatusOf("fetch", ret[r]) = 404
        => r \notin steady["mirror"]

\* "fetch_after_delete_returns_not_found": a GET that arrives after a DELETE was
\* answered 200, with no push since, does not return the object.
GetAfterDelete ==
    \A r \in after :
        ~(pc[r] = "return" /\ route[r] = "fetch" /\ StatusOf("fetch", ret[r]) = 200)

-----------------------------------------------------------------------------
(* The inductive invariant: why what is stored and answered is right *)

\* Every <<cid, body>> a handler ever pushed into the store went through all
\* the checks of PushHandler.
UploadsWereChecked ==
    \A p \in offered :
        /\ p[2] <= MaxBody
        /\ p \in uploads
        /\ VerifyOnPush => DigestOf[p[2]] = p[1]
        /\ TokenPolicy = "required" => p \in licensed

\* A handler waits for the very call it made.
HandlersAreInStep ==
    \A r \in Request :
        pc[r] # "idle" =>
            /\ route[r] # "none"
            /\ path[r] = cid[r]
            /\ route[r] = "push" <=> op[r] = "push"
            /\ route[r] = "fetch" <=> op[r] = "fetch"

\* The store's invariant and the two facts above, whatever the handlers do.
ServerInv ==
    /\ StoreInv
    /\ SuccessHasGrounds
    /\ path \in [Request -> CID]
    /\ route \in [Request -> AllOps \cup {"none"}]
    /\ now \in Nat
    /\ UploadsWereChecked
    /\ HandlersAreInStep
=============================================================================
