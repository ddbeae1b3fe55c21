----------------------- MODULE ArtifactServerProofs ------------------------
(***************************************************************************)
(* Proofs about the HTTP server of ArtifactServer, for every set of        *)
(* requests, CIDs, bodies, tokens and keys and every configuration.        *)
(*                                                                         *)
(* The server is first shown to implement MirroredStore, so that the       *)
(* invariants proved of the store hold of it.  What the handlers add is    *)
(* then carried by UploadsWereChecked: nothing is offered to the store     *)
(* that PushHandler did not check, and the store holds and returns only    *)
(* what it was offered.                                                    *)
(*                                                                         *)
(* The last part is about SignedURLs, which implements ArtifactServer in   *)
(* turn: a handler of /resolve signs only what the store said exists, and  *)
(* for the lifetime that its client asked for.                             *)
(***************************************************************************)
EXTENDS SignedURLs, MirroredStoreProofs

-----------------------------------------------------------------------------
(* What PushHandler checks *)

\* The audit reason of a bad token is never empty and never "cid_mismatch".
LEMMA TokenReason ==
    ASSUME NEW err
    PROVE  classifyTokenError(err) \notin {"", "cid_mismatch"}
  BY DEF classifyTokenError

\* A clock that has not passed a non-zero expiry makes the expiry positive.
LEMMA NotExpired ==
    ASSUME NEW n \in Nat, NEW e \in Int, e # 0, ~(n > e)
    PROVE  0 < e /\ n <= e
  OBVIOUS

\* Under "required", checkUploadToken passes only a token that permits this
\* upload now.
LEMMA TokenChecked ==
    ASSUME NEW t \in Tokens \cup {NoToken}, NEW c, NEW size, now \in Nat,
           TokenPolicy = "required", checkUploadToken(t, c, size) = ""
    PROVE  t # NoToken /\ Permits(t) /\ t.cid = c /\ t.size = size
  <1>1. t # NoToken
    BY DEF checkUploadToken
  <1>2. Verify(Keys, t, c, size, now) = "nil"
    BY <1>1, TokenReason DEF checkUploadToken
  <1>3. t.form \in {"ok", "garbled", "notjson"} /\ t.exp \in Int
    BY <1>1, ServerAssumption
  <1>4. /\ t.form = "ok" /\ t.kid \in DOMAIN Keys /\ t.signer = Keys[t.kid]
        /\ Claims(t, c, size, now) = "nil"
    BY <1>2, <1>3 DEF Verify
  <1>5. t.exp # 0 /\ ~(now > t.exp) /\ t.cid = c /\ t.size = size
    BY <1>4 DEF Claims
  <1>6. 0 < t.exp /\ now <= t.exp
    BY <1>3, <1>5, NotExpired
  <1> QED BY <1>1, <1>4, <1>5, <1>6 DEF Permits

\* A body within the limit is read whole.
LEMMA BodyReadWhole ==
    ASSUME NEW sent \in Nat, ~(ReadBody(sent) > MaxBody)
    PROVE  ReadBody(sent) = sent /\ sent <= MaxBody
  BY ServerAssumption DEF ReadBody, Min2

\* A push that is let through has a CID, arrived whole, fits, and passed the
\* token check and, when configured, the digest check.
LEMMA PushChecked ==
    ASSUME NEW header \in CID \cup {"missing", "invalid"}, NEW sent \in Body,
           NEW read \in BOOLEAN, NEW t \in Tokens \cup {NoToken},
           pushVerdict(header, sent, read, t) = ""
    PROVE  /\ header \in CID
           /\ ReadBody(sent) = sent
           /\ sent <= MaxBody
           /\ checkUploadToken(t, header, sent) = ""
           /\ VerifyOnPush => DigestOf[sent] = header
  <1>1. /\ header # "missing" /\ header # "invalid" /\ ~(ReadBody(sent) > MaxBody)
        /\ checkUploadToken(t, header, ReadBody(sent)) = ""
        /\ VerifyOnPush => DigestOf[ReadBody(sent)] = header
    BY DEF pushVerdict
  <1>2. ReadBody(sent) = sent /\ sent <= MaxBody
    BY <1>1, BodyReadWhole, ServerAssumption
  <1> QED BY <1>1, <1>2

\* A push turned away for its digest had passed every check before that one.
LEMMA MismatchChecked ==
    ASSUME NEW header \in CID \cup {"missing", "invalid"}, NEW sent \in Body,
           NEW read \in BOOLEAN, NEW t \in Tokens \cup {NoToken},
           pushVerdict(header, sent, read, t) = "cid_mismatch"
    PROVE  /\ header \in CID
           /\ ReadBody(sent) = sent
           /\ checkUploadToken(t, header, sent) = ""
  <1>1. \A c, size : checkUploadToken(t, c, size) # "cid_mismatch"
    BY TokenReason DEF checkUploadToken
  <1>2. /\ header # "missing" /\ header # "invalid" /\ ~(ReadBody(sent) > MaxBody)
        /\ checkUploadToken(t, header, ReadBody(sent)) = ""
    BY <1>1 DEF pushVerdict
  <1>3. ReadBody(sent) = sent
    BY <1>2, BodyReadWhole, ServerAssumption
  <1> QED BY <1>2, <1>3

-----------------------------------------------------------------------------
(* The server implements the store *)

\* What a handler knows without looking at the store.
HandlerTypes ==
    /\ path \in [Request -> CID]
    /\ route \in [Request -> AllOps \cup {"none"}]
    /\ now \in Nat

\* Every step of the server is a step of the store or leaves it alone.
LEMMA ServerStep ==
    ASSUME HandlerTypes, [ServerNext]_allVars
    PROVE  [Next]_vars
  <1>1. ASSUME NEW r \in Request, Push(r) PROVE [Next]_vars
    <2>1. PICK header \in CID \cup {"missing", "invalid"}, sent \in Body,
               read \in BOOLEAN, t \in Tokens \cup {NoToken} :
             LET why == pushVerdict(header, sent, read, t) IN
             (why = "" /\ Admit(r, header, sent)) \/ TurnAway(header, sent, why)
      BY ZenonT(30), <1>1 DEF Push
    <2>2. CASE pushVerdict(header, sent, read, t) = "" /\ Admit(r, header, sent)
      <3>1. header \in CID /\ ReadBody(sent) = sent
        BY <2>2, PushChecked
      <3>2. Enter(r)
        BY <2>2, <3>1, ServerAssumption DEF Admit, Enter, AllOps, Mutators
      <3> QED BY <3>2 DEF Next
    <2> QED BY <2>1, <2>2 DEF TurnAway
  <1>2. ASSUME NEW r \in Request, Serve(r) PROVE [Next]_vars
    <2>1. PICK o \in Routes \ {"push"}, c \in CID : Call(r, FirstCall(o), c, NoBody)
      BY <1>2 DEF Serve
    <2>2. FirstCall(o) \in Ops \ {"push"}
      BY ServerAssumption DEF FirstCall, AllOps
    <2>3. Enter(r)
      BY <2>1, <2>2 DEF Enter
    <2> QED BY <2>3 DEF Next
  <1>3. ASSUME NEW r \in Request, Sign(r) PROVE [Next]_vars
    <2>1. path[r] \in CID /\ "resolve" \in Ops
      BY ServerAssumption DEF HandlerTypes, AllOps
    <2>2. Enter(r)
      BY <1>3, <2>1 DEF Sign, Enter
    <2> QED BY <2>2 DEF Next
  <1>4. ASSUME NEW r \in Request, BadPath(r) \/ StoreStep(r) \/ Answer(r)
        PROVE  [Next]_vars
    <2>1. UNCHANGED vars \/ Step(r) \/ Return(r)
      BY Zenon, <1>4 DEF BadPath, StoreStep, Answer
    <2> QED BY <2>1 DEF Next
  <1>5. CASE (\E l \in late : ApplyLate(l) /\ Silent) \/ ServerCrash \/ Tick
    BY <1>5 DEF ServerCrash, Tick, Next
  <1>6. CASE UNCHANGED allVars
    BY <1>6 DEF allVars
  <1> QED BY <1>1, <1>2, <1>3, <1>4, <1>5, <1>6 DEF ServerNext

\* The handlers' own variables keep their types.
LEMMA HandlerTypesStep ==
    ASSUME HandlerTypes, [ServerNext]_allVars
    PROVE  HandlerTypes'
  <1> USE DEF HandlerTypes
  <1>0. AnyCID \in CID
    BY ConstantsAssumption DEF AnyCID
  <1>1. ASSUME NEW r \in Request, Push(r) PROVE HandlerTypes'
    <2>1. PICK header \in CID \cup {"missing", "invalid"}, sent \in Body,
               read \in BOOLEAN, t \in Tokens \cup {NoToken} :
             LET why == pushVerdict(header, sent, read, t) IN
             (why = "" /\ Admit(r, header, sent)) \/ TurnAway(header, sent, why)
      BY ZenonT(30), <1>1 DEF Push
    <2>2. pushVerdict(header, sent, read, t) = "" => header \in CID
      BY PushChecked
    <2>3. now' = now
      BY Zenon, <1>1 DEF Push
    <2>4. CASE TurnAway(header, sent, pushVerdict(header, sent, read, t))
      BY <2>3, <2>4 DEF TurnAway
    <2>5. CASE header \in CID /\ Admit(r, header, sent)
      BY <2>3, <2>5 DEF Admit, AllOps, Mutators
    <2> QED BY Zenon, <2>1, <2>2, <2>4, <2>5
  <1>2. ASSUME NEW r \in Request, Serve(r) PROVE HandlerTypes'
    BY <1>2, ServerAssumption DEF Serve
  <1>3. ASSUME NEW r \in Request, Answer(r) PROVE HandlerTypes'
    <2>1. /\ route' = route \/ route' = [route EXCEPT ![r] = "none"]
          /\ path' = path \/ path' = [path EXCEPT ![r] = AnyCID]
          /\ now' = now
      BY Zenon, <1>3 DEF Answer, Respond
    <2> QED BY <1>0, <2>1
  <1>4. ASSUME NEW r \in Request, BadPath(r) \/ StoreStep(r) \/ Sign(r)
        PROVE  HandlerTypes'
    BY Zenon, <1>4 DEF BadPath, StoreStep, Sign, Silent
  <1>5. CASE (\E l \in late : ApplyLate(l) /\ Silent) \/ ServerCrash \/ Tick
    BY <1>0, <1>5 DEF Silent, ServerCrash, Tick
  <1>6. CASE UNCHANGED allVars
    BY <1>6 DEF allVars, serverVars
  <1> QED BY Zenon, <1>1, <1>2, <1>3, <1>4, <1>5, <1>6 DEF ServerNext

\* The handlers' types hold of every behaviour of the server.
LEMMA HandlerTypesInvariant == ServerSpec => []HandlerTypes
  <1>1. ServerInit => HandlerTypes
    BY ConstantsAssumption DEF ServerInit, HandlerTypes, AnyCID
  <1> QED BY <1>1, HandlerTypesStep, PTL DEF ServerSpec

\* The handlers call the store only as its specification allows, so every
\* theorem about MirroredStore is one about the server.
THEOREM ServerUsesStore == ServerSpec => StoreIsUsedProperly
  <1>1. ServerInit => Init
    BY DEF ServerInit
  <1> QED
    BY <1>1, ServerStep, HandlerTypesInvariant, PTL
    DEF ServerSpec, StoreIsUsedProperly, Spec

-----------------------------------------------------------------------------
(* What the handlers add *)

\* A step inside the store changes no arguments, offers nothing, and neither
\* admits nor dismisses a request.
LEMMA StepFrame ==
    ASSUME StoreInv, NEW r \in Request, Step(r)
    PROVE  /\ UNCHANGED <<op, cid, body, offered>>
           /\ \A q \in Request : pc'[q] = "idle" <=> pc[q] = "idle"
           /\ \A q \in Request : q # r => pc'[q] = pc[q]
  <1>0. TypeOK /\ MirrorWasAcked
    BY DEF StoreInv
  <1>1. CASE Resolve(r)
    BY Zenon, <1>0, <1>1 DEF Resolve, Finish, histVars, TypeOK
  <1>2. ASSUME NEW s \in Side, NEW o \in AllOps, NEW reply \in Replies,
               Asks(r, s, o, reply), Proceeds(r, s, reply)
        PROVE  /\ UNCHANGED <<op, cid, body, offered>>
               /\ \A q \in Request : pc'[q] = "idle" <=> pc[q] = "idle"
               /\ \A q \in Request : q # r => pc'[q] = pc[q]
    <2>1. pc[r] # "idle" /\ UNCHANGED <<op, cid, body, offered>>
      BY Zenon, <1>2 DEF Asks, NoteReply, Side
    <2>2. \E v \in {"mirror", "return"} : pc' = [pc EXCEPT ![r] = v]
      BY Zenon, <1>2 DEF Proceeds, ToMirror, Finish
    <2> QED BY Zenon, <1>0, <2>1, <2>2 DEF TypeOK
  <1> QED BY Zenon, <1>0, <1>1, <1>2, StepShape

\* The histories of uploads and of valid tokens only grow.
LEMMA AuditGrows ==
    ASSUME [ServerNext]_allVars
    PROVE  uploads \subseteq uploads' /\ licensed \subseteq licensed'
  <1>1. ASSUME NEW r \in Request, Push(r)
        PROVE  uploads \subseteq uploads' /\ licensed \subseteq licensed'
    BY Zenon, <1>1 DEF Push, NoteUpload
  <1>2. ASSUME NEW r \in Request,
               Serve(r) \/ BadPath(r) \/ StoreStep(r) \/ Answer(r) \/ Sign(r)
        PROVE  UNCHANGED <<uploads, licensed>>
    BY Zenon, <1>2 DEF Serve, BadPath, StoreStep, Answer, Sign, Silent, auditVars
  <1>3. CASE (\E l \in late : ApplyLate(l) /\ Silent) \/ ServerCrash \/ Tick
    BY <1>3 DEF Silent, ServerCrash, Tick, auditVars
  <1>4. CASE UNCHANGED allVars
    BY <1>4 DEF allVars, auditVars
  <1> QED BY <1>1, <1>2, <1>3, <1>4 DEF ServerNext

\* A step of the server offers the store a checked upload, or nothing.
LEMMA OfferedIsChecked ==
    ASSUME StoreInv, HandlerTypes, [ServerNext]_allVars, NEW p \in offered'
    PROVE  \/ p \in offered
           \/ /\ p[2] <= MaxBody
              /\ p \in uploads'
              /\ VerifyOnPush => DigestOf[p[2]] = p[1]
              /\ TokenPolicy = "required" => p \in licensed'
  <1>1. ASSUME NEW r \in Request, Push(r), p \notin offered
        PROVE  /\ p[2] <= MaxBody
               /\ p \in uploads'
               /\ VerifyOnPush => DigestOf[p[2]] = p[1]
               /\ TokenPolicy = "required" => p \in licensed'
    <2>1. PICK header \in CID \cup {"missing", "invalid"}, sent \in Body,
               read \in BOOLEAN, t \in Tokens \cup {NoToken} :
             LET why == pushVerdict(header, sent, read, t) IN
             /\ NoteUpload(header, sent, t, why)
             /\ (why = "" /\ Admit(r, header, sent)) \/ TurnAway(header, sent, why)
      BY ZenonT(30), <1>1 DEF Push
    <2>2. ~TurnAway(header, sent, pushVerdict(header, sent, read, t))
      BY Zenon, <1>1 DEF TurnAway, vars, histVars
    <2>3. pushVerdict(header, sent, read, t) = "" /\ Admit(r, header, sent)
      BY <2>1, <2>2
    <2>4. /\ header \in CID /\ ReadBody(sent) = sent /\ sent <= MaxBody
          /\ checkUploadToken(t, header, sent) = ""
          /\ VerifyOnPush => DigestOf[sent] = header
      BY Zenon, <2>3, PushChecked
    <2>5. p = <<header, sent>>
      BY Zenon, <1>1, <2>3, <2>4 DEF Admit, Call, NoteCall
    <2>6. <<header, sent>> \in uploads'
      BY Zenon, <2>1, <2>3 DEF NoteUpload
    <2>7. TokenPolicy = "required" => <<header, sent>> \in licensed'
      <3>1. TokenPolicy = "required"
            => t # NoToken /\ Permits(t) /\ t.cid = header /\ t.size = sent
        BY Zenon, <2>4, TokenChecked DEF HandlerTypes
      <3> QED BY Zenon, <2>1, <3>1 DEF NoteUpload
    <2> QED BY Zenon, <2>4, <2>5, <2>6, <2>7
  <1>2. ASSUME NEW r \in Request, Serve(r) PROVE offered' = offered
    <2>1. PICK o \in Routes \ {"push"}, c \in CID : Call(r, FirstCall(o), c, NoBody)
      BY Zenon, <1>2 DEF Serve
    <2>2. FirstCall(o) # "push"
      BY DEF FirstCall
    <2> QED BY Zenon, <2>1, <2>2 DEF Call, NoteCall
  <1>3. ASSUME NEW r \in Request, Sign(r) PROVE offered' = offered
    BY Zenon, <1>3 DEF Sign, Call, NoteCall
  <1>4. ASSUME NEW r \in Request, StoreStep(r) PROVE offered' = offered
    BY <1>4, StepFrame DEF StoreStep
  <1>5. ASSUME NEW r \in Request, BadPath(r) \/ Answer(r) PROVE offered' = offered
    BY Zenon, <1>5 DEF BadPath, Answer, Return, vars, histVars
  <1>6. CASE (\E l \in late : ApplyLate(l) /\ Silent) \/ ServerCrash \/ Tick
    BY Zenon, <1>6 DEF ApplyLate, ServerCrash, Crash, Tick, vars, histVars
  <1>7. CASE UNCHANGED allVars
    BY Zenon, <1>7 DEF allVars, vars, histVars
  <1> QED BY Zenon, <1>1, <1>2, <1>3, <1>4, <1>5, <1>6, <1>7 DEF ServerNext

\* A handler stays in step with its call of the store.
LEMMA InStepStep ==
    ASSUME StoreInv, HandlerTypes, HandlersAreInStep, [ServerNext]_allVars
    PROVE  HandlersAreInStep'
  <1> SUFFICES ASSUME NEW q \in Request, pc'[q] # "idle"
               PROVE  /\ route'[q] # "none"
                      /\ path'[q] = cid'[q]
                      /\ route'[q] = "push" <=> op'[q] = "push"
                      /\ route'[q] = "fetch" <=> op'[q] = "fetch"
    BY DEF HandlersAreInStep
  <1>0. TypeOK
    BY DEF StoreInv
  <1>1. CASE /\ pc[q] # "idle"
             /\ route'[q] = route[q] /\ path'[q] = path[q]
             /\ op'[q] = op[q] /\ cid'[q] = cid[q]
    BY <1>1 DEF HandlersAreInStep
  <1>2. ASSUME NEW r \in Request, NEW o, NEW c, NEW b, Call(r, o, c, b), r # q
        PROVE  pc[q] # "idle" /\ op'[q] = op[q] /\ cid'[q] = cid[q]
    BY Zenon, <1>0, <1>2 DEF Call, TypeOK
  <1>3. ASSUME NEW o, NEW c, NEW b, Call(q, o, c, b)
        PROVE  op'[q] = o /\ cid'[q] = c
    BY Zenon, <1>0, <1>3 DEF Call, TypeOK
  <1>4. ASSUME NEW r \in Request, NEW header, NEW sent, Admit(r, header, sent)
        PROVE  /\ route'[q] # "none"
               /\ path'[q] = cid'[q]
               /\ route'[q] = "push" <=> op'[q] = "push"
               /\ route'[q] = "fetch" <=> op'[q] = "fetch"
    <2>1. CASE r = q
      BY <1>3, <1>4, <2>1 DEF Admit, HandlerTypes
    <2>2. CASE r # q
      BY Zenon, <1>1, <1>2, <1>4, <2>2 DEF Admit, HandlerTypes
    <2> QED BY <2>1, <2>2
  <1>5. ASSUME NEW r \in Request, Serve(r)
        PROVE  /\ route'[q] # "none"
               /\ path'[q] = cid'[q]
               /\ route'[q] = "push" <=> op'[q] = "push"
               /\ route'[q] = "fetch" <=> op'[q] = "fetch"
    <2>1. PICK o \in Routes \ {"push"}, c \in CID :
             /\ Call(r, FirstCall(o), c, NoBody)
             /\ route' = [route EXCEPT ![r] = o]
             /\ path' = [path EXCEPT ![r] = c]
      BY Zenon, <1>5 DEF Serve
    <2>2. /\ o # "none" /\ o # "push" /\ FirstCall(o) # "push"
          /\ o = "fetch" <=> FirstCall(o) = "fetch"
      BY ServerAssumption DEF FirstCall, AllOps, Mutators
    <2>3. CASE r = q
      BY <1>3, <2>1, <2>2, <2>3 DEF HandlerTypes
    <2>4. CASE r # q
      BY Zenon, <1>1, <1>2, <2>1, <2>4 DEF HandlerTypes
    <2> QED BY <2>3, <2>4
  <1>6. ASSUME NEW r \in Request, Sign(r)
        PROVE  /\ route'[q] # "none"
               /\ path'[q] = cid'[q]
               /\ route'[q] = "push" <=> op'[q] = "push"
               /\ route'[q] = "fetch" <=> op'[q] = "fetch"
    <2>1. CASE r = q
      BY Zenon, <1>3, <1>6, <2>1 DEF Sign, Silent
    <2>2. CASE r # q
      BY Zenon, <1>1, <1>2, <1>6, <2>2 DEF Sign, Silent
    <2> QED BY <2>1, <2>2
  <1>7. ASSUME NEW r \in Request, StoreStep(r)
        PROVE  /\ pc[q] # "idle"
               /\ route'[q] = route[q] /\ path'[q] = path[q]
               /\ op'[q] = op[q] /\ cid'[q] = cid[q]
    BY <1>7, StepFrame DEF StoreStep, Silent
  <1>8. ASSUME NEW r \in Request, Answer(r)
        PROVE  /\ pc[q] # "idle"
               /\ route'[q] = route[q] /\ path'[q] = path[q]
               /\ op'[q] = op[q] /\ cid'[q] = cid[q]
    <2>1. /\ r # q
          /\ pc'[q] = pc[q] /\ op'[q] = op[q] /\ cid'[q] = cid[q]
      BY Zenon, <1>0, <1>8 DEF Answer, Return, Leave, TypeOK
    <2>2. /\ route' = route \/ route' = [route EXCEPT ![r] = "none"]
          /\ path' = path \/ path' = [path EXCEPT ![r] = AnyCID]
      BY Zenon, <1>8 DEF Answer, Respond
    <2> QED BY <2>1, <2>2 DEF HandlerTypes
  <1>9. CASE ServerCrash
    BY Zenon, <1>0, <1>9 DEF ServerCrash, Crash, Leave
  <1>10. CASE \E l \in late : ApplyLate(l) /\ Silent
    BY Zenon, <1>1, <1>10 DEF ApplyLate, Silent, callVars
  <1>11. CASE UNCHANGED <<vars, route, path>>
    BY Zenon, <1>1, <1>11 DEF vars, callVars
  <1>12. ASSUME NEW r \in Request, Push(r)
         PROVE  \/ UNCHANGED <<vars, route, path>>
                \/ \E header, sent : Admit(r, header, sent)
    <2>1. PICK header, sent :
            \/ Admit(r, header, sent)
            \/ \E why : TurnAway(header, sent, why)
      BY Zenon, <1>12, Zenon DEF Push
    <2> QED BY <2>1 DEF TurnAway
  <1>13. ASSUME NEW r \in Request, BadPath(r) PROVE UNCHANGED <<vars, route, path>>
    BY <1>13 DEF BadPath
  <1>14. CASE Tick \/ UNCHANGED allVars
    BY <1>11, <1>14 DEF Tick, allVars, serverVars
  <1> QED
    BY Zenon, <1>1, <1>4, <1>5, <1>6, <1>7, <1>8, <1>9, <1>10, <1>11, <1>12, <1>13, <1>14
    DEF ServerNext

\* ServerInv is an invariant: whatever requests, crashes and late calls
\* interleave, handlers are in step with the store and every byte in it passed
\* the checks of push.go.
THEOREM ServerInvariant == ServerSpec => []ServerInv
  <1>1. ServerInit => UploadsWereChecked /\ HandlersAreInStep
    BY DEF ServerInit, Init, UploadsWereChecked, HandlersAreInStep
  <1>2. UploadsWereChecked /\ StoreInv /\ HandlerTypes /\ [ServerNext]_allVars
        => UploadsWereChecked'
    <2> SUFFICES ASSUME UploadsWereChecked, StoreInv, HandlerTypes,
                        [ServerNext]_allVars, NEW p \in offered'
                 PROVE  /\ p[2] <= MaxBody
                        /\ p \in uploads'
                        /\ VerifyOnPush => DigestOf[p[2]] = p[1]
                        /\ TokenPolicy = "required" => p \in licensed'
      BY DEF UploadsWereChecked
    <2>1. CASE p \in offered
      BY <2>1, AuditGrows DEF UploadsWereChecked
    <2> QED BY <2>1, OfferedIsChecked
  <1>3. HandlersAreInStep /\ StoreInv /\ HandlerTypes /\ [ServerNext]_allVars
        => HandlersAreInStep'
    BY InStepStep
  <1>4. StoreInv /\ SuccessHasGrounds /\ HandlerTypes
        /\ UploadsWereChecked /\ HandlersAreInStep => ServerInv
    BY DEF ServerInv, HandlerTypes
  <1>5. ServerSpec => []StoreInv /\ []SuccessHasGrounds
    BY ServerUsesStore, StoreInvariant, SuccessIsGrounded, PTL DEF StoreIsUsedProperly
  <1> QED
    BY <1>1, <1>2, <1>3, <1>4, <1>5, HandlerTypesInvariant, PTL DEF ServerSpec

-----------------------------------------------------------------------------
(* What is at rest *)

\* Every byte at rest went through the checks of PushHandler.
LEMMA AtRestIsChecked ==
    ASSUME ServerInv, NEW p \in AtRest
    PROVE  /\ p[2] <= MaxBody
           /\ p \in uploads
           /\ VerifyOnPush => DigestOf[p[2]] = p[1]
           /\ TokenPolicy = "required" => p \in licensed
  <1>1. PICK s \in Side, c \in CID : p = <<c, objects[s][c]>> /\ objects[s][c] # NoBody
    BY DEF AtRest
  <1>2. p \in offered
    BY Zenon, <1>1 DEF ServerInv, StoreInv, BytesWereOffered, Holds
  <1> QED BY <1>2 DEF ServerInv, UploadsWereChecked

\* What PushHandler stores is what a client sent, whole and within the limit.
THEOREM BodiesStayWhole == ServerSpec => []BodiesAreWhole
  <1>1. ServerInv => BodiesAreWhole
    BY AtRestIsChecked DEF BodiesAreWhole
  <1> QED BY <1>1, ServerInvariant, PTL

\* Under the "required" policy of checkUploadToken, everything stored was
\* permitted by a valid token when it was pushed.
THEOREM TokensGuardStorage == ServerSpec => []StoredOnlyUnderToken
  <1>1. ServerInv => StoredOnlyUnderToken
    BY AtRestIsChecked DEF StoredOnlyUnderToken
  <1> QED BY <1>1, ServerInvariant, PTL

-----------------------------------------------------------------------------
(* What is answered *)

\* A silent step writes neither a success nor a reason.
LEMMA NoResponseIsSilent == NoResponse.status # 200 /\ NoResponse.reason = ""
  BY DEF NoResponse

\* The statuses of rejections are never 200.
LEMMA RejectionStatus ==
    ASSUME NEW why
    PROVE  StatusOfReason(why) # 200
  <1>1. StatusOfReason(why) \in {400, 413, 401}
    BY DEF StatusOfReason
  <1> QED BY <1>1

\* PushHandler and FetchHandler answer 200 only if the store returned nil.
LEMMA OkNeedsNil ==
    ASSUME NEW o \in {"push", "fetch"}, NEW err, StatusOf(o, err) = 200
    PROVE  err = "nil"
  <1>1. o = "push" => StatusOf(o, err) = PushStatus(err)
    BY Zenon DEF StatusOf
  <1>2. o = "fetch" => StatusOf(o, err) = FetchStatus(err)
    BY Zenon DEF StatusOf
  <1>3. err # "nil" => FetchStatus(err) \in {404, 500}
    BY DEF FetchStatus, NotFoundOr500
  <1> QED BY <1>1, <1>2, <1>3 DEF PushStatus

\* The response is the one Answer makes of what the store returned to r.
AnswersFor(r) ==
    /\ pc[r] = "return"
    /\ resp'.route = route[r]
    /\ resp'.reason # "cid_mismatch"
    /\ resp'.status = StatusOf(route[r], ret[r])
    /\ resp'.cid = path[r]
    /\ resp'.body = IF route[r] = "push" THEN body[r] ELSE data[r]
    /\ acked' = acked

\* It is no success and gives no reason.
Quiet == resp'.status # 200 /\ resp'.reason = ""

\* It is a rejection by PushHandler.
Rejects(r) == Push(r) /\ resp'.status # 200

\* A response is left from before, is no success and gives no reason, is a
\* rejection by PushHandler, or passes on what the store returned.
LEMMA ResponseCases ==
    ASSUME ServerInv, [ServerNext]_allVars
    PROVE  \/ resp' = resp /\ UNCHANGED <<acked, licensed>>
           \/ Quiet
           \/ \E r \in Request : Rejects(r) \/ AnswersFor(r)
  <1>0. resp' = NoResponse => Quiet
    BY Zenon, NoResponseIsSilent DEF Quiet
  <1>1. ASSUME NEW r \in Request, Push(r)
        PROVE  Rejects(r)
    <2>1. PICK header, sent, why :
             Admit(r, header, sent) \/ TurnAway(header, sent, why)
      BY Zenon, <1>1, Zenon DEF Push
    <2>2. Admit(r, header, sent) => resp'.status # 200
      BY Zenon, NoResponseIsSilent DEF Admit
    <2>3. TurnAway(header, sent, why) => resp'.status # 200
      BY RejectionStatus DEF TurnAway
    <2> QED BY <1>1, <2>1, <2>2, <2>3 DEF Rejects
  <1>2. ASSUME NEW r \in Request, BadPath(r)
        PROVE  Quiet
    BY <1>2 DEF BadPath, NoResponse, Quiet
  <1>3. ASSUME NEW r \in Request, Answer(r), resp' # NoResponse
        PROVE  AnswersFor(r)
    <2>1. /\ pc[r] = "return" /\ acked' = acked
          /\ Respond(r, StatusOf(route[r], ret[r]), ReasonOf(route[r], ret[r]),
                     path[r], IF route[r] = "push" THEN body[r] ELSE data[r])
      BY Zenon, <1>3 DEF Answer, Return
    <2>2. ReasonOf(route[r], ret[r]) # "cid_mismatch"
      BY Zenon DEF ReasonOf
    <2> QED BY Zenon, <2>1, <2>2 DEF Respond, AnswersFor
  <1>4. ASSUME NEW r \in Request, Serve(r) \/ StoreStep(r) \/ Sign(r)
        PROVE  resp' = NoResponse
    BY Zenon, <1>4 DEF Serve, StoreStep, Sign, Silent
  <1>5. CASE (\E l \in late : ApplyLate(l) /\ Silent) \/ ServerCrash \/ Tick
    BY <1>0, <1>5 DEF Silent, ServerCrash, Tick
  <1>6. CASE UNCHANGED allVars
    BY <1>6 DEF allVars, vars, histVars, serverVars, auditVars
  <1>7. ASSUME NEW r \in Request,
               Push(r) \/ Serve(r) \/ BadPath(r) \/ StoreStep(r) \/ Answer(r) \/ Sign(r)
        PROVE  Quiet \/ Rejects(r) \/ AnswersFor(r)
    BY <1>0, <1>1, <1>2, <1>3, <1>4, <1>7
  <1> QED BY Zenon, <1>5, <1>6, <1>7 DEF ServerNext

\* PushHandler answers 200 only after the primary acknowledged the body it
\* read under the CID it was given.
THEOREM PushOkMeansStored == ServerSpec => []PushOkIsStored
  <1>1. ServerInit => PushOkIsStored
    BY Zenon, NoResponseIsSilent DEF ServerInit, PushOkIsStored
  <1>2. ServerInv /\ PushOkIsStored /\ [ServerNext]_allVars => PushOkIsStored'
    <2> SUFFICES ASSUME ServerInv, PushOkIsStored, [ServerNext]_allVars,
                        resp'.route = "push", resp'.status = 200
                 PROVE  <<resp'.cid, resp'.body>> \in acked'
      BY DEF PushOkIsStored
    <2>1. CASE resp' = resp /\ UNCHANGED <<acked, licensed>>
      BY <2>1 DEF PushOkIsStored
    <2>2. ASSUME NEW r \in Request, pc[r] = "return", route[r] = "push",
                 StatusOf(route[r], ret[r]) = 200
          PROVE  <<path[r], body[r]>> \in acked
      <3>1. ret[r] = "nil"
        BY <2>2, OkNeedsNil
      <3>2. op[r] = "push" /\ path[r] = cid[r]
        BY <2>2 DEF ServerInv, HandlersAreInStep
      <3> QED BY Zenon, <2>2, <3>1, <3>2 DEF ServerInv, SuccessHasGrounds
    <2> QED BY <2>1, <2>2, ResponseCases DEF AnswersFor, Quiet, Rejects
  <1> QED BY <1>1, <1>2, ServerInvariant, PTL DEF ServerSpec

\* FetchHandler answers 404 only if the store's Fetch said "not found", and no
\* restart makes it say so of an object that a mirror has had all along: Fetch
\* has its "not found" from the mirror.
THEOREM RestartsKeepMirrored == ServerSpec => []MirroredOutlivesRestart
  <1>1. ServerInv /\ (\A r \in Request : ToldTruth(r)) => MirroredOutlivesRestart
    <2> SUFFICES ASSUME ServerInv, NEW r \in Request, ToldTruth(r),
                        Mirrored, MirrorKind # "rustfs",
                        pc[r] = "return", route[r] = "fetch",
                        StatusOf("fetch", ret[r]) = 404
                 PROVE  r \notin steady["mirror"]
      BY Zenon DEF MirroredOutlivesRestart
    <2>1. ret[r] = "notfound"
      <3>1. StatusOf("fetch", ret[r]) = FetchStatus(ret[r])
        BY Zenon DEF StatusOf
      <3>2. ret[r] # "notfound" => FetchStatus(ret[r]) \in {200, 500}
        BY DEF FetchStatus, NotFoundOr500
      <3> QED BY <3>1, <3>2
    <2>2. op[r] = "fetch"
      BY DEF ServerInv, HandlersAreInStep
    <2>3. LastAsked = "mirror" /\ KindOf("mirror") = MirrorKind
      BY DEF LastAsked, KindOf
    <2> QED BY Zenon, <2>1, <2>2, <2>3 DEF ToldTruth
  <1>2. ServerSpec => [](\A r \in Request : ToldTruth(r))
    BY ServerUsesStore, Truth, PTL DEF StoreIsUsedProperly
  <1> QED BY <1>1, <1>2, ServerInvariant, PTL

\* The two halves of ContentMatchesCID: what is at rest, what is answered.
RestMatches == VerifyOnPush => \A p \in AtRest : DigestOf[p[2]] = p[1]

FetchMatches ==
    VerifyOnPush /\ resp.route = "fetch" /\ resp.status = 200
    => DigestOf[resp.body] = resp.cid

\* With VerifyOnPush, content is authentic: at rest on both sides, and in
\* every 200 that FetchHandler writes.
THEOREM ContentIsAuthentic == ServerSpec => []ContentMatchesCID
  <1>1. ServerInv => RestMatches
    BY AtRestIsChecked DEF RestMatches
  <1>2. ServerInit => FetchMatches
    BY NoResponseIsSilent DEF ServerInit, FetchMatches
  <1>3. ServerInv /\ FetchMatches /\ [ServerNext]_allVars => FetchMatches'
    <2> SUFFICES ASSUME ServerInv, FetchMatches, [ServerNext]_allVars, VerifyOnPush,
                        resp'.route = "fetch", resp'.status = 200
                 PROVE  DigestOf[resp'.body] = resp'.cid
      BY DEF FetchMatches
    <2>1. CASE resp' = resp /\ UNCHANGED <<acked, licensed>>
      BY Zenon, <2>1 DEF FetchMatches
    <2>2. ASSUME NEW r \in Request, pc[r] = "return", route[r] = "fetch",
                 StatusOf(route[r], ret[r]) = 200
          PROVE  DigestOf[data[r]] = path[r]
      <3>1. ret[r] = "nil"
        BY <2>2, OkNeedsNil
      <3>2. op[r] = "fetch" /\ path[r] = cid[r]
        BY <2>2 DEF ServerInv, HandlersAreInStep
      <3>3. <<cid[r], data[r]>> \in offered
        BY Zenon, <2>2, <3>1, <3>2 DEF ServerInv, SuccessHasGrounds
      <3> QED BY <3>2, <3>3 DEF ServerInv, UploadsWereChecked
    <2> QED BY <2>1, <2>2, ResponseCases DEF AnswersFor, Quiet, Rejects
  <1>4. RestMatches /\ FetchMatches => ContentMatchesCID
    BY DEF RestMatches, FetchMatches, ContentMatchesCID
  <1> QED BY <1>1, <1>2, <1>3, <1>4, ServerInvariant, PTL DEF ServerSpec

\* Under the "required" policy PushHandler reveals a digest mismatch only to
\* the holder of a valid token for that very upload.
THEOREM VerdictsNeedTokens == ServerSpec => []DigestVerdictNeedsToken
  <1>1. ServerInit => DigestVerdictNeedsToken
    BY NoResponseIsSilent DEF ServerInit, DigestVerdictNeedsToken
  <1>2. ServerInv /\ DigestVerdictNeedsToken /\ [ServerNext]_allVars
        => DigestVerdictNeedsToken'
    <2> SUFFICES ASSUME ServerInv, DigestVerdictNeedsToken, [ServerNext]_allVars,
                        TokenPolicy = "required", resp'.reason = "cid_mismatch"
                 PROVE  <<resp'.cid, resp'.body>> \in licensed'
      BY DEF DigestVerdictNeedsToken
    <2>1. CASE resp' = resp /\ UNCHANGED <<acked, licensed>>
      BY <2>1 DEF DigestVerdictNeedsToken
    <2>2. ASSUME NEW r \in Request, Push(r)
          PROVE  <<resp'.cid, resp'.body>> \in licensed'
      <3>1. PICK header \in CID \cup {"missing", "invalid"}, sent \in Body,
                 read \in BOOLEAN, t \in Tokens \cup {NoToken} :
               LET why == pushVerdict(header, sent, read, t) IN
               /\ NoteUpload(header, sent, t, why)
               /\ Admit(r, header, sent) \/ TurnAway(header, sent, why)
        BY ZenonT(30), <2>2 DEF Push
      <3>2. ~Admit(r, header, sent)
        BY NoResponseIsSilent DEF Admit
      <3>3. /\ pushVerdict(header, sent, read, t) = "cid_mismatch"
            /\ resp'.cid = IF header \in CID THEN header ELSE AnyCID
            /\ resp'.body = ReadBody(sent)
        BY <3>1, <3>2 DEF TurnAway
      <3>4. /\ header \in CID /\ ReadBody(sent) = sent
            /\ checkUploadToken(t, header, sent) = ""
        BY Zenon, <3>3, MismatchChecked
      <3>5. t # NoToken /\ Permits(t) /\ t.cid = header /\ t.size = sent
        BY Zenon, <3>4, TokenChecked DEF ServerInv
      <3>6. <<header, sent>> \in licensed'
        BY Zenon, <3>1, <3>5 DEF NoteUpload
      <3> QED BY <3>3, <3>4, <3>6
    <2> QED BY <2>1, <2>2, ResponseCases DEF AnswersFor, Quiet, Rejects
  <1> QED BY <1>1, <1>2, ServerInvariant, PTL DEF ServerSpec

-----------------------------------------------------------------------------
(* What /resolve hands out *)

\* A handler of /resolve asks Exists first, and goes on to sign only when some
\* client uploaded the object.
LEMMA ResolveStep ==
    ASSUME ServerInv, ExistsIsGrounded, ResolvesAreInStep, [ServerNext]_allVars
    PROVE  ResolvesAreInStep'
  <1> SUFFICES ASSUME NEW q \in Request, route'[q] = "resolve"
               PROVE  /\ pc'[q] # "idle" => op'[q] \in {"exists", "resolve"}
                      /\ pc'[q] = "idle" \/ op'[q] = "resolve"
                         => \E p \in uploads' : p[1] = path'[q]
    BY Zenon DEF ResolvesAreInStep
  <1> DEFINE Kept == /\ pc'[q] = "idle" <=> pc[q] = "idle"
                     /\ UNCHANGED <<op[q], route[q], path[q]>>
             Goal == /\ pc'[q] # "idle" => op'[q] \in {"exists", "resolve"}
                     /\ pc'[q] = "idle" \/ op'[q] = "resolve"
                        => \E p \in uploads' : p[1] = path'[q]
  <1>0. /\ TypeOK /\ StoreInv
        /\ path \in [Request -> CID] /\ route \in [Request -> AllOps \cup {"none"}]
    BY DEF ServerInv, StoreInv
  <1>1. uploads \subseteq uploads'
    BY AuditGrows
  <1>2. ASSUME Kept PROVE Goal
    BY Zenon, <1>1, <1>2 DEF ResolvesAreInStep
  <1>3. ASSUME NEW r \in Request, NEW o, NEW c, NEW b, Call(r, o, c, b)
        PROVE  /\ r # q => pc'[q] = pc[q] /\ op'[q] = op[q]
               /\ r = q => pc'[q] = "primary" /\ op'[q] = o
    BY Zenon, <1>0, <1>3 DEF Call, TypeOK
  <1>4. ASSUME NEW r \in Request, NEW header, NEW sent, Admit(r, header, sent) PROVE Goal
    <2>1. r # q
      BY <1>0, <1>4 DEF Admit
    <2> QED BY Zenon, <1>0, <1>2, <1>3, <1>4, <2>1 DEF Admit
  <1>5. ASSUME NEW r \in Request, Push(r) PROVE Goal
    <2>1. PICK header, sent : Admit(r, header, sent) \/ \E why : TurnAway(header, sent, why)
      BY Zenon, <1>5 DEF Push
    <2>2. ASSUME NEW why, TurnAway(header, sent, why) PROVE Goal
      BY Zenon, <1>2, <2>2 DEF TurnAway, vars, callVars
    <2> QED BY Zenon, <1>4, <2>1, <2>2
  <1>6. ASSUME NEW r \in Request, Serve(r) PROVE Goal
    <2>1. PICK o \in Routes \ {"push"}, c \in CID :
             /\ Call(r, FirstCall(o), c, NoBody)
             /\ route' = [route EXCEPT ![r] = o]
             /\ path' = [path EXCEPT ![r] = c]
      BY Zenon, <1>6 DEF Serve
    <2>2. CASE r = q
      <3>1. o = "resolve"
        BY Zenon, <1>0, <2>1, <2>2
      <3>2. pc'[q] = "primary" /\ op'[q] = "exists"
        BY Zenon, <1>3, <2>1, <2>2, <3>1 DEF FirstCall
      <3> QED BY <3>2
    <2>3. CASE r # q
      BY Zenon, <1>0, <1>2, <1>3, <2>1, <2>3
    <2> QED BY <2>2, <2>3
  <1>7. ASSUME NEW r \in Request, StoreStep(r) PROVE Goal
    BY Zenon, <1>0, <1>2, <1>7, StepFrame DEF StoreStep, Silent
  <1>8. ASSUME NEW r \in Request, Answer(r) PROVE Goal
    <2>1. CASE r = q
      <3>1. SignNext(q) /\ path' = path
        BY Zenon, <1>0, <1>8, <2>1 DEF Answer, Respond
      <3>2. pc[q] = "return" /\ pc'[q] = "idle"
        BY Zenon, <1>0, <1>8, <2>1 DEF Answer, Return, Leave, TypeOK
      <3>3. PICK p \in offered : p[1] = cid[q]
        BY Zenon, <3>1, <3>2 DEF SignNext, ExistsIsGrounded
      <3>4. p \in uploads /\ path[q] = cid[q]
        BY <3>2, <3>3 DEF ServerInv, UploadsWereChecked, HandlersAreInStep
      <3> QED BY Zenon, <1>1, <3>1, <3>2, <3>3, <3>4
    <2>2. CASE r # q
      <3>1. pc'[q] = pc[q] /\ op'[q] = op[q]
        BY Zenon, <1>0, <1>8, <2>2 DEF Answer, Return, Leave, TypeOK
      <3>2. /\ route' = route \/ route' = [route EXCEPT ![r] = "none"]
            /\ path' = path \/ path' = [path EXCEPT ![r] = AnyCID]
        BY Zenon, <1>8 DEF Answer, Respond
      <3> QED BY Zenon, <1>0, <1>2, <2>2, <3>1, <3>2
    <2> QED BY <2>1, <2>2
  <1>9. ASSUME NEW r \in Request, Sign(r) PROVE Goal
    <2>1. CASE r = q
      <3>1. pc[q] = "idle" /\ route[q] = "resolve" /\ path'[q] = path[q]
        BY Zenon, <1>9, <2>1 DEF Sign, Silent
      <3>2. op'[q] = "resolve"
        BY Zenon, <1>3, <1>9, <2>1 DEF Sign
      <3> QED BY Zenon, <1>1, <3>1, <3>2 DEF ResolvesAreInStep
    <2>2. CASE r # q
      BY Zenon, <1>2, <1>3, <1>9, <2>2 DEF Sign, Silent
    <2> QED BY <2>1, <2>2
  <1>10. CASE ServerCrash
    BY <1>10 DEF ServerCrash
  <1>11. CASE \E l \in late : ApplyLate(l) /\ Silent
    BY Zenon, <1>2, <1>11 DEF ApplyLate, Silent, callVars
  <1>12. CASE UNCHANGED <<vars, route, path>>
    BY Zenon, <1>2, <1>12 DEF vars, callVars
  <1>13. ASSUME NEW r \in Request, BadPath(r) PROVE UNCHANGED <<vars, route, path>>
    BY <1>13 DEF BadPath
  <1>14. CASE Tick \/ UNCHANGED allVars
    BY <1>12, <1>14 DEF Tick, allVars, serverVars
  <1> QED
    BY Zenon, <1>5, <1>6, <1>7, <1>8, <1>9, <1>10, <1>11, <1>12, <1>13, <1>14
    DEF ServerNext

-----------------------------------------------------------------------------
(* The types of the server *)

\* The response of a step that writes none.
LEMMA NoResponseType == NoResponse \in Response /\ AnyCID \in CID
  <1>1. AnyCID \in CID
    BY ConstantsAssumption DEF AnyCID
  <1> QED BY <1>1 DEF NoResponse, Response, Statuses, Reasons

\* Every verdict on a push is one of the audit reasons.
LEMMA VerdictType ==
    ASSUME NEW header, NEW sent, NEW read, NEW t
    PROVE  pushVerdict(header, sent, read, t) \in Reasons
  <1>1. \A err : classifyTokenError(err) \in Reasons
    BY DEF classifyTokenError, Reasons
  <1>2. \A c, size : checkUploadToken(t, c, size) \in Reasons
    BY <1>1 DEF checkUploadToken, Reasons
  <1> QED BY <1>2 DEF pushVerdict, Reasons

\* Every status a handler writes is one of those the API uses.
LEMMA StatusType ==
    ASSUME NEW o, NEW err
    PROVE  StatusOf(o, err) \in Statuses /\ StatusOfReason(err) \in Statuses
  <1>1. /\ NotFoundOr500(err) \in Statuses /\ ExistsStatus(err) \in Statuses
        /\ StatusOfReason(err) \in Statuses
    BY DEF NotFoundOr500, ExistsStatus, StatusOfReason, Statuses
  <1>2. /\ PushStatus(err) \in Statuses /\ DeleteStatus(err) \in Statuses
        /\ HealthStatus(err) \in Statuses
    BY DEF PushStatus, DeleteStatus, HealthStatus, Statuses
  <1> QED BY <1>1, <1>2 DEF StatusOf, FetchStatus, PinStatus, ResolveStatus

\* A step of the server writes a response of the right type.
LEMMA ResponseType ==
    ASSUME TypeOK, HandlerTypes, resp \in Response, [ServerNext]_allVars
    PROVE  resp' \in Response
  <1>1. ASSUME NEW r \in Request, Push(r) PROVE resp' \in Response
    <2>1. PICK header \in CID \cup {"missing", "invalid"}, sent \in Body,
               read \in BOOLEAN, t \in Tokens \cup {NoToken} :
             \/ Admit(r, header, sent)
             \/ TurnAway(header, sent, pushVerdict(header, sent, read, t))
      BY Zenon, <1>1 DEF Push
    <2>2. CASE Admit(r, header, sent)
      BY Zenon, <2>2, NoResponseType DEF Admit
    <2>3. CASE TurnAway(header, sent, pushVerdict(header, sent, read, t))
      <3>1. ReadBody(sent) \in Nat
        BY ServerAssumption DEF ReadBody, Min2
      <3>2. (IF header \in CID THEN header ELSE AnyCID) \in CID
        BY NoResponseType
      <3>3. /\ pushVerdict(header, sent, read, t) \in Reasons
            /\ StatusOfReason(pushVerdict(header, sent, read, t)) \in Statuses
        BY Zenon, VerdictType, StatusType
      <3>4. "push" \in AllOps \cup {"none"}
        BY DEF AllOps, Mutators
      <3> QED BY <2>3, <3>1, <3>2, <3>3, <3>4 DEF TurnAway, Response
    <2> QED BY <2>1, <2>2, <2>3
  <1>2. ASSUME NEW r \in Request, BadPath(r) PROVE resp' \in Response
    <2>1. PICK o \in Routes : resp' = [NoResponse EXCEPT !.route = o, !.status = 400]
      BY <1>2 DEF BadPath
    <2>2. o \in AllOps
      BY ServerAssumption
    <2>3. resp' = [route |-> o, status |-> 400, reason |-> "", cid |-> AnyCID, body |-> NoBody]
      BY ZenonT(30), <2>1 DEF NoResponse
    <2>4. 400 \in Statuses /\ "" \in Reasons /\ AnyCID \in CID
      BY NoResponseType DEF Statuses, Reasons
    <2> QED BY ZenonT(30), <2>2, <2>3, <2>4 DEF Response
  <1>3. ASSUME NEW r \in Request, Answer(r) PROVE resp' \in Response
    <2>1. CASE resp' = NoResponse
      BY Zenon, <2>1, NoResponseType
    <2>2. CASE Respond(r, StatusOf(route[r], ret[r]), ReasonOf(route[r], ret[r]),
                       path[r], IF route[r] = "push" THEN body[r] ELSE data[r])
      <3>1. (IF route[r] = "push" THEN body[r] ELSE data[r]) \in Nat \cup {NoBody}
        BY ServerAssumption DEF TypeOK
      <3>2. StatusOf(route[r], ret[r]) \in Statuses
        BY Zenon, StatusType
      <3>3. ReasonOf(route[r], ret[r]) \in Reasons
        BY DEF ReasonOf, Reasons
      <3>4. route[r] \in AllOps \cup {"none"} /\ path[r] \in CID
        BY DEF HandlerTypes
      <3> QED BY <2>2, <3>1, <3>2, <3>3, <3>4 DEF Respond, Response
    <2> QED BY Zenon, <1>3, <2>1, <2>2 DEF Answer
  <1>4. ASSUME NEW r \in Request, Serve(r) \/ StoreStep(r) \/ Sign(r)
        PROVE  resp' \in Response
    BY Zenon, <1>4, NoResponseType DEF Serve, StoreStep, Sign, Silent
  <1>5. CASE (\E l \in late : ApplyLate(l) /\ Silent) \/ ServerCrash \/ Tick
    BY Zenon, <1>5, NoResponseType DEF Silent, ServerCrash, Tick
  <1>6. CASE UNCHANGED allVars
    BY <1>6 DEF allVars, serverVars
  <1> QED BY Zenon, <1>1, <1>2, <1>3, <1>4, <1>5, <1>6 DEF ServerNext

\* The clock and the histories.
AuditTypes ==
    /\ now \in 0..MaxTime
    /\ uploads \subseteq CID \X Nat
    /\ licensed \subseteq {<<t.cid, t.size>> : t \in Tokens}
    /\ deleted \subseteq CID
    /\ after \subseteq Request

\* They keep their types.
LEMMA AuditTypesStep ==
    ASSUME HandlerTypes, AuditTypes, [ServerNext]_allVars
    PROVE  AuditTypes'
  <1>1. ASSUME NEW r \in Request, NEW o, NEW c, NoteArrival(r, o, c)
        PROVE  deleted' \subseteq CID /\ after' \subseteq Request
    BY Zenon, <1>1 DEF NoteArrival, AuditTypes
  <1>2. ASSUME UNCHANGED <<now, uploads, licensed>>,
               deleted' \subseteq CID, after' \subseteq Request
        PROVE  AuditTypes'
    BY Zenon, <1>2 DEF AuditTypes
  <1>3. ASSUME NEW r \in Request, Push(r) PROVE AuditTypes'
    <2>1. PICK header \in CID \cup {"missing", "invalid"}, sent \in Body,
               read \in BOOLEAN, t \in Tokens \cup {NoToken} :
             LET why == pushVerdict(header, sent, read, t) IN
             /\ NoteUpload(header, sent, t, why)
             /\ Admit(r, header, sent) \/ TurnAway(header, sent, why)
      BY ZenonT(30), <1>3 DEF Push
    <2>2. pushVerdict(header, sent, read, t) = "" => <<header, sent>> \in CID \X Nat
      BY PushChecked, ServerAssumption
    <2>3. uploads' \subseteq CID \X Nat
      BY Zenon, <2>1, <2>2 DEF NoteUpload, AuditTypes
    <2>4. licensed' \subseteq {<<u.cid, u.size>> : u \in Tokens}
      BY <2>1 DEF NoteUpload, AuditTypes
    <2>5. deleted' \subseteq CID /\ after' \subseteq Request
      BY Zenon, <1>1, <2>1 DEF Admit, TurnAway, AuditTypes
    <2>6. now' \in 0..MaxTime
      BY Zenon, <1>3 DEF Push, AuditTypes
    <2> QED BY Zenon, <2>3, <2>4, <2>5, <2>6 DEF AuditTypes
  <1>4. ASSUME NEW r \in Request, Serve(r) PROVE AuditTypes'
    BY Zenon, <1>1, <1>2, <1>4 DEF Serve
  <1>5. ASSUME NEW r \in Request, Answer(r) PROVE AuditTypes'
    <2>1. path[r] \in CID
      BY DEF HandlerTypes
    <2>2. deleted' \subseteq CID /\ after' \subseteq Request
      BY Zenon, <1>5, <2>1 DEF Answer, AuditTypes
    <2> QED BY Zenon, <1>2, <1>5, <2>2 DEF Answer
  <1>6. ASSUME NEW r \in Request, BadPath(r) \/ StoreStep(r) \/ Sign(r) PROVE AuditTypes'
    BY Zenon, <1>6 DEF BadPath, StoreStep, Sign, Silent, auditVars, AuditTypes
  <1>7. CASE \E l \in late : ApplyLate(l) /\ Silent
    BY Zenon, <1>7 DEF Silent, auditVars, AuditTypes
  <1>8. CASE ServerCrash
    BY Zenon, <1>2, <1>8 DEF ServerCrash, AuditTypes
  <1>9. CASE Tick
    <2>1. now \in 0..MaxTime /\ now < MaxTime /\ now' = now + 1 /\ MaxTime \in Nat
      BY Zenon, <1>9, ServerAssumption DEF Tick, AuditTypes
    <2>2. now' \in 0..MaxTime
      BY <2>1
    <2> QED BY Zenon, <1>9, <2>2 DEF Tick, auditVars, AuditTypes
  <1>10. CASE UNCHANGED allVars
    BY Zenon, <1>10 DEF allVars, serverVars, auditVars, AuditTypes
  <1> QED BY Zenon, <1>3, <1>4, <1>5, <1>6, <1>7, <1>8, <1>9, <1>10 DEF ServerNext

\* The handlers and the histories of the server keep their types.
LEMMA ServerTypeCorrect == ServerSpec => []ServerTypeOK
  <1>1. ServerInit => resp \in Response /\ AuditTypes
    <2>1. 0 \in 0..MaxTime
      BY ServerAssumption
    <2> QED BY Zenon, <2>1, NoResponseType DEF ServerInit, AuditTypes
  <1>2. ServerInv => TypeOK /\ HandlerTypes
    BY DEF ServerInv, StoreInv, HandlerTypes
  <1>3. /\ ServerInv /\ resp \in Response /\ [ServerNext]_allVars => (resp \in Response)'
        /\ ServerInv /\ AuditTypes /\ [ServerNext]_allVars => AuditTypes'
    BY <1>2, ResponseType, AuditTypesStep
  <1>4. ServerInv /\ resp \in Response /\ AuditTypes => ServerTypeOK
    BY <1>2 DEF HandlerTypes, AuditTypes, ServerTypeOK
  <1> QED BY <1>1, <1>3, <1>4, ServerInvariant, PTL DEF ServerSpec

-----------------------------------------------------------------------------
(* How long a credential lasts *)

\* A step with lifetimes is a step of the server.
LEMMA URLStep == [URLNext]_<<allVars, urlVars>> => [ServerNext]_allVars
  BY Zenon
  DEF URLNext, URLServe, URLStoreStep, URLAnswer, URLSign, URLCrash, Elsewhere, ServerNext

\* So all that is proved of the server holds with lifetimes.
LEMMA URLImplementsServer == URLSpec => ServerSpec
  <1>1. URLInit => ServerInit
    BY DEF URLInit
  <1> QED BY <1>1, URLStep, PTL DEF URLSpec, ServerSpec

\* A remainder is smaller than its divisor, and is all of a smaller number.
LEMMA Remainder ==
    ASSUME NEW x \in Int, NEW n \in Nat \ {0}
    PROVE  x % n \in 0..(n - 1) /\ (0 <= x /\ x < n => x % n = x)
  OBVIOUS

\* A quotient undoes a multiplication, and bounds what was divided.
LEMMA Quotient ==
    ASSUME NEW a \in Int, NEW x \in Int, NEW n \in Nat \ {0}
    PROVE  /\ (a * n) \div n = a
           /\ x \div n \in Int
           /\ a <= x \div n => a * n <= x
  OBVIOUS

\* Whatever a client asks for, the handler's expiry is a Duration.
LEMMA ExpiryType ==
    ASSUME NEW secs \in Int
    PROVE  expiryOf(secs) \in (-Range)..(Range - 1)
  <1>1. secs * Second + Range \in Int /\ 2 * Range \in Nat \ {0}
    BY URLAssumption
  <1>2. (secs * Second + Range) % (2 * Range) \in 0..(2 * Range - 1)
    BY <1>1, Remainder
  <1>3. Wrap(secs * Second) \in (-Range)..(Range - 1)
    BY <1>2, URLAssumption DEF Wrap
  <1> QED BY <1>3, URLAssumption DEF expiryOf

\* Whole seconds of a Duration.
LEMMA SecondsType ==
    ASSUME NEW d \in Int
    PROVE  Seconds(d) \in Int /\ d \div Second \in Int
  <1>1. -d \in Int /\ Second \in Nat \ {0}
    BY URLAssumption
  <1>2. d \div Second \in Int /\ (-d) \div Second \in Int
    BY <1>1, Quotient
  <1> QED BY <1>2 DEF Seconds

\* A lifetime that fits a Duration is kept exactly by resolve.go's conversion
\* to a Duration and by the signers' back to seconds.
LEMMA ExpiryExact ==
    ASSUME NEW a \in 1..MaxSeconds
    PROVE  Seconds(expiryOf(a)) = a /\ expiryOf(a) \div Second = a
  <1>1. a \in Int /\ a > 0 /\ a <= (Range - 1) \div Second
    <2>1. (Range - 1) \div Second \in Int
      BY Quotient, URLAssumption
    <2> QED BY <2>1 DEF MaxSeconds
  <1>2. a * Second <= Range - 1 /\ (a * Second) \div Second = a
    BY <1>1, Quotient, URLAssumption
  <1>3. a * Second \in Int /\ 0 <= a * Second
    BY <1>1, URLAssumption
  <1>4. (a * Second + Range) % (2 * Range) = a * Second + Range
    <2>1. /\ a * Second + Range \in Int /\ 2 * Range \in Nat \ {0}
          /\ 0 <= a * Second + Range /\ a * Second + Range < 2 * Range
      BY <1>2, <1>3, URLAssumption
    <2> QED BY <2>1, Remainder
  <1>5. expiryOf(a) = a * Second
    BY <1>1, <1>3, <1>4, URLAssumption DEF expiryOf, Wrap
  <1> QED BY <1>2, <1>3, <1>5 DEF Seconds

\* The lifetimes handlers carry.
LifetimeTypes ==
    /\ expiry \in [Request -> (-Range)..(Range - 1)]
    /\ till \in [Request -> Int]
    /\ asked \in [Request -> Int]
    /\ arrived \in [Request -> 0..MaxTime]

\* They keep their types.
LEMMA LifetimeTypesStep ==
    ASSUME LifetimeTypes, now \in 0..MaxTime, [URLNext]_<<allVars, urlVars>>
    PROVE  LifetimeTypes'
  <1>1. DefaultExpiry \in (-Range)..(Range - 1) /\ 0 \in Int /\ 0 \in 0..MaxTime
    BY URLAssumption, ServerAssumption
  <1>2. ASSUME NEW rs, Reset(rs) PROVE LifetimeTypes'
    BY Zenon, <1>1, <1>2 DEF Reset, LifetimeTypes
  <1>3. CASE UNCHANGED <<expiry, till, asked, arrived>>
    BY Zenon, <1>3 DEF LifetimeTypes
  <1>4. ASSUME NEW r \in Request, URLServe(r) PROVE LifetimeTypes'
    <2>1. CASE Reset({r})
      BY <1>2, <2>1
    <2>2. ASSUME NEW secs \in Expiries,
                 expiry' = [expiry EXCEPT ![r] = expiryOf(secs)],
                 asked' = [asked EXCEPT ![r] = secs],
                 arrived' = [arrived EXCEPT ![r] = now], UNCHANGED till
          PROVE  LifetimeTypes'
      <3>1. secs \in Int
        BY URLAssumption
      <3>2. expiryOf(secs) \in (-Range)..(Range - 1)
        BY <3>1, ExpiryType
      <3> QED BY Zenon, <2>2, <3>1, <3>2 DEF LifetimeTypes
    <2> QED BY Zenon, <1>4, <2>1, <2>2 DEF URLServe
  <1>5. ASSUME NEW r \in Request, URLStoreStep(r) PROVE LifetimeTypes'
    <2>1. Signed(expiry[r]) \in Int
      <3>1. expiry[r] \in Int
        BY URLAssumption DEF LifetimeTypes
      <3>2. Seconds(expiry[r]) \in Int
        BY <3>1, SecondsType
      <3> QED BY <3>2 DEF Signed, SignURL, PresignGetObject
    <2>2. till' \in [Request -> Int]
      BY Zenon, <1>5, <2>1 DEF URLStoreStep, LifetimeTypes
    <2> QED BY Zenon, <1>5, <2>2 DEF URLStoreStep, LifetimeTypes
  <1>6. ASSUME NEW r \in Request, URLAnswer(r) \/ URLSign(r) PROVE LifetimeTypes'
    BY Zenon, <1>2, <1>3, <1>6 DEF URLAnswer, URLSign
  <1>7. CASE URLCrash \/ Elsewhere
    BY Zenon, <1>2, <1>3, <1>7 DEF URLCrash, Elsewhere
  <1>8. CASE UNCHANGED <<allVars, urlVars>>
    BY Zenon, <1>3, <1>8 DEF urlVars
  <1> QED BY Zenon, <1>4, <1>5, <1>6, <1>7, <1>8 DEF URLNext

\* A handler of /resolve keeps its lifetime, and its URL is signed while the
\* request is being served.
LEMMA LifetimesStep ==
    ASSUME StoreInv, HandlerTypes, LifetimeTypes, LifetimesAreKept,
           [URLNext]_<<allVars, urlVars>>
    PROVE  LifetimesAreKept'
  <1> SUFFICES ASSUME NEW q \in Request, route'[q] = "resolve"
               PROVE  /\ expiry'[q] = expiryOf(asked'[q])
                      /\ arrived'[q] <= now'
                      /\ pc'[q] = "return" /\ op'[q] = "resolve" =>
                            \E t \in arrived'[q]..now' : till'[q] = t + Seconds(expiry'[q])
    BY Zenon DEF LifetimesAreKept
  <1> DEFINE Goal == /\ expiry'[q] = expiryOf(asked'[q])
                     /\ arrived'[q] <= now'
                     /\ pc'[q] = "return" /\ op'[q] = "resolve" =>
                           \E t \in arrived'[q]..now' : till'[q] = t + Seconds(expiry'[q])
  <1>0. TypeOK /\ now \in Nat /\ arrived[q] \in Int
    BY ServerAssumption DEF StoreInv, HandlerTypes, LifetimeTypes
  <1>1. ASSUME route[q] = "resolve", UNCHANGED <<expiry[q], till[q], asked[q], arrived[q]>>,
               now' = now \/ now' = now + 1,
               pc'[q] = "return" /\ op'[q] = "resolve" => pc[q] = "return" /\ op[q] = "resolve"
        PROVE  Goal
    <2>1. /\ expiry[q] = expiryOf(asked[q]) /\ arrived[q] <= now
          /\ pc[q] = "return" /\ op[q] = "resolve" =>
                \E t \in arrived[q]..now : till[q] = t + Seconds(expiry[q])
      BY Zenon, <1>1 DEF LifetimesAreKept
    <2>2. arrived[q] <= now' /\ arrived[q]..now \subseteq arrived[q]..now'
      BY <1>0, <1>1, <2>1
    <2> QED BY Zenon, <1>1, <2>1, <2>2
  <1>2. ASSUME NEW r \in Request, NEW o, NEW c, NEW b, Call(r, o, c, b)
        PROVE  /\ r # q => pc'[q] = pc[q] /\ op'[q] = op[q]
               /\ r = q => pc'[q] = "primary" /\ op'[q] = o
    BY Zenon, <1>0, <1>2 DEF Call, TypeOK
  <1>3. ASSUME NEW rs, Reset(rs), q \notin rs
        PROVE  UNCHANGED <<expiry[q], till[q], asked[q], arrived[q]>>
    BY ZenonT(30), <1>3 DEF Reset
  <1>4. ASSUME NEW r \in Request, URLServe(r) PROVE Goal
    <2>1. PICK o, c : /\ Call(r, FirstCall(o), c, NoBody)
                      /\ route' = [route EXCEPT ![r] = o]
      BY Zenon, <1>4 DEF URLServe, Serve
    <2>2. now' = now
      BY Zenon, <1>4 DEF URLServe, Serve
    <2>3. CASE r = q
      <3>1. PICK secs \in Expiries :
               /\ expiry' = [expiry EXCEPT ![q] = expiryOf(secs)]
               /\ asked' = [asked EXCEPT ![q] = secs]
               /\ arrived' = [arrived EXCEPT ![q] = now]
        BY Zenon, <1>4, <2>3 DEF URLServe
      <3>2. expiry'[q] = expiryOf(secs) /\ asked'[q] = secs /\ arrived'[q] = now
        BY ZenonT(30), <3>1 DEF LifetimeTypes
      <3>3. pc'[q] # "return"
        BY Zenon, <1>2, <2>1, <2>3
      <3>4. now <= now'
        BY <1>0, <2>2
      <3> QED BY Zenon, <3>2, <3>3, <3>4
    <2>4. CASE r # q
      <3>1. route[q] = "resolve" /\ pc'[q] = pc[q] /\ op'[q] = op[q]
        BY Zenon, <1>2, <2>1, <2>4 DEF HandlerTypes
      <3>2. UNCHANGED <<expiry[q], till[q], asked[q], arrived[q]>>
        <4>1. CASE Reset({r})
          BY <1>3, <2>4, <4>1
        <4>2. ASSUME NEW secs, expiry' = [expiry EXCEPT ![r] = expiryOf(secs)],
                     asked' = [asked EXCEPT ![r] = secs],
                     arrived' = [arrived EXCEPT ![r] = now], UNCHANGED till
              PROVE  UNCHANGED <<expiry[q], till[q], asked[q], arrived[q]>>
          BY ZenonT(30), <2>4, <4>2 DEF LifetimeTypes
        <4> QED BY Zenon, <1>4, <4>1, <4>2 DEF URLServe
      <3> QED BY Zenon, <1>1, <2>2, <3>1, <3>2
    <2> QED BY <2>3, <2>4
  <1>5. ASSUME NEW r \in Request, URLStoreStep(r) PROVE Goal
    <2>1. /\ op' = op /\ (q # r => pc'[q] = pc[q])
          /\ now' = now /\ route' = route
          /\ UNCHANGED <<expiry, asked, arrived>>
      BY Zenon, <1>5, StepFrame DEF URLStoreStep, StoreStep, Silent
    <2>2. CASE r = q /\ op[r] = "resolve"
      <3>1. till'[q] = now + Seconds(expiry[q])
        BY Zenon, <1>5, <2>2 DEF URLStoreStep, Signed, SignURL, PresignGetObject, LifetimeTypes
      <3>2. expiry[q] = expiryOf(asked[q]) /\ arrived[q] <= now
        BY Zenon, <2>1 DEF LifetimesAreKept
      <3>3. now \in arrived[q]..now
        BY <1>0, <3>2
      <3> QED BY Zenon, <2>1, <3>1, <3>2, <3>3
    <2>3. CASE r # q
      <3>1. till'[q] = till[q]
        BY Zenon, <1>5, <2>3 DEF URLStoreStep, LifetimeTypes
      <3> QED BY Zenon, <1>1, <2>1, <2>3, <3>1
    <2>4. CASE op[r] # "resolve"
      <3>1. till' = till
        BY Zenon, <1>5, <2>4 DEF URLStoreStep
      <3>2. pc'[q] = "return" /\ op'[q] = "resolve" => pc[q] = "return" /\ op[q] = "resolve"
        BY Zenon, <2>1, <2>4
      <3> QED BY Zenon, <1>1, <2>1, <3>1, <3>2
    <2> QED BY <2>2, <2>3, <2>4
  <1>6. ASSUME NEW r \in Request, URLAnswer(r) PROVE Goal
    <2>1. /\ now' = now /\ Reset({x \in {r} : route'[r] = "none"})
          /\ route' = route \/ route' = [route EXCEPT ![r] = "none"]
      BY Zenon, <1>6 DEF URLAnswer, Answer, Respond
    <2>2. route[q] = "resolve"
      BY <2>1 DEF HandlerTypes
    <2>3. q \notin {x \in {r} : route'[r] = "none"}
      OBVIOUS
    <2>4. UNCHANGED <<expiry[q], till[q], asked[q], arrived[q]>>
      BY Zenon, <1>3, <2>1, <2>3
    <2>5. IF q = r THEN pc'[q] = "idle" ELSE pc'[q] = pc[q] /\ op'[q] = op[q]
      BY Zenon, <1>0, <1>6 DEF URLAnswer, Answer, Return, Leave, TypeOK
    <2> QED BY Zenon, <1>1, <2>1, <2>2, <2>4, <2>5
  <1>7. ASSUME NEW r \in Request, URLSign(r) PROVE Goal
    <2>1. /\ now' = now /\ route' = route
          /\ Call(r, "resolve", path[r], NoBody)
          /\ UNCHANGED <<expiry, till, asked, arrived>>
      BY Zenon, <1>7 DEF URLSign, Sign, Silent
    <2>2. pc'[q] = "return" => pc'[q] = pc[q] /\ op'[q] = op[q]
      BY <1>2, <2>1
    <2> QED BY Zenon, <1>1, <2>1, <2>2
  <1>8. CASE URLCrash
    BY <1>8 DEF URLCrash, ServerCrash
  <1>9. ASSUME UNCHANGED <<vars, route>>, UNCHANGED <<expiry, till, asked, arrived>>,
               now' = now \/ now' = now + 1
        PROVE  Goal
    BY Zenon, <1>1, <1>9 DEF vars, callVars
  <1>10. ASSUME NEW r \in Request, Push(r), UNCHANGED <<expiry, till, asked, arrived>>
         PROVE  Goal
    <2>1. PICK header, sent : Admit(r, header, sent) \/ \E why : TurnAway(header, sent, why)
      BY Zenon, <1>10 DEF Push
    <2>2. now' = now
      BY Zenon, <1>10 DEF Push
    <2>3. CASE Admit(r, header, sent)
      <3>1. r # q /\ route[q] = "resolve"
        BY <2>3 DEF Admit, HandlerTypes
      <3>2. pc'[q] = pc[q] /\ op'[q] = op[q]
        BY Zenon, <1>2, <2>3, <3>1 DEF Admit
      <3> QED BY Zenon, <1>1, <1>10, <2>2, <3>1, <3>2
    <2>4. ASSUME NEW why, TurnAway(header, sent, why) PROVE Goal
      BY Zenon, <1>9, <1>10, <2>2, <2>4 DEF TurnAway
    <2> QED BY Zenon, <2>1, <2>3, <2>4
  <1>11. ASSUME NEW l \in late, ApplyLate(l), Silent, UNCHANGED <<expiry, till, asked, arrived>>
         PROVE  Goal
    BY Zenon, <1>1, <1>11 DEF ApplyLate, Silent, callVars
  <1>12. ASSUME NEW r \in Request, BadPath(r), UNCHANGED <<expiry, till, asked, arrived>>
         PROVE  Goal
    BY Zenon, <1>9, <1>12 DEF BadPath
  <1>13. ASSUME Tick, UNCHANGED <<expiry, till, asked, arrived>> PROVE Goal
    BY Zenon, <1>9, <1>13 DEF Tick
  <1>14. CASE Elsewhere
    BY Zenon, <1>10, <1>11, <1>12, <1>13, <1>14 DEF Elsewhere
  <1>15. CASE UNCHANGED <<allVars, urlVars>>
    BY ZenonT(30), <1>9, <1>15 DEF allVars, serverVars, urlVars
  <1> QED BY Zenon, <1>4, <1>5, <1>6, <1>7, <1>8, <1>14, <1>15 DEF URLNext

\* ResolveHandler answers 200 only for a call of Resolve, never for the Exists
\* before it.
LEMMA ResolveAnswer ==
    ASSUME ServerInv, ExistsIsGrounded, ResolvesAreInStep, NEW r \in Request, Answer(r),
           resp'.route = "resolve", resp'.status = 200
    PROVE  /\ route[r] = "resolve" /\ op[r] = "resolve" /\ pc[r] = "return"
           /\ resp'.cid = path[r]
  <1>1. resp' # NoResponse
    BY NoResponseIsSilent
  <1>2. /\ pc[r] = "return" /\ ~SignNext(r)
        /\ Respond(r, StatusOf(route[r], ret[r]), ReasonOf(route[r], ret[r]),
                   path[r], IF route[r] = "push" THEN body[r] ELSE data[r])
    BY Zenon, <1>1 DEF Answer, Return
  <1>3. route[r] = "resolve" /\ StatusOf("resolve", ret[r]) = 200 /\ resp'.cid = path[r]
    BY Zenon, <1>2 DEF Respond
  <1>4. StatusOf("resolve", ret[r]) = ResolveStatus(ret[r])
    BY Zenon DEF StatusOf
  <1>5. ret[r] \in {"true", "nil"}
    BY <1>3, <1>4 DEF ResolveStatus, ExistsStatus, NotFoundOr500
  <1>6. op[r] \in {"exists", "resolve"}
    BY Zenon, <1>2, <1>3 DEF ResolvesAreInStep
  <1>7. op[r] # "exists"
    BY Zenon, <1>2, <1>3, <1>5 DEF ExistsIsGrounded, SignNext
  <1> QED BY <1>2, <1>3, <1>6, <1>7

\* A credential is left from before, is none, or is that of a Resolve which
\* just returned to its handler.
LEMMA CredentialCases ==
    ASSUME ServerInv, ExistsIsGrounded, ResolvesAreInStep, [URLNext]_<<allVars, urlVars>>
    PROVE  \/ UNCHANGED <<credential, now, resp, uploads>>
           \/ credential' = NoCredential
           \/ \E r \in Request :
                 /\ route[r] = "resolve" /\ op[r] = "resolve" /\ pc[r] = "return"
                 /\ credential' = retrievalCredentialToWire(r)
                 /\ resp'.cid = path[r]
                 /\ now' = now /\ uploads' = uploads
  <1>1. ASSUME NEW r \in Request, URLAnswer(r), credential' # NoCredential
        PROVE  /\ route[r] = "resolve" /\ op[r] = "resolve" /\ pc[r] = "return"
               /\ credential' = retrievalCredentialToWire(r)
               /\ resp'.cid = path[r]
               /\ now' = now /\ uploads' = uploads
    <2>1. /\ Answer(r) /\ resp'.route = "resolve" /\ resp'.status = 200
          /\ credential' = retrievalCredentialToWire(r)
      BY Zenon, <1>1 DEF URLAnswer
    <2>2. now' = now /\ uploads' = uploads
      BY Zenon, <2>1 DEF Answer
    <2> QED BY Zenon, <2>1, <2>2, ResolveAnswer
  <1>2. ASSUME NEW r \in Request, URLServe(r) \/ URLStoreStep(r) \/ URLSign(r)
        PROVE  credential' = NoCredential
    BY Zenon, <1>2 DEF URLServe, URLStoreStep, URLSign
  <1>3. CASE URLCrash \/ Elsewhere
    BY Zenon, <1>3 DEF URLCrash, Elsewhere
  <1>4. CASE UNCHANGED <<allVars, urlVars>>
    BY Zenon, <1>4 DEF allVars, serverVars, auditVars, urlVars
  <1> QED BY Zenon, <1>1, <1>2, <1>3, <1>4 DEF URLNext

\* A credential has its type.
CredentialType ==
    credential \in [method : {"none", "direct", "signed_url"}, till : Int,
                    expiry : Int, asked : Int, arrived : 0..MaxTime]

\* And keeps it.
LEMMA CredentialTypeStep ==
    ASSUME ServerInv, ExistsIsGrounded, ResolvesAreInStep, LifetimeTypes, CredentialType,
           [URLNext]_<<allVars, urlVars>>
    PROVE  CredentialType'
  <1>1. CASE UNCHANGED <<credential, now, resp, uploads>>
    BY Zenon, <1>1 DEF CredentialType
  <1>2. CASE credential' = NoCredential
    BY <1>2, ServerAssumption DEF NoCredential, CredentialType
  <1>3. ASSUME NEW r \in Request, credential' = retrievalCredentialToWire(r)
        PROVE  CredentialType'
    <2>1. expiry[r] \in Int /\ now \in Int
      BY URLAssumption DEF LifetimeTypes, ServerInv
    <2>2. expiry[r] \div Second \in Int
      BY <2>1, SecondsType
    <2>3. (IF PrimaryKind = "memory" THEN 0 ELSE now + (expiry[r] \div Second)) \in Int
      BY <2>1, <2>2
    <2>4. (IF PrimaryKind = "memory" THEN "direct" ELSE "signed_url")
          \in {"none", "direct", "signed_url"}
      OBVIOUS
    <2>5. till[r] \in Int /\ asked[r] \in Int /\ arrived[r] \in 0..MaxTime
      BY DEF LifetimeTypes
    <2> QED BY <1>3, <2>3, <2>4, <2>5 DEF retrievalCredentialToWire, CredentialType
  <1> QED BY Zenon, <1>1, <1>2, <1>3, CredentialCases

\* The store's answers to Exists are grounded under the server too.
LEMMA ServerExistsGrounded == ServerSpec => []ExistsIsGrounded
  BY ServerUsesStore, ExistsGrounded, PTL DEF StoreIsUsedProperly

\* URLInv is an invariant: resolve.go keeps the lifetime it was asked for and
\* signs only for an uploaded CID, however calls, crashes and the clock
\* interleave.
THEOREM URLInvariant == URLSpec => []URLInv
  <1>1. URLInit => ResolvesAreInStep /\ LifetimesAreKept /\ LifetimeTypes /\ CredentialType
    <2> SUFFICES ASSUME URLInit
                 PROVE  ResolvesAreInStep /\ LifetimesAreKept /\ LifetimeTypes /\ CredentialType
      OBVIOUS
    <2>1. \A r \in Request : route[r] # "resolve"
      BY DEF URLInit, ServerInit
    <2>2. LifetimeTypes /\ CredentialType
      BY URLAssumption, ServerAssumption
      DEF URLInit, LifetimeTypes, CredentialType, NoCredential
    <2> QED BY <2>1, <2>2 DEF ResolvesAreInStep, LifetimesAreKept
  <1>2. ServerInv => StoreInv /\ HandlerTypes
    BY DEF ServerInv, HandlerTypes
  <1>3. ServerTypeOK => now \in 0..MaxTime
    BY DEF ServerTypeOK
  <1>4. ServerInv /\ ExistsIsGrounded /\ ResolvesAreInStep /\ [URLNext]_<<allVars, urlVars>>
        => ResolvesAreInStep'
    BY URLStep, ResolveStep
  <1>5. ServerTypeOK /\ LifetimeTypes /\ [URLNext]_<<allVars, urlVars>> => LifetimeTypes'
    BY <1>3, LifetimeTypesStep
  <1>6. ServerInv /\ LifetimeTypes /\ LifetimesAreKept /\ [URLNext]_<<allVars, urlVars>>
        => LifetimesAreKept'
    BY <1>2, LifetimesStep
  <1>7. ServerInv /\ ExistsIsGrounded /\ ResolvesAreInStep /\ LifetimeTypes /\ CredentialType
        /\ [URLNext]_<<allVars, urlVars>> => CredentialType'
    BY CredentialTypeStep
  <1>8. ServerTypeOK /\ ResolvesAreInStep /\ LifetimesAreKept /\ LifetimeTypes /\ CredentialType
        => URLInv
    BY Zenon DEF LifetimeTypes, CredentialType, URLTypeOK, URLInv
  <1> QED
    BY <1>1, <1>4, <1>5, <1>6, <1>7, <1>8, URLImplementsServer, ServerInvariant,
       ServerTypeCorrect, ServerExistsGrounded, PTL
    DEF URLSpec

\* Every response, history and credential of the server has its type.
THEOREM URLTypeCorrect == URLSpec => []URLTypeOK
  <1>1. URLInv => URLTypeOK
    BY DEF URLInv
  <1> QED BY <1>1, URLInvariant, PTL

\* A client of /resolve that asks for a lifetime a Duration can hold gets it,
\* from its arrival on, and is told of at most the time its request took more.
THEOREM CredentialsLast == URLSpec => []CredentialLasts
  <1>1. URLInit => CredentialLasts
    BY DEF URLInit, NoCredential, CredentialLasts
  <1>2. ServerInv /\ ExistsIsGrounded /\ URLInv /\ CredentialLasts
        /\ [URLNext]_<<allVars, urlVars>> => CredentialLasts'
    <2> SUFFICES ASSUME ServerInv, ExistsIsGrounded, URLInv, CredentialLasts,
                        [URLNext]_<<allVars, urlVars>>,
                        credential'.method = "signed_url",
                        credential'.asked \in 1..MaxSeconds
                 PROVE  /\ credential'.till >= credential'.arrived + credential'.asked
                        /\ credential'.expiry >= credential'.till
                        /\ credential'.expiry - credential'.till <= now' - credential'.arrived
      BY DEF CredentialLasts
    <2>1. CASE UNCHANGED <<credential, now, resp, uploads>>
      BY <2>1 DEF CredentialLasts
    <2>2. CASE credential' = NoCredential
      BY SMTT(20), <2>2 DEF NoCredential
    <2>3. ASSUME NEW r \in Request, route[r] = "resolve", op[r] = "resolve",
                 pc[r] = "return", credential' = retrievalCredentialToWire(r), now' = now
          PROVE  /\ credential'.till >= credential'.arrived + credential'.asked
                 /\ credential'.expiry >= credential'.till
                 /\ credential'.expiry - credential'.till <= now' - credential'.arrived
      <3>1. /\ PrimaryKind # "memory"
            /\ credential'.till = till[r] /\ credential'.asked = asked[r]
            /\ credential'.arrived = arrived[r]
            /\ credential'.expiry = now + (expiry[r] \div Second)
        BY <2>3 DEF retrievalCredentialToWire
      <3>2. expiry[r] = expiryOf(asked[r])
        BY Zenon, <2>3 DEF URLInv, LifetimesAreKept
      <3>3. PICK t \in arrived[r]..now : till[r] = t + Seconds(expiry[r])
        BY ZenonT(30), <2>3 DEF URLInv, LifetimesAreKept
      <3>4. Seconds(expiry[r]) = asked[r] /\ expiry[r] \div Second = asked[r]
        BY <3>1, <3>2, ExpiryExact
      <3>5. asked[r] \in Int /\ arrived[r] \in Int /\ now \in Int
        BY DEF URLInv, URLTypeOK, ServerInv
      <3>6. till[r] = t + asked[r]
        BY Zenon, <3>3, <3>4
      <3>7. /\ till[r] >= arrived[r] + asked[r]
            /\ now + asked[r] >= till[r]
            /\ (now + asked[r]) - till[r] <= now - arrived[r]
        BY <3>5, <3>6
      <3> QED BY Zenon, <2>3, <3>1, <3>4, <3>7
    <2>4. URLInv => ResolvesAreInStep
      BY SMTT(20) DEF URLInv
    <2> QED BY Zenon, <2>1, <2>2, <2>3, <2>4, CredentialCases
  <1> QED
    BY <1>1, <1>2, URLInvariant, URLImplementsServer, ServerInvariant,
       ServerExistsGrounded, PTL
    DEF URLSpec

\* /resolve gives a credential only for a CID that some client uploaded.
THEOREM ResolvedMeansUploaded == URLSpec => []ResolvedWasUploaded
  <1>1. URLInit => ResolvedWasUploaded
    BY DEF URLInit, NoCredential, ResolvedWasUploaded
  <1>2. ServerInv /\ ExistsIsGrounded /\ URLInv /\ ResolvedWasUploaded
        /\ [URLNext]_<<allVars, urlVars>> => ResolvedWasUploaded'
    <2> SUFFICES ASSUME ServerInv, ExistsIsGrounded, URLInv, ResolvedWasUploaded,
                        [URLNext]_<<allVars, urlVars>>, credential'.method # "none"
                 PROVE  \E p \in uploads' : p[1] = resp'.cid
      BY Zenon DEF ResolvedWasUploaded
    <2>1. CASE UNCHANGED <<credential, now, resp, uploads>>
      BY Zenon, <2>1 DEF ResolvedWasUploaded
    <2>2. CASE credential' = NoCredential
      BY <2>2 DEF NoCredential
    <2>3. ResolvesAreInStep
      BY DEF URLInv
    <2>4. ASSUME NEW r \in Request, route[r] = "resolve", op[r] = "resolve",
                 resp'.cid = path[r], uploads' = uploads
          PROVE  \E p \in uploads' : p[1] = resp'.cid
      BY Zenon, <2>3, <2>4 DEF ResolvesAreInStep
    <2> QED BY Zenon, <2>1, <2>2, <2>3, <2>4, CredentialCases
  <1> QED
    BY <1>1, <1>2, URLInvariant, URLImplementsServer, ServerInvariant,
       ServerExistsGrounded, PTL
    DEF URLSpec
=============================================================================
