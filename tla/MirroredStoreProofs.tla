------------------------ MODULE MirroredStoreProofs ------------------------
(***************************************************************************)
(* Proofs, for every set of requests, CIDs and bodies and every pair of    *)
(* backends, of the safety properties of MirroredStore.                    *)
(*                                                                         *)
(* The twelve steps of the seven methods all have the same shape, stated   *)
(* once as Proceeds: one call to one side, whose reply sends the request   *)
(* to the mirror or back to its caller.  The invariance proofs have one    *)
(* case for that shape (LEMMA StepShape) and one for each other action.    *)
(***************************************************************************)
EXTENDS MirroredStore, TLAPS

\* What a method does after side s replied: go on to the mirror (a Push only
\* if the primary took it), or return a result and perhaps the bytes read; nil
\* from a Push or a Fetch means that the side did what it was asked.
Proceeds(r, s, reply) ==
    \/ /\ s = "primary"
       /\ Mirrored
       /\ op[r] = "push" => reply = "ok"
       /\ \E err \in Results : ToMirror(r, err)
    \/ \E err \in Results, bytes \in {NoBody, objects[s][cid[r]]} :
          /\ op[r] = "push" /\ s = "primary" /\ err = "nil" => reply = "ok"
          /\ op[r] = "fetch" /\ err = "nil"
             => reply = "ok" /\ bytes = objects[s][cid[r]]
          /\ Finish(r, err, bytes)

\* Every method of every backend maps every reply to one of the results.
LEMMA ResultType ==
    ASSUME NEW k, NEW o, NEW reply \in Replies
    PROVE  ResultOf(k, o, reply) \in Results
  <1>1. GCSResult(o, reply) \in Results
    BY DEF GCSResult, Replies, NoReply, Results, GCSPush, GCSFetch, GCSExists,
           GCSPin, GCSDelete, GCSHealthy
  <1>2. RustFSResult(o, reply) \in Results
    BY DEF RustFSResult, Replies, NoReply, Results, RustFSPush, RustFSFetch,
           RustFSExists, RustFSPin, RustFSDelete, RustFSHealthy
  <1>3. MemoryResult(o, reply) \in Results
    BY DEF MemoryResult, Results
  <1> QED
    BY <1>1, <1>2, <1>3 DEF ResultOf

\* Push returns nil only if its backend said the write was done.
LEMMA PushNeedsOk ==
    ASSUME PrimaryKind \in {"gcs", "rustfs"}, NEW reply \in Replies,
           ResultOf(PrimaryKind, "push", reply) = "nil"
    PROVE  reply = "ok"
  BY DEF ResultOf, GCSResult, RustFSResult, GCSPush, RustFSPush, Replies, NoReply

\* The same for the in-memory backend, which has no way to fail.
LEMMA MemoryPushNeedsOk ==
    ASSUME NEW r, NEW s, NEW reply, KindOf(s) = "memory",
           Asks(r, s, "push", reply)
    PROVE  reply = "ok"
  BY DEF Asks, RepliesOf, AnswerOf

\* Fetch returns nil only if its backend sent the object.
LEMMA FetchNeedsOk ==
    ASSUME NEW r, NEW s \in Side, NEW reply \in Replies, pc[r] = s => Mirrored \/ s = "primary",
           Asks(r, s, "fetch", reply), ResultOf(KindOf(s), "fetch", reply) = "nil"
    PROVE  reply = "ok"
  <1>1. KindOf(s) \in Kinds
    BY ConstantsAssumption DEF KindOf, Kinds, Mirrored, Side, Asks
  <1>2. KindOf(s) = "memory" => reply \in {"ok", "missing"}
    BY DEF Asks, RepliesOf, AnswerOf
  <1> QED
    BY <1>1, <1>2 DEF Kinds, ResultOf, GCSResult, RustFSResult, MemoryResult,
                      GCSFetch, RustFSFetch, Replies, NoReply

\* A step of a method is a backend call that sends its request to the
\* mirror or ends the method, or the local signing of Resolve.
LEMMA StepShape ==
    ASSUME TypeOK, MirrorWasAcked, NEW r \in Request, Step(r)
    PROVE  \/ Resolve(r)
           \/ \E s \in Side, o \in AllOps, reply \in Replies :
                 Asks(r, s, o, reply) /\ Proceeds(r, s, reply)
  <1> USE DEF Side, AllOps, Mutators
  <1>0. \A s \in Side : "nil" \in Results /\ KindOf("primary") = PrimaryKind
    BY DEF Results, KindOf
  <1>1. CASE PushPrimary(r)
    <2>1. PICK reply \in Replies :
            LET err == ResultOf(PrimaryKind, "push", reply) IN
            /\ Asks(r, "primary", "push", reply)
            /\ IF err = "nil" /\ Mirrored THEN ToMirror(r, err)
                                          ELSE Finish(r, err, NoBody)
      BY <1>1 DEF PushPrimary
    <2>2. ResultOf(PrimaryKind, "push", reply) = "nil" => reply = "ok"
      BY <2>1, <1>0, PushNeedsOk, MemoryPushNeedsOk, ConstantsAssumption DEF Kinds
    <2>3. op[r] = "push"
      BY <2>1 DEF Asks
    <2>4. Proceeds(r, "primary", reply)
      BY <2>1, <2>2, <2>3, ResultType DEF Proceeds
    <2> QED BY <2>1, <2>4
  <1>2. CASE PushMirror(r)
    <2>1. PICK reply \in Replies :
            Asks(r, "mirror", "push", reply) /\ Finish(r, "nil", NoBody)
      BY <1>2 DEF PushMirror
    <2>2. op[r] = "push"
      BY <2>1 DEF Asks
    <2>3. Proceeds(r, "mirror", reply)
      BY <2>1, <2>2, <1>0 DEF Proceeds
    <2> QED BY <2>1, <2>3
  <1>3. CASE FetchPrimary(r)
    <2>1. PICK reply \in Replies :
            LET err == ResultOf(PrimaryKind, "fetch", reply) IN
            /\ Asks(r, "primary", "fetch", reply)
            /\ IF err # "nil" /\ Mirrored
               THEN ToMirror(r, err)
               ELSE Finish(r, err, Fetched(r, "primary", err))
      BY <1>3 DEF FetchPrimary
    <2>2. op[r] = "fetch"
      BY <2>1 DEF Asks
    <2>3. ResultOf(PrimaryKind, "fetch", reply) = "nil" => reply = "ok"
      BY Zenon, <2>1, <1>0, FetchNeedsOk
    <2>4. Proceeds(r, "primary", reply)
      BY <2>1, <2>2, <2>3, ResultType DEF Proceeds, Fetched
    <2> QED BY <2>1, <2>4
  <1>4. CASE FetchMirror(r)
    <2>1. PICK reply \in Replies :
            LET err == ResultOf(MirrorKind, "fetch", reply) IN
            /\ Asks(r, "mirror", "fetch", reply)
            /\ Finish(r, err, Fetched(r, "mirror", err))
      BY <1>4 DEF FetchMirror
    <2>2. op[r] = "fetch" /\ Mirrored /\ KindOf("mirror") = MirrorKind
      BY Zenon, <2>1 DEF Asks, MirrorWasAcked, KindOf
    <2>3. ResultOf(MirrorKind, "fetch", reply) = "nil" => reply = "ok"
      BY <2>1, <2>2, FetchNeedsOk
    <2>4. Proceeds(r, "mirror", reply)
      BY <2>1, <2>2, <2>3, ResultType DEF Proceeds, Fetched
    <2> QED BY <2>1, <2>4
  <1>5. CASE ExistsPrimary(r)
    <2>1. PICK reply \in Replies :
            LET answer == ResultOf(PrimaryKind, "exists", reply) IN
            /\ Asks(r, "primary", "exists", reply)
            /\ IF answer # "true" /\ Mirrored THEN ToMirror(r, answer)
                                              ELSE Finish(r, answer, NoBody)
      BY <1>5 DEF ExistsPrimary
    <2>2. op[r] = "exists"
      BY <2>1 DEF Asks
    <2>3. Proceeds(r, "primary", reply)
      BY <2>1, <2>2, ResultType DEF Proceeds
    <2> QED BY <2>1, <2>3
  <1>6. CASE ExistsMirror(r)
    BY Zenon, <1>6, ResultType DEF ExistsMirror, Proceeds, Asks
  <1>7. ASSUME NEW o \in {"pin", "delete"}, BothPrimary(r, o)
        PROVE  \E reply \in Replies :
                  Asks(r, "primary", o, reply) /\ Proceeds(r, "primary", reply)
    <2>1. PICK reply \in Replies :
            LET err == ResultOf(PrimaryKind, o, reply) IN
            /\ Asks(r, "primary", o, reply)
            /\ IF Mirrored THEN ToMirror(r, err) ELSE Finish(r, err, NoBody)
      BY <1>7 DEF BothPrimary
    <2>2. op[r] = o
      BY <2>1 DEF Asks
    <2>3. Proceeds(r, "primary", reply)
      BY <2>1, <2>2, ResultType DEF Proceeds
    <2> QED BY <2>1, <2>3
  <1>8. ASSUME NEW o \in {"pin", "delete"}, BothMirror(r, o)
        PROVE  \E reply \in Replies :
                  Asks(r, "mirror", o, reply) /\ Proceeds(r, "mirror", reply)
    BY <1>8 DEF BothMirror, Proceeds, TypeOK, Asks
  <1>9. CASE HealthyPrimary(r)
    <2>1. PICK reply \in Replies :
            LET err == ResultOf(PrimaryKind, "healthy", reply) IN
            /\ Asks(r, "primary", "healthy", reply)
            /\ IF err = "nil" /\ Mirrored THEN ToMirror(r, err)
                                          ELSE Finish(r, err, NoBody)
      BY <1>9 DEF HealthyPrimary
    <2>2. op[r] = "healthy"
      BY Zenon, <2>1 DEF Asks
    <2>3. Proceeds(r, "primary", reply)
      BY Zenon, <2>1, <2>2, ResultType DEF Proceeds
    <2> QED BY <2>1, <2>3
  <1>10. CASE HealthyMirror(r)
    BY Zenon, <1>10, ResultType DEF HealthyMirror, Proceeds, Asks
  <1>11. CASE PinPrimary(r) \/ PinMirror(r) \/ DeletePrimary(r) \/ DeleteMirror(r)
    BY <1>11, <1>7, <1>8 DEF PinPrimary, PinMirror, DeletePrimary, DeleteMirror
  <1> QED
    BY Zenon, <1>1, <1>2, <1>3, <1>4, <1>5, <1>6, <1>9, <1>10, <1>11 DEF Step

-----------------------------------------------------------------------------
(* What one action does *)

\* A client's call carries bytes exactly when it is a Push.
EntersWith(r, o, c, b) ==
    /\ b \in Body \cup {NoBody}
    /\ o = "push" => b \in Body
    /\ Call(r, o, c, b)

\* Every step of the store is one of these; the proofs below go by them.
LEMMA NextCases ==
    ASSUME TypeOK, MirrorWasAcked, [Next]_vars
    PROVE  \/ \E r \in Request, o \in AllOps, c \in CID, b \in Body \cup {NoBody} :
                 EntersWith(r, o, c, b)
           \/ \E r \in Request, s \in Side, o \in AllOps, reply \in Replies :
                 Asks(r, s, o, reply) /\ Proceeds(r, s, reply)
           \/ \E r \in Request : Resolve(r) \/ Return(r)
           \/ \E l \in late : ApplyLate(l)
           \/ Crash
           \/ UNCHANGED vars
  <1>1. ASSUME NEW r \in Request, Enter(r)
        PROVE  \E o \in AllOps, c \in CID, b \in Body \cup {NoBody} :
                  EntersWith(r, o, c, b)
    BY <1>1, ConstantsAssumption DEF Enter, EntersWith
  <1> QED BY <1>1, StepShape DEF Next

\* A store carries out a write, a deletion, or leaves its objects alone.
LEMMA EffectCases ==
    ASSUME NEW s, NEW o, NEW c, NEW b, Effect(s, o, c, b)
    PROVE  /\ o = "push" => /\ objects' = [objects EXCEPT ![s][c] = b]
                            /\ pinned' \in {pinned, [pinned EXCEPT ![s] = @ \ {c}]}
           /\ o = "delete" => /\ objects' = [objects EXCEPT ![s][c] = NoBody]
                              /\ pinned' = [pinned EXCEPT ![s] = @ \ {c}]
           /\ o \notin {"push", "delete"} => objects' = objects
           /\ o = "pin" => pinned' = [pinned EXCEPT ![s] = @ \cup {c}]
           /\ o \notin Mutators => pinned' = pinned
  BY DEF Effect, Mutators

\* Carrying out a well-typed operation keeps the contents well-typed.
LEMMA EffectType ==
    ASSUME TypeOK, NEW s \in Side, NEW o \in AllOps, NEW c \in CID,
           NEW b \in Body \cup {NoBody}, Effect(s, o, c, b)
    PROVE  /\ objects' \in [Side -> [CID -> Body \cup {NoBody}]]
           /\ pinned' \in [Side -> SUBSET CID]
  <1>1. CASE o = "push"
    <2>1. /\ objects' = [objects EXCEPT ![s][c] = b]
          /\ pinned' = pinned \/ pinned' = [pinned EXCEPT ![s] = @ \ {c}]
      BY <1>1, EffectCases
    <2>2. objects \in [Side -> [CID -> Body \cup {NoBody}]] /\ pinned \in [Side -> SUBSET CID]
      BY DEF TypeOK
    <2>3. objects' \in [Side -> [CID -> Body \cup {NoBody}]]
      BY <2>1, <2>2
    <2>4. pinned[s] \ {c} \in SUBSET CID
      BY <2>2
    <2>5. pinned' \in [Side -> SUBSET CID]
      BY <2>1, <2>2, <2>4
    <2> QED BY <2>3, <2>5
  <1>2. CASE o = "delete"
    <2>1. /\ objects' = [objects EXCEPT ![s][c] = NoBody]
          /\ pinned' = [pinned EXCEPT ![s] = @ \ {c}]
      BY <1>2, EffectCases
    <2> QED BY <2>1 DEF TypeOK
  <1>3. CASE o = "pin"
    <2>1. objects' = objects /\ pinned' = [pinned EXCEPT ![s] = @ \cup {c}]
      BY <1>3, EffectCases
    <2> QED BY <2>1 DEF TypeOK
  <1>4. CASE o \notin Mutators
    BY Zenon, <1>4, EffectCases DEF TypeOK, Mutators
  <1> QED BY <1>1, <1>2, <1>3, <1>4 DEF Mutators

\* A Push in progress has bytes, and they were offered.
LEMMA PushHasBody ==
    ASSUME TypeOK, BytesWereOffered, NEW r \in Request, op[r] = "push"
    PROVE  body[r] \in Body
  BY Zenon DEF TypeOK, BytesWereOffered

\* A Push that timed out carries bytes, and they were offered.
LEMMA LatePushHasBody ==
    ASSUME TypeOK, BytesWereOffered, NEW l \in late, l.op = "push"
    PROVE  l.body \in Body
  BY Zenon DEF TypeOK, BytesWereOffered

\* Every step keeps the types.
LEMMA TypeStep ==
    ASSUME TypeOK, BytesWereOffered, MirrorWasAcked, [Next]_vars
    PROVE  TypeOK'
  <1>1. ASSUME NEW r \in Request, NEW o \in AllOps, NEW c \in CID,
               NEW b \in Body \cup {NoBody}, EntersWith(r, o, c, b)
        PROVE  TypeOK'
    <2>1. UNCHANGED <<storeVars, ret, data>>
      BY <1>1 DEF EntersWith, Call
    <2>2. /\ pc' \in [Request -> {"idle", "primary", "mirror", "return"}]
          /\ op' \in [Request -> AllOps]
          /\ cid' \in [Request -> CID]
          /\ body' \in [Request -> Body \cup {NoBody}]
      BY Zenon, <1>1 DEF EntersWith, Call, TypeOK
    <2>3. /\ settled' \in [Side -> SUBSET CID]
          /\ erased' \in [Side -> SUBSET CID]
          /\ steady' \in [Side -> SUBSET Request]
          /\ gone' \in [Side -> SUBSET Request]
          /\ offered' \subseteq CID \X Body
          /\ acked' \subseteq CID \X Body
      BY <1>1 DEF EntersWith, Call, NoteCall, TypeOK
    <2> QED BY Zenon, <2>1, <2>2, <2>3 DEF TypeOK, storeVars
  <1>2. ASSUME NEW r \in Request, NEW s \in Side, NEW o \in AllOps,
               NEW reply \in Replies, Asks(r, s, o, reply), Proceeds(r, s, reply)
        PROVE  TypeOK'
    <2>1. op[r] = o /\ UNCHANGED <<op, cid, body>> /\ cid[r] \in CID
          /\ body[r] \in Body \cup {NoBody} /\ (o = "push" => body[r] \in Body)
      BY Zenon, <1>2, PushHasBody DEF Asks, TypeOK
    <2>2. /\ objects' \in [Side -> [CID -> Body \cup {NoBody}]]
          /\ pinned' \in [Side -> SUBSET CID]
      <3>1. CASE Effect(s, o, cid[r], body[r])
        BY Zenon, <3>1, <2>1, EffectType
      <3> QED BY Zenon, <3>1, <1>2, <2>1 DEF Asks, Exchange, storeVars, TypeOK
    <2>3. late' \subseteq LateCall
      <3>1. reply = "timeout" => o \in Mutators
        BY Zenon, <1>2 DEF Asks, RepliesOf, AnswerOf
      <3>2. reply = "timeout" => Sent(r, s) \in LateCall
        BY Zenon, <3>1, <2>1 DEF Sent, LateCall
      <3> QED BY Zenon, <3>2, <1>2 DEF Asks, Exchange, storeVars, TypeOK
    <2>4. /\ settled' \in [Side -> SUBSET CID]
          /\ erased' \in [Side -> SUBSET CID]
          /\ acked' \subseteq CID \X Body
          /\ UNCHANGED <<steady, gone, offered>>
      BY <1>2, <2>1 DEF Asks, NoteReply, TypeOK
    <2>5. /\ pc' \in [Request -> {"idle", "primary", "mirror", "return"}]
          /\ ret' \in [Request -> Results]
          /\ data' \in [Request -> Body \cup {NoBody}]
      <3>1. objects[s][cid[r]] \in Body \cup {NoBody}
        BY <2>1 DEF TypeOK
      <3>2. CASE \E err \in Results : ToMirror(r, err)
        BY <3>2 DEF ToMirror, TypeOK
      <3>3. CASE \E err \in Results, bytes \in {NoBody, objects[s][cid[r]]} :
                    Finish(r, err, bytes)
        BY <3>1, <3>3 DEF Finish, TypeOK
      <3> QED BY <1>2, <3>2, <3>3 DEF Proceeds
    <2> QED BY Zenon, <2>1, <2>2, <2>3, <2>4, <2>5 DEF TypeOK
  <1>3. ASSUME NEW r \in Request, Resolve(r) PROVE TypeOK'
    <2>1. ResolveResults \subseteq Results
      BY DEF ResolveResults, Results
    <2> QED BY <1>3, <2>1 DEF Resolve, Finish, TypeOK, storeVars, histVars
  <1>4. ASSUME NEW rs \in SUBSET Request, Leave(rs)
        PROVE  /\ pc' \in [Request -> {"idle", "primary", "mirror", "return"}]
               /\ op' \in [Request -> AllOps]
               /\ cid' \in [Request -> CID]
               /\ body' \in [Request -> Body \cup {NoBody}]
               /\ ret' \in [Request -> Results]
               /\ data' \in [Request -> Body \cup {NoBody}]
               /\ steady' \in [Side -> SUBSET Request]
               /\ gone' \in [Side -> SUBSET Request]
    <2>1. AnyCID \in CID
      BY ConstantsAssumption DEF AnyCID
    <2> QED BY <1>4, <2>1 DEF Leave, TypeOK, AllOps, Results
  <1>5. ASSUME NEW r \in Request, Return(r) PROVE TypeOK'
    BY Zenon, <1>5, <1>4 DEF Return, TypeOK, storeVars
  <1>6. ASSUME NEW l \in late, ApplyLate(l) PROVE TypeOK'
    <2>1. l \in LateCall /\ l.op \in AllOps
      BY DEF TypeOK, LateCall, AllOps
    <2>2. /\ objects' \in [Side -> [CID -> Body \cup {NoBody}]]
          /\ pinned' \in [Side -> SUBSET CID]
      <3>1. CASE Effect(l.side, l.op, l.cid, l.body)
        BY <3>1, <2>1, EffectType DEF LateCall
      <3> QED BY <3>1, <1>6 DEF ApplyLate, TypeOK
    <2> QED BY Zenon, <1>6, <2>2 DEF ApplyLate, TypeOK, callVars, histVars
  <1>7. CASE Crash
    <2>1. late' \subseteq LateCall
      <3>1. \A r \in Request : pc[r] \in Side /\ op[r] \in Mutators
                => Sent(r, pc[r]) \in LateCall
        BY DEF Sent, LateCall, TypeOK
      <3> QED BY Zenon, <3>1, <1>7 DEF Crash, TypeOK
    <2>2. /\ objects' \in [Side -> [CID -> Body \cup {NoBody}]]
          /\ pinned' \in [Side -> SUBSET CID]
          /\ settled' \in [Side -> SUBSET CID]
          /\ UNCHANGED <<erased, offered, acked>>
          /\ Leave(Request)
      BY <1>7 DEF Crash, TypeOK
    <2> QED BY Zenon, <2>1, <2>2, <1>4 DEF TypeOK
  <1>8. CASE UNCHANGED vars
    BY Zenon, <1>8 DEF TypeOK, vars, storeVars, callVars, histVars
  <1> QED BY <1>1, <1>2, <1>3, <1>5, <1>6, <1>7, <1>8, NextCases

-----------------------------------------------------------------------------
(* How calls under way and stored objects change *)

\* A backend call moves its request on; it never starts another.
LEMMA AskPending ==
    ASSUME TypeOK, NEW s \in Side, NEW o, NEW c,
           NEW r \in Request, NEW t \in Side, NEW p, NEW reply,
           Asks(r, t, p, reply), Proceeds(r, t, reply), PendingAt(s, o, c)'
    PROVE  PendingAt(s, o, c)
  <1>1. pc[r] = t /\ op[r] = p /\ UNCHANGED <<op, cid>>
    BY DEF Asks
  <1>2. \/ t = "primary" /\ pc' = [pc EXCEPT ![r] = "mirror"]
        \/ pc' = [pc EXCEPT ![r] = "return"]
    BY DEF Proceeds, ToMirror, Finish
  <1>3. late' \subseteq late \cup {Sent(r, t)}
    BY Zenon DEF Asks, Exchange, storeVars
  <1>4. CASE \E q \in Request : /\ op'[q] = o /\ cid'[q] = c
                                /\ pc'[q] \in {"primary", s}
    BY <1>1, <1>2, <1>4 DEF PendingAt, TypeOK, Side
  <1>5. CASE \E l \in late' : l.side = s /\ l.op = o /\ l.cid = c
    BY <1>1, <1>3, <1>5 DEF PendingAt, Sent
  <1> QED BY <1>4, <1>5 DEF PendingAt

\* Only a client's call puts an operation under way: whatever else happens, in
\* a crash too, a call that is pending afterwards was pending before.
LEMMA PendingStep ==
    ASSUME TypeOK, TypeOK', MirrorWasAcked, [Next]_vars,
           NEW s \in Side, NEW o \in {"push", "delete"}, NEW c \in CID,
           PendingAt(s, o, c)'
    PROVE  \/ PendingAt(s, o, c)
           \/ \E r \in Request, b \in Body \cup {NoBody} : EntersWith(r, o, c, b)
  <1>1. ASSUME NEW r \in Request, NEW p \in AllOps, NEW d \in CID,
               NEW b \in Body \cup {NoBody}, EntersWith(r, p, d, b),
               ~(p = o /\ d = c)
        PROVE  PendingAt(s, o, c)
    <2>1. /\ late' = late
          /\ op' = [op EXCEPT ![r] = p]
          /\ cid' = [cid EXCEPT ![r] = d]
          /\ pc' = [pc EXCEPT ![r] = "primary"]
      BY <1>1 DEF EntersWith, Call, storeVars
    <2> QED BY Zenon, <1>1, <2>1 DEF PendingAt, TypeOK
  <1>2. ASSUME NEW r \in Request, NEW t \in Side, NEW p \in AllOps,
               NEW reply \in Replies, Asks(r, t, p, reply), Proceeds(r, t, reply)
        PROVE  PendingAt(s, o, c)
    BY <1>2, AskPending
  <1>3. ASSUME NEW r \in Request, Resolve(r) PROVE PendingAt(s, o, c)
    BY <1>3 DEF Resolve, Finish, PendingAt, TypeOK, storeVars, Side
  <1>4. ASSUME NEW rs \in SUBSET Request, Leave(rs), NEW q \in Request,
               op'[q] = o, cid'[q] = c, pc'[q] \in {"primary", s}
        PROVE  PendingAt(s, o, c)
    BY Zenon, <1>4 DEF Leave, PendingAt, TypeOK, Side
  <1>5. ASSUME NEW r \in Request, Return(r) PROVE PendingAt(s, o, c)
    BY Zenon, <1>5, <1>4 DEF Return, PendingAt, storeVars
  <1>6. ASSUME NEW l \in late, ApplyLate(l) PROVE PendingAt(s, o, c)
    BY Zenon, <1>6 DEF ApplyLate, PendingAt, callVars
  <1>7. CASE Crash
    <2>1. CASE \E l \in late' : l.side = s /\ l.op = o /\ l.cid = c
      <3>1. PICK sent \in SUBSET {r \in Request : pc[r] \in Side} :
              late' = late \cup {Sent(r, pc[r]) : r \in sent}
        BY Zenon, <1>7 DEF Crash
      <3>2. PICK l \in late' : l.side = s /\ l.op = o /\ l.cid = c
        BY Zenon, <2>1
      <3>3. CASE l \in late
        BY Zenon, <3>2, <3>3 DEF PendingAt
      <3>4. ASSUME NEW r \in sent, l = Sent(r, pc[r])
            PROVE  PendingAt(s, o, c)
        <4>1. l.side = pc[r] /\ l.op = op[r] /\ l.cid = cid[r]
          BY <3>4 DEF Sent
        <4> QED BY Zenon, <3>2, <3>4, <4>1 DEF PendingAt
      <3> QED BY Zenon, <3>1, <3>2, <3>3, <3>4
    <2> QED BY Zenon, <1>7, <1>4, <2>1 DEF Crash, PendingAt
  <1>8. CASE UNCHANGED vars
    BY Zenon, <1>8 DEF PendingAt, vars, callVars, storeVars
  <1> QED BY <1>1, <1>2, <1>3, <1>5, <1>6, <1>7, <1>8, NextCases

\* A Push of b under c is at side s, or may reach it late.
Carries(s, c, b) ==
    \/ \E r \in Request : op[r] = "push" /\ cid[r] = c /\ body[r] = b /\ pc[r] = s
    \/ \E l \in late : l.side = s /\ l.op = "push" /\ l.cid = c /\ l.body = b

\* Bytes on their way to a side belong to a Push that is under way there.
LEMMA CarriesIsPending ==
    ASSUME NEW s, NEW c, NEW b, Carries(s, c, b)
    PROVE  PendingAt(s, "push", c)
  BY DEF Carries, PendingAt

\* The one way a running store changes: an operation under way takes effect.
Applied(s, c) ==
    \/ objects'[s][c] = objects[s][c]
    \/ objects'[s][c] \in Body /\ Carries(s, c, objects'[s][c])
    \/ objects'[s][c] = NoBody /\ PendingAt(s, "delete", c)

\* What a store carries out explains how an object changed.
LEMMA EffectApplied ==
    ASSUME TypeOK, NEW t \in Side, NEW p, NEW d \in CID,
           NEW b, Effect(t, p, d, b),
           p = "push" => b \in Body /\ Carries(t, d, b),
           p = "delete" => PendingAt(t, p, d),
           NEW s \in Side, NEW c \in CID
    PROVE  Applied(s, c)
  <1>1. CASE p = "push"
    <2>1. objects' = [objects EXCEPT ![t][d] = b]
      BY <1>1, EffectCases
    <2> QED BY Zenon, <1>1, <2>1 DEF Applied, TypeOK
  <1>2. CASE p = "delete"
    <2>1. objects' = [objects EXCEPT ![t][d] = NoBody]
      BY <1>2, EffectCases
    <2> QED BY Zenon, <1>2, <2>1 DEF Applied, TypeOK
  <1>3. CASE p \notin {"push", "delete"}
    BY <1>3, EffectCases DEF Applied
  <1> QED BY <1>1, <1>2, <1>3

\* An object changes only by a write or a deletion that was under way at its
\* side, or in the restart of an in-memory backend.
LEMMA ObjectsStep ==
    ASSUME TypeOK, BytesWereOffered, MirrorWasAcked, [Next]_vars,
           NEW s \in Side, NEW c \in CID
    PROVE  Applied(s, c) \/ Crash
  <1>1. ASSUME UNCHANGED objects PROVE Applied(s, c)
    BY <1>1 DEF Applied
  <1>2. ASSUME NEW r \in Request, NEW t \in Side, NEW p \in AllOps,
               NEW reply \in Replies, Asks(r, t, p, reply)
        PROVE  Applied(s, c)
    <2>1. pc[r] = t /\ op[r] = p /\ cid[r] \in CID
      BY Zenon, <1>2 DEF Asks, TypeOK
    <2>2. /\ p = "push" => Carries(t, cid[r], body[r])
          /\ p = "delete" => PendingAt(t, p, cid[r])
      BY <2>1 DEF PendingAt, Carries
    <2>3. CASE Effect(t, p, cid[r], body[r])
      BY Zenon, <2>1, <2>2, <2>3, PushHasBody, EffectApplied
    <2> QED BY Zenon, <1>1, <1>2, <2>1, <2>3 DEF Asks, Exchange, storeVars
  <1>3. ASSUME NEW l \in late, ApplyLate(l) PROVE Applied(s, c)
    <2>1. l.side \in Side /\ l.cid \in CID
      BY DEF TypeOK, LateCall
    <2>2. /\ l.op = "push" => Carries(l.side, l.cid, l.body)
          /\ PendingAt(l.side, l.op, l.cid)
      BY DEF PendingAt, Carries
    <2>3. CASE Effect(l.side, l.op, l.cid, l.body)
      BY <2>1, <2>2, <2>3, LatePushHasBody, EffectApplied
    <2> QED BY <1>1, <1>3, <2>3 DEF ApplyLate
  <1> QED
    BY Zenon, <1>1, <1>2, <1>3, NextCases
       DEF EntersWith, Call, Resolve, Return, vars, storeVars

-----------------------------------------------------------------------------
(* Settled and erased content *)

\* A CID is settled because it was before, or because its write was just
\* acknowledged with no Delete under way.
LEMMA SettledSource ==
    ASSUME TypeOK, MirrorWasAcked, [Next]_vars, NEW s \in Side, NEW c \in settled'[s]
    PROVE  \/ /\ c \in settled[s]
              /\ Crash => ~InMemory(s)
              /\ ~ \E r \in Request, b \in Body \cup {NoBody} :
                      EntersWith(r, "delete", c, b)
           \/ \E r \in Request :
                 /\ Asks(r, s, "push", "ok") /\ Proceeds(r, s, "ok")
                 /\ cid[r] = c /\ ~PendingAt(s, "delete", c)
  <1>1. ASSUME NEW r \in Request, NEW b, EntersWith(r, "delete", c, b) PROVE FALSE
    BY Zenon, <1>1 DEF EntersWith, Call, NoteCall
  <1>2. ASSUME Crash PROVE c \in settled[s] /\ ~InMemory(s)
    BY Zenon, <1>2 DEF Crash
  <1>3. ASSUME NEW r \in Request, NEW o \in AllOps, NEW d \in CID,
               NEW b, EntersWith(r, o, d, b)
        PROVE  c \in settled[s]
    BY Zenon, <1>3 DEF EntersWith, Call, NoteCall
  <1>4. ASSUME NEW r \in Request, NEW t \in Side, NEW o \in AllOps,
               NEW reply \in Replies, Asks(r, t, o, reply), Proceeds(r, t, reply),
               c \notin settled[s]
        PROVE  /\ Asks(r, s, "push", "ok") /\ Proceeds(r, s, "ok")
               /\ cid[r] = c /\ ~PendingAt(s, "delete", c)
    <2>1. op[r] = o /\ settled' = [settled EXCEPT ![t] = @ \cup
            {d \in {cid[r]} : (reply = "ok" /\ op[r] = "push") /\ ~PendingAt(t, "delete", d)}]
      BY Zenon, <1>4 DEF Asks, NoteReply
    <2>2. s = t /\ c \in {d \in {cid[r]} : (reply = "ok" /\ op[r] = "push")
                                           /\ ~PendingAt(t, "delete", d)}
      BY <1>4, <2>1 DEF TypeOK
    <2> QED BY Zenon, <1>4, <2>1, <2>2
  <1>5. ASSUME UNCHANGED settled PROVE c \in settled[s]
    BY <1>5
  <1> QED
    BY Zenon, <1>1, <1>2, <1>3, <1>4, <1>5, NextCases
       DEF Resolve, Return, ApplyLate, vars, histVars

\* Every step keeps settled content safe.
LEMMA SettledStep ==
    ASSUME TypeOK, TypeOK', BytesWereOffered, SettledIsSafe, MirrorWasAcked, [Next]_vars
    PROVE  SettledIsSafe'
  <1> SUFFICES ASSUME NEW s \in Side, NEW c \in settled'[s]
               PROVE  objects'[s][c] # NoBody /\ ~PendingAt(s, "delete", c)'
    BY Zenon DEF SettledIsSafe, Holds
  <1>0. c \in CID
    BY Zenon DEF TypeOK
  <1>1. ASSUME c \in settled[s], Crash => ~InMemory(s),
               ~ \E r \in Request, b \in Body \cup {NoBody} :
                    EntersWith(r, "delete", c, b)
        PROVE  objects'[s][c] # NoBody /\ ~PendingAt(s, "delete", c)'
    <2>1. objects[s][c] # NoBody /\ ~PendingAt(s, "delete", c)
      BY Zenon, <1>1 DEF SettledIsSafe, Holds
    <2>2. ~PendingAt(s, "delete", c)'
      BY Zenon, <1>0, <1>1, <2>1, PendingStep
    <2>3. CASE Crash
      BY Zenon, <1>1, <2>1, <2>2, <2>3 DEF Crash
    <2>4. CASE Applied(s, c)
      BY Zenon, <2>1, <2>2, <2>4, ConstantsAssumption DEF Applied
    <2> QED BY Zenon, <1>0, <2>3, <2>4, ObjectsStep
  <1>2. ASSUME NEW r \in Request, Asks(r, s, "push", "ok"), Proceeds(r, s, "ok"),
               cid[r] = c, ~PendingAt(s, "delete", c)
        PROVE  objects'[s][c] # NoBody /\ ~PendingAt(s, "delete", c)'
    <2>1. ~PendingAt(s, "delete", c)'
      BY Zenon, <1>2, AskPending
    <2>2. op[r] = "push" /\ Effect(s, "push", c, body[r])
      BY Zenon, <1>2 DEF Asks, Exchange
    <2>3. objects' = [objects EXCEPT ![s][c] = body[r]]
      BY <2>2, EffectCases
    <2>4. body[r] \in Body
      BY <2>2, PushHasBody
    <2> QED BY <1>0, <2>1, <2>3, <2>4, ConstantsAssumption DEF TypeOK
  <1> QED BY Zenon, <1>1, <1>2, SettledSource

\* A CID is erased because it was before, or because its deletion was just
\* acknowledged with no Push under way.
LEMMA ErasedSource ==
    ASSUME TypeOK, MirrorWasAcked, [Next]_vars, NEW s \in Side, NEW c \in erased'[s]
    PROVE  \/ /\ c \in erased[s]
              /\ ~ \E r \in Request, b \in Body \cup {NoBody} :
                      EntersWith(r, "push", c, b)
           \/ \E r \in Request :
                 /\ Asks(r, s, "delete", "ok") /\ Proceeds(r, s, "ok")
                 /\ cid[r] = c /\ ~PendingAt(s, "push", c)
  <1>1. ASSUME NEW r \in Request, NEW b, EntersWith(r, "push", c, b) PROVE FALSE
    BY Zenon, <1>1 DEF EntersWith, Call, NoteCall
  <1>2. ASSUME Crash PROVE c \in erased[s]
    BY Zenon, <1>2 DEF Crash
  <1>3. ASSUME NEW r \in Request, NEW o \in AllOps, NEW d \in CID,
               NEW b, EntersWith(r, o, d, b)
        PROVE  c \in erased[s]
    BY Zenon, <1>3 DEF EntersWith, Call, NoteCall
  <1>4. ASSUME NEW r \in Request, NEW t \in Side, NEW o \in AllOps,
               NEW reply \in Replies, Asks(r, t, o, reply), Proceeds(r, t, reply),
               c \notin erased[s]
        PROVE  /\ Asks(r, s, "delete", "ok") /\ Proceeds(r, s, "ok")
               /\ cid[r] = c /\ ~PendingAt(s, "push", c)
    <2>1. op[r] = o /\ erased' = [erased EXCEPT ![t] = @ \cup
            {d \in {cid[r]} : (reply = "ok" /\ op[r] = "delete") /\ ~PendingAt(t, "push", d)}]
      BY Zenon, <1>4 DEF Asks, NoteReply
    <2>2. s = t /\ c \in {d \in {cid[r]} : (reply = "ok" /\ op[r] = "delete")
                                           /\ ~PendingAt(t, "push", d)}
      BY <1>4, <2>1 DEF TypeOK
    <2> QED BY Zenon, <1>4, <2>1, <2>2
  <1>5. ASSUME UNCHANGED erased PROVE c \in erased[s]
    BY <1>5
  <1> QED
    BY Zenon, <1>1, <1>2, <1>3, <1>4, <1>5, NextCases
       DEF Resolve, Return, ApplyLate, vars, histVars

\* Every step keeps erased content away.
LEMMA ErasedStep ==
    ASSUME TypeOK, TypeOK', BytesWereOffered, ErasedIsSafe, MirrorWasAcked, [Next]_vars
    PROVE  ErasedIsSafe'
  <1> SUFFICES ASSUME NEW s \in Side, NEW c \in erased'[s]
               PROVE  objects'[s][c] = NoBody /\ ~PendingAt(s, "push", c)'
    BY DEF ErasedIsSafe, Holds
  <1>0. c \in CID
    BY Zenon DEF TypeOK
  <1>1. ASSUME c \in erased[s],
               ~ \E r \in Request, b \in Body \cup {NoBody} :
                    EntersWith(r, "push", c, b)
        PROVE  objects'[s][c] = NoBody /\ ~PendingAt(s, "push", c)'
    <2>1. objects[s][c] = NoBody /\ ~PendingAt(s, "push", c)
      BY <1>1 DEF ErasedIsSafe, Holds
    <2>2. ~PendingAt(s, "push", c)'
      BY <1>0, <1>1, <2>1, PendingStep
    <2>3. CASE Crash
      BY <1>0, <2>1, <2>2, <2>3 DEF Crash
    <2>4. CASE Applied(s, c)
      BY <2>1, <2>2, <2>4, CarriesIsPending DEF Applied
    <2> QED BY <1>0, <2>3, <2>4, ObjectsStep
  <1>2. ASSUME NEW r \in Request, Asks(r, s, "delete", "ok"), Proceeds(r, s, "ok"),
               cid[r] = c, ~PendingAt(s, "push", c)
        PROVE  objects'[s][c] = NoBody /\ ~PendingAt(s, "push", c)'
    <2>1. ~PendingAt(s, "push", c)'
      BY <1>2, AskPending
    <2>2. Effect(s, "delete", c, body[r])
      BY <1>2 DEF Asks, Exchange
    <2>3. objects' = [objects EXCEPT ![s][c] = NoBody]
      BY <2>2, EffectCases
    <2> QED BY <1>0, <2>1, <2>3 DEF TypeOK
  <1> QED BY <1>1, <1>2, ErasedSource

-----------------------------------------------------------------------------
(* Where bytes come from *)

\* What was offered or acknowledged stays so.
LEMMA HistoryGrows ==
    ASSUME TypeOK, MirrorWasAcked, [Next]_vars
    PROVE  offered \subseteq offered' /\ acked \subseteq acked'
  <1>1. ASSUME NEW r, NEW o, NEW c, NEW b, EntersWith(r, o, c, b)
        PROVE  offered \subseteq offered' /\ acked' = acked
    BY <1>1 DEF EntersWith, Call, NoteCall
  <1>2. ASSUME NEW r, NEW s, NEW o, NEW reply, Asks(r, s, o, reply)
        PROVE  offered' = offered /\ acked \subseteq acked'
    BY <1>2 DEF Asks, NoteReply
  <1>3. ASSUME NEW r, Resolve(r) \/ Return(r) PROVE UNCHANGED <<offered, acked>>
    BY <1>3 DEF Resolve, Return, histVars
  <1>4. ASSUME NEW l, ApplyLate(l) PROVE UNCHANGED <<offered, acked>>
    BY <1>4 DEF ApplyLate, histVars
  <1>5. ASSUME Crash \/ UNCHANGED vars PROVE UNCHANGED <<offered, acked>>
    BY <1>5 DEF Crash, vars, histVars
  <1> QED BY <1>1, <1>2, <1>3, <1>4, <1>5, NextCases

\* A late call was late before, or is the call some request was making.
LEMMA LateSource ==
    ASSUME TypeOK, MirrorWasAcked, [Next]_vars, NEW l \in late'
    PROVE  l \in late \/ \E r \in Request : pc[r] \in Side /\ l = Sent(r, pc[r])
  <1>1. ASSUME Crash
        PROVE  l \in late \/ \E r \in Request : pc[r] \in Side /\ l = Sent(r, pc[r])
    BY <1>1 DEF Crash
  <1>2. ASSUME NEW r \in Request, NEW s \in Side, NEW o, NEW reply,
               Asks(r, s, o, reply)
        PROVE  l \in late \/ \E q \in Request : pc[q] \in Side /\ l = Sent(q, pc[q])
    BY Zenon, <1>2 DEF Asks, Exchange, storeVars
  <1> QED
    BY Zenon, <1>1, <1>2, NextCases
       DEF EntersWith, Call, Resolve, Return, ApplyLate, vars, storeVars

\* What a step does to one request r: nothing; it enters; it leaves; it makes a
\* backend call; it resolves.
LEMMA RequestStep ==
    ASSUME TypeOK, MirrorWasAcked, [Next]_vars, NEW r \in Request
    PROVE  \/ UNCHANGED <<op[r], cid[r], body[r], pc[r], data[r], ret[r]>>
           \/ /\ pc[r] = "idle" /\ pc'[r] = "primary" /\ data'[r] = data[r]
              /\ op'[r] = "push" => <<cid'[r], body'[r]>> \in offered'
           \/ pc'[r] = "idle" /\ op'[r] = "healthy" /\ data'[r] = NoBody
           \/ /\ UNCHANGED <<op[r], cid[r], body[r]>>
              /\ \E s \in Side, reply \in Replies :
                    Asks(r, s, op[r], reply) /\ Proceeds(r, s, reply)
           \/ Resolve(r)
  <1>1. ASSUME NEW q \in Request, NEW o \in AllOps, NEW c \in CID,
               NEW b \in Body \cup {NoBody}, EntersWith(q, o, c, b)
        PROVE  \/ UNCHANGED <<op[r], cid[r], body[r], pc[r], data[r], ret[r]>>
               \/ /\ pc[r] = "idle" /\ pc'[r] = "primary" /\ data'[r] = data[r]
                  /\ op'[r] = "push" => <<cid'[r], body'[r]>> \in offered'
    BY Zenon, <1>1 DEF EntersWith, Call, NoteCall, TypeOK
  <1>2. ASSUME NEW rs \in SUBSET Request, Leave(rs)
        PROVE  \/ UNCHANGED <<op[r], cid[r], body[r], pc[r], data[r], ret[r]>>
               \/ pc'[r] = "idle" /\ op'[r] = "healthy" /\ data'[r] = NoBody
    BY Zenon, <1>2 DEF Leave
  <1>3. ASSUME NEW q \in Request, NEW s \in Side, NEW o \in AllOps,
               NEW reply \in Replies, Asks(q, s, o, reply), Proceeds(q, s, reply)
        PROVE  \/ UNCHANGED <<op[r], cid[r], body[r], pc[r], data[r], ret[r]>>
               \/ /\ UNCHANGED <<op[r], cid[r], body[r]>>
                  /\ Asks(r, s, op[r], reply) /\ Proceeds(r, s, reply)
    <2>1. UNCHANGED <<op, cid, body>> /\ op[q] = o
      BY Zenon, <1>3 DEF Asks
    <2>2. CASE q = r
      BY <1>3, <2>1, <2>2
    <2>3. CASE q # r
      BY <1>3, <2>1, <2>3 DEF Proceeds, ToMirror, Finish, TypeOK
    <2> QED BY Zenon, <2>2, <2>3
  <1>4. ASSUME NEW q \in Request, Resolve(q)
        PROVE  Resolve(r) \/ UNCHANGED <<op[r], cid[r], body[r], pc[r], data[r], ret[r]>>
    <2>1. CASE q # r
      <3>1. PICK e \in ResolveResults : Finish(q, e, NoBody)
        BY Zenon, <1>4 DEF Resolve
      <3>2. UNCHANGED <<pc[r], data[r], ret[r]>>
        BY Zenon, <2>1, <3>1 DEF Finish, TypeOK
      <3> QED BY Zenon, <1>4, <3>2 DEF Resolve
    <2> QED BY Zenon, <1>4, <2>1
  <1>5. ASSUME UNCHANGED callVars
        PROVE  UNCHANGED <<op[r], cid[r], body[r], pc[r], data[r], ret[r]>>
    BY Zenon, <1>5 DEF callVars
  <1> QED
    BY Zenon, <1>1, <1>2, <1>3, <1>4, <1>5, NextCases DEF Return, Crash, ApplyLate, vars

\* Every step keeps to bytes that were offered.
LEMMA OfferedStep ==
    ASSUME TypeOK, TypeOK', BytesWereOffered, MirrorWasAcked, [Next]_vars
    PROVE  BytesWereOffered'
  <1>1. ASSUME NEW s \in Side, NEW c \in CID, objects'[s][c] # NoBody
        PROVE  <<c, objects'[s][c]>> \in offered'
    <2>1. objects[s][c] # NoBody => <<c, objects[s][c]>> \in offered
      BY DEF BytesWereOffered, Holds
    <2>2. \A b : Carries(s, c, b) => <<c, b>> \in offered
      BY Zenon DEF BytesWereOffered, Carries
    <2>3. CASE Crash
      BY Zenon, <1>1, <2>1, <2>3, HistoryGrows DEF Crash
    <2>4. CASE Applied(s, c)
      BY <1>1, <2>1, <2>2, <2>4, HistoryGrows DEF Applied
    <2> QED BY <2>3, <2>4, ObjectsStep
  <1>2. ASSUME NEW l \in late', l.op = "push"
        PROVE  <<l.cid, l.body>> \in offered'
    <2>1. CASE l \in late
      BY Zenon, <1>2, <2>1, HistoryGrows DEF BytesWereOffered
    <2>2. CASE \E r \in Request : l = Sent(r, pc[r])
      BY <1>2, <2>2, HistoryGrows DEF BytesWereOffered, Sent
    <2> QED BY <2>1, <2>2, LateSource
  <1>3. ASSUME NEW r \in Request
        PROVE  /\ op'[r] = "push" => <<cid'[r], body'[r]>> \in offered'
               /\ data'[r] # NoBody => /\ pc'[r] = "return"
                                       /\ <<cid'[r], data'[r]>> \in offered'
    <2>0. /\ op[r] = "push" => <<cid[r], body[r]>> \in offered'
          /\ data[r] # NoBody => pc[r] = "return" /\ <<cid[r], data[r]>> \in offered'
      BY Zenon, HistoryGrows DEF BytesWereOffered
    <2>1. ASSUME NEW s \in Side, NEW reply \in Replies,
                 Asks(r, s, op[r], reply), Proceeds(r, s, reply)
          PROVE  /\ op'[r] = "push" => <<cid'[r], body'[r]>> \in offered'
                 /\ data'[r] # NoBody => /\ pc'[r] = "return"
                                         /\ <<cid'[r], data'[r]>> \in offered'
      <3>1. pc[r] = s /\ UNCHANGED <<op, cid, body>> /\ cid[r] \in CID
        BY Zenon, <2>1 DEF Asks, TypeOK
      <3>2. objects[s][cid[r]] # NoBody => <<cid[r], objects[s][cid[r]]>> \in offered'
        BY Zenon, <3>1, HistoryGrows DEF BytesWereOffered, Holds
      <3>3. \/ pc'[r] = "mirror" /\ data'[r] = data[r]
            \/ pc'[r] = "return" /\ data'[r] \in {NoBody, objects[s][cid[r]]}
        BY <2>1 DEF Proceeds, ToMirror, Finish, TypeOK
      <3>4. pc[r] # "return"
        BY <3>1 DEF Side
      <3> QED BY Zenon, <2>0, <3>1, <3>2, <3>3, <3>4
    <2>2. CASE Resolve(r)
      BY <2>0, <2>2 DEF Resolve, Finish, TypeOK
    <2>3. CASE UNCHANGED <<op[r], cid[r], body[r], pc[r], data[r], ret[r]>>
      BY Zenon, <2>0, <2>3
    <2>4. CASE /\ pc[r] = "idle" /\ pc'[r] = "primary" /\ data'[r] = data[r]
               /\ op'[r] = "push" => <<cid'[r], body'[r]>> \in offered'
      BY Zenon, <2>0, <2>4
    <2>5. CASE pc'[r] = "idle" /\ op'[r] = "healthy" /\ data'[r] = NoBody
      BY <2>5
    <2> QED BY Zenon, <2>1, <2>2, <2>3, <2>4, <2>5, RequestStep
  <1> QED BY Zenon, <1>1, <1>2, <1>3 DEF BytesWereOffered, Holds

\* Every step keeps to the mirror what the primary acknowledged.
LEMMA AckedStep ==
    ASSUME TypeOK, TypeOK', BytesWereOffered, MirrorWasAcked, [Next]_vars
    PROVE  MirrorWasAcked'
  <1>0. "mirror" \in Side
    BY DEF Side
  <1>1. ASSUME NEW c \in CID, objects'["mirror"][c] # NoBody
        PROVE  <<c, objects'["mirror"][c]>> \in acked'
    <2>1. objects["mirror"][c] # NoBody => <<c, objects["mirror"][c]>> \in acked
      BY DEF MirrorWasAcked, Holds
    <2>2. \A b : Carries("mirror", c, b) => <<c, b>> \in acked
      BY Zenon DEF MirrorWasAcked, Carries
    <2>3. CASE Crash
      BY Zenon, <1>0, <1>1, <2>1, <2>3, HistoryGrows DEF Crash
    <2>4. CASE Applied("mirror", c)
      BY Zenon, <1>1, <2>1, <2>2, <2>4, HistoryGrows DEF Applied
    <2> QED BY <1>0, <2>3, <2>4, ObjectsStep
  <1>2. ASSUME NEW l \in late', l.side = "mirror", l.op = "push"
        PROVE  <<l.cid, l.body>> \in acked'
    <2>1. CASE l \in late
      BY Zenon, <1>2, <2>1, HistoryGrows DEF MirrorWasAcked
    <2>2. CASE \E r \in Request : l = Sent(r, pc[r])
      BY <1>2, <2>2, HistoryGrows DEF MirrorWasAcked, Sent
    <2> QED BY <2>1, <2>2, LateSource
  <1>3. ASSUME NEW r \in Request, pc'[r] = "mirror"
        PROVE  (op'[r] = "push" => <<cid'[r], body'[r]>> \in acked') /\ Mirrored
    <2>1. ASSUME NEW s \in Side, NEW reply \in Replies,
                 Asks(r, s, op[r], reply), Proceeds(r, s, reply)
          PROVE  (op'[r] = "push" => <<cid'[r], body'[r]>> \in acked') /\ Mirrored
      <3>1. UNCHANGED <<op, cid, body>>
        BY Zenon, <2>1 DEF Asks
      <3>2. s = "primary" /\ Mirrored /\ (op[r] = "push" => reply = "ok")
        BY <1>3, <2>1 DEF Proceeds, ToMirror, Finish, TypeOK
      <3>3. op[r] = "push" => <<cid[r], body[r]>> \in acked'
        BY Zenon, <2>1, <3>2 DEF Asks, NoteReply
      <3> QED BY <3>1, <3>2, <3>3
    <2>2. CASE Resolve(r)
      BY <1>3, <2>2 DEF Resolve, Finish, TypeOK
    <2>3. CASE UNCHANGED <<op[r], cid[r], body[r], pc[r], data[r], ret[r]>>
      BY Zenon, <1>3, <2>3, HistoryGrows DEF MirrorWasAcked
    <2> QED BY Zenon, <1>3, <2>1, <2>2, <2>3, RequestStep
  <1> QED BY Zenon, <1>1, <1>2, <1>3 DEF MirrorWasAcked, Holds

-----------------------------------------------------------------------------
(* What a request can know *)

\* Every step keeps the requests' view of settled and erased content right.
LEMMA TrackedStep ==
    ASSUME TypeOK, CallsAreTracked, MirrorWasAcked, [Next]_vars
    PROVE  CallsAreTracked'
  <1> SUFFICES ASSUME NEW s \in Side, NEW q \in Request
               PROVE  /\ q \in steady'[s] => pc'[q] # "idle" /\ cid'[q] \in settled'[s]
                      /\ q \in gone'[s] => pc'[q] # "idle" /\ cid'[q] \in erased'[s]
    BY Zenon DEF CallsAreTracked
  <1>0. /\ q \in steady[s] => pc[q] # "idle" /\ cid[q] \in settled[s]
        /\ q \in gone[s] => pc[q] # "idle" /\ cid[q] \in erased[s]
    BY DEF CallsAreTracked
  <1>1. ASSUME NEW r \in Request, NEW o \in AllOps, NEW c \in CID,
               NEW b \in Body \cup {NoBody}, EntersWith(r, o, c, b)
        PROVE  /\ q \in steady'[s] => pc'[q] # "idle" /\ cid'[q] \in settled'[s]
               /\ q \in gone'[s] => pc'[q] # "idle" /\ cid'[q] \in erased'[s]
    <2>1. /\ pc[r] = "idle" /\ pc' = [pc EXCEPT ![r] = "primary"]
          /\ cid' = [cid EXCEPT ![r] = c]
          /\ NoteCall(r, o, c, b)
      BY Zenon, <1>1 DEF EntersWith, Call
    <2>2. CASE q = r
      <3>1. q \notin steady[s] /\ q \notin gone[s] /\ pc'[q] = "primary" /\ cid'[q] = c
        BY Zenon, <1>0, <2>1, <2>2 DEF TypeOK
      <3> QED BY Zenon, <2>1, <3>1 DEF NoteCall
    <2>3. CASE q # r
      <3>1. pc'[q] = pc[q] /\ cid'[q] = cid[q]
        BY Zenon, <2>1, <2>3 DEF TypeOK
      <3>2. q \in steady'[s] => q \in steady[s] /\ ~(o = "delete" /\ cid[q] = c)
        BY Zenon, <2>1, <2>3 DEF NoteCall
      <3>3. q \in gone'[s] => q \in gone[s] /\ ~(o = "push" /\ cid[q] = c)
        BY Zenon, <2>1, <2>3 DEF NoteCall
      <3>4. /\ settled'[s] = IF o = "delete" THEN settled[s] \ {c} ELSE settled[s]
            /\ erased'[s] = IF o = "push" THEN erased[s] \ {c} ELSE erased[s]
        BY Zenon, <2>1 DEF NoteCall
      <3> QED BY Zenon, <1>0, <3>1, <3>2, <3>3, <3>4
    <2> QED BY Zenon, <2>2, <2>3
  <1>2. ASSUME NEW r \in Request, NEW t \in Side, NEW o \in AllOps,
               NEW reply \in Replies, Asks(r, t, o, reply), Proceeds(r, t, reply)
        PROVE  /\ q \in steady'[s] => pc'[q] # "idle" /\ cid'[q] \in settled'[s]
               /\ q \in gone'[s] => pc'[q] # "idle" /\ cid'[q] \in erased'[s]
    <2>1. UNCHANGED <<steady, gone, cid>>
      BY Zenon, <1>2 DEF Asks, NoteReply
    <2>2. settled[s] \subseteq settled'[s] /\ erased[s] \subseteq erased'[s]
      BY Zenon, <1>2 DEF Asks, NoteReply, TypeOK
    <2>3. pc[q] # "idle" => pc'[q] # "idle"
      BY <1>2 DEF Proceeds, ToMirror, Finish, TypeOK
    <2> QED BY Zenon, <1>0, <2>1, <2>2, <2>3
  <1>3. ASSUME NEW r \in Request, Resolve(r)
        PROVE  /\ q \in steady'[s] => pc'[q] # "idle" /\ cid'[q] \in settled'[s]
               /\ q \in gone'[s] => pc'[q] # "idle" /\ cid'[q] \in erased'[s]
    BY Zenon, <1>0, <1>3 DEF Resolve, Finish, TypeOK, histVars
  <1>4. ASSUME NEW r \in Request, Return(r)
        PROVE  /\ q \in steady'[s] => pc'[q] # "idle" /\ cid'[q] \in settled'[s]
               /\ q \in gone'[s] => pc'[q] # "idle" /\ cid'[q] \in erased'[s]
    BY Zenon, <1>0, <1>4 DEF Return, Leave
  <1>5. CASE Crash
    BY Zenon, <1>5 DEF Crash, Leave
  <1>6. CASE \E l \in late : ApplyLate(l)
    BY Zenon, <1>0, <1>6 DEF ApplyLate, callVars, histVars
  <1>7. CASE UNCHANGED vars
    BY Zenon, <1>0, <1>7 DEF vars, callVars, histVars
  <1> QED BY Zenon, <1>1, <1>2, <1>3, <1>4, <1>5, <1>6, <1>7, NextCases

\* A method that returns nil was told by its side that the work is done.
LEMMA GroundsStep ==
    ASSUME StoreInv, StoreInv', SuccessHasGrounds, [Next]_vars
    PROVE  SuccessHasGrounds'
  <1> SUFFICES ASSUME NEW q \in Request, pc'[q] = "return", ret'[q] = "nil"
               PROVE  /\ op'[q] = "push"  => <<cid'[q], body'[q]>> \in acked'
                      /\ op'[q] = "fetch" => <<cid'[q], data'[q]>> \in offered'
    BY Zenon DEF SuccessHasGrounds
  <1>0. TypeOK /\ MirrorWasAcked /\ BytesWereOffered
    BY DEF StoreInv
  <1>1. acked \subseteq acked' /\ offered \subseteq offered'
    BY Zenon, <1>0, HistoryGrows
  <1>2. CASE /\ pc[q] = "return" /\ ret[q] = "nil"
             /\ UNCHANGED <<op[q], cid[q], body[q], data[q]>>
    BY Zenon, <1>1, <1>2 DEF SuccessHasGrounds
  <1>3. ASSUME NEW r \in Request, NEW o \in AllOps, NEW c \in CID,
               NEW b \in Body \cup {NoBody}, EntersWith(r, o, c, b)
        PROVE  q # r
    BY Zenon, <1>0, <1>3 DEF EntersWith, Call, TypeOK
  <1>4. ASSUME NEW s \in Side, NEW o \in AllOps, NEW reply \in Replies,
               Asks(q, s, o, reply), Proceeds(q, s, reply)
        PROVE  /\ op'[q] = "push"  => <<cid'[q], body'[q]>> \in acked'
               /\ op'[q] = "fetch" => <<cid'[q], data'[q]>> \in offered'
    <2>1. pc[q] = s /\ UNCHANGED <<op, cid, body, offered>>
      BY Zenon, <1>4 DEF Asks, NoteReply
    <2>2. PICK err \in Results, bytes \in {NoBody, objects[s][cid[q]]} :
             /\ op[q] = "push" /\ s = "primary" /\ err = "nil" => reply = "ok"
             /\ op[q] = "fetch" /\ err = "nil"
                => reply = "ok" /\ bytes = objects[s][cid[q]]
             /\ Finish(q, err, bytes)
      BY Zenon, <1>0, <1>4 DEF Proceeds, ToMirror, TypeOK
    <2>3. err = "nil" /\ data'[q] = bytes
      BY <1>0, <2>2 DEF Finish, TypeOK
    <2>4. CASE op[q] = "push" /\ s = "primary"
      <3>1. reply = "ok" /\ o = "push"
        BY Zenon, <1>4, <2>2, <2>3, <2>4 DEF Asks
      <3>2. <<cid[q], body[q]>> \in acked'
        BY Zenon, <1>4, <2>4, <3>1 DEF Asks, NoteReply
      <3> QED BY Zenon, <2>1, <2>4, <3>2
    <2>5. CASE op[q] = "push" /\ s = "mirror"
      BY <1>0, <1>1, <2>1, <2>5 DEF MirrorWasAcked
    <2>6. CASE op[q] = "fetch"
      <3>1. reply = "ok" /\ bytes = objects[s][cid[q]] /\ o = "fetch"
        BY <1>4, <2>2, <2>3, <2>6 DEF Asks
      <3>2. "ok" \in RepliesOf(KindOf(s), "fetch", Holds(s, cid[q]))
        BY Zenon, <1>4, <3>1 DEF Asks
      <3>3. Holds(s, cid[q])
        BY <3>2 DEF RepliesOf, AnswerOf, Mutators
      <3>4. <<cid[q], objects[s][cid[q]]>> \in offered
        BY Zenon, <1>0, <3>3 DEF BytesWereOffered, TypeOK
      <3> QED BY SMTT(20), <2>1, <2>3, <2>6, <3>1, <3>4
    <2> QED BY <2>1, <2>4, <2>5, <2>6 DEF Side
  <1>5. ASSUME NEW r \in Request, r # q,
               \/ \E o \in AllOps, c \in CID, b \in Body \cup {NoBody} :
                     EntersWith(r, o, c, b)
               \/ \E s \in Side, o \in AllOps, reply \in Replies :
                     Asks(r, s, o, reply) /\ Proceeds(r, s, reply)
               \/ Resolve(r)
               \/ Return(r)
        PROVE  /\ pc[q] = "return" /\ ret[q] = "nil"
               /\ UNCHANGED <<op[q], cid[q], body[q], data[q]>>
    <2>1. CASE \E o \in AllOps, c \in CID, b \in Body \cup {NoBody} :
                  EntersWith(r, o, c, b)
      BY SMTT(20), <1>0, <1>5, <2>1 DEF EntersWith, Call, TypeOK
    <2>2. CASE \E s \in Side, o \in AllOps, reply \in Replies :
                  Asks(r, s, o, reply) /\ Proceeds(r, s, reply)
      <3>1. /\ UNCHANGED <<op, cid, body>>
            /\ (\E e : ToMirror(r, e)) \/ (\E e, bytes : Finish(r, e, bytes))
        BY Zenon, <2>2 DEF Asks, Proceeds
      <3>2. UNCHANGED <<pc[q], ret[q], data[q]>>
        BY Zenon, <1>0, <1>5, <3>1 DEF ToMirror, Finish, TypeOK
      <3> QED BY Zenon, <1>0, <3>1, <3>2
    <2>3. CASE Resolve(r)
      BY <1>0, <1>5, <2>3 DEF Resolve, Finish, TypeOK
    <2>4. CASE Return(r)
      BY Zenon, <1>0, <1>5, <2>4 DEF Return, Leave, TypeOK
    <2> QED BY Zenon, <1>5, <2>1, <2>2, <2>3, <2>4
  <1>6. CASE Resolve(q)
    BY Zenon, <1>0, <1>6 DEF Resolve, TypeOK
  <1>7. ~Return(q) /\ ~Crash
    BY Zenon, <1>0 DEF Return, Crash, Leave, TypeOK
  <1>8. CASE \E l \in late : ApplyLate(l)
    BY Zenon, <1>2, <1>8 DEF ApplyLate, callVars
  <1>9. CASE UNCHANGED vars
    BY Zenon, <1>2, <1>9 DEF vars, callVars
  <1> QED
    BY Zenon, <1>0, <1>2, <1>3, <1>4, <1>5, <1>6, <1>7, <1>8, <1>9, NextCases

-----------------------------------------------------------------------------
(* The theorems *)

\* The invariant holds initially.
LEMMA InitInv == Init => StoreInv
  <1> SUFFICES ASSUME Init PROVE StoreInv
    OBVIOUS
  <1>1. AnyCID \in CID
    BY ConstantsAssumption DEF AnyCID
  <1>2. TypeOK
    BY Zenon, <1>1 DEF Init, TypeOK, AllOps, Results
  <1>3. SettledIsSafe /\ ErasedIsSafe /\ CallsAreTracked
    BY DEF Init, SettledIsSafe, ErasedIsSafe, CallsAreTracked
  <1>4. BytesWereOffered
    BY DEF Init, BytesWereOffered, Holds
  <1>5. MirrorWasAcked
    BY DEF Init, MirrorWasAcked, Holds, Side
  <1> QED BY <1>2, <1>3, <1>4, <1>5 DEF StoreInv

\* Every step preserves the invariant.
LEMMA NextInv == StoreInv /\ [Next]_vars => StoreInv'
  <1> SUFFICES ASSUME StoreInv, [Next]_vars PROVE StoreInv'
    OBVIOUS
  <1> USE DEF StoreInv
  <1>1. TypeOK'
    BY TypeStep
  <1> QED
    BY <1>1, SettledStep, ErasedStep, OfferedStep, AckedStep, TrackedStep

\* StoreInv is an invariant of mirrored.go's store: whatever requests, crashes
\* and late calls interleave, contents and calls under way are consistent with
\* what has been acknowledged.
THEOREM StoreInvariant == Spec => []StoreInv
  BY InitInv, NextInv, PTL DEF Spec

\* Every variable keeps its type.
THEOREM TypeCorrect == Spec => []TypeOK
  <1>1. StoreInv => TypeOK
    BY DEF StoreInv
  <1> QED BY <1>1, StoreInvariant, PTL

\* An acknowledged write stays on its side until a Delete is called.
THEOREM WritesAreDurable == Spec => []DurableWrites
  <1>1. StoreInv => DurableWrites
    BY DEF StoreInv, SettledIsSafe, DurableWrites
  <1> QED BY <1>1, StoreInvariant, PTL

\* An acknowledged deletion stays in force until a Push is called.
THEOREM DeletionsLast == Spec => []DeletedStaysDeleted
  <1>1. StoreInv => DeletedStaysDeleted
    BY DEF StoreInv, ErasedIsSafe, DeletedStaysDeleted
  <1> QED BY <1>1, StoreInvariant, PTL

\* MirroredStore.Push never lets the mirror get ahead of the primary.
THEOREM MirrorNeverLeads == Spec => []MirrorFollowsPrimary
  <1>1. StoreInv => MirrorFollowsPrimary
    BY DEF StoreInv, MirrorWasAcked, MirrorFollowsPrimary
  <1> QED BY <1>1, StoreInvariant, PTL

\* A nil error from MirroredStore.Push or Fetch means what its caller takes it
\* to mean: the bytes were accepted, or are the ones that were pushed.
THEOREM SuccessIsGrounded == Spec => []SuccessHasGrounds
  <1>1. Init => SuccessHasGrounds
    BY DEF Init, SuccessHasGrounds
  <1>2. StoreInv /\ StoreInv' /\ SuccessHasGrounds /\ [Next]_vars => SuccessHasGrounds'
    BY GroundsStep
  <1> QED BY <1>1, <1>2, StoreInvariant, PTL DEF Spec

-----------------------------------------------------------------------------
(* What a reader is told *)

\* What request r has been told so far: "here" only if some side had the object
\* at some time during the call, "not found" only if a side that was asked
\* lacked it (or is a RustFS that will not show it).  Fetch has "not found" from
\* the side it asks last.
LastAsked == IF Mirrored THEN "mirror" ELSE "primary"

ToldTruth(r) ==
    /\ pc[r] = "mirror" =>
          /\ ret[r] # "true"
          /\ op[r] = "pin" /\ ret[r] = "notfound" => r \notin steady["primary"]
    /\ pc[r] = "return" =>
          /\ (op[r] = "fetch" /\ ret[r] = "nil") \/ ret[r] = "true"
             => \E s \in ActiveSides : r \notin gone[s]
          /\ op[r] = "fetch" /\ ret[r] = "notfound"
             => r \notin steady[LastAsked] \/ KindOf(LastAsked) = "rustfs"
          /\ op[r] = "pin" /\ ret[r] = "notfound" => r \notin steady["primary"]

\* What the result err of one backend call says about r's object on side s, and so
\* about its history.
ResultTellsTruth(r, s, o, err) ==
    /\ s \in ActiveSides
    /\ op[r] = o
    /\ o = "fetch" /\ err = "nil" => r \notin gone[s]
    /\ err = "true" => o = "exists" /\ r \notin gone[s]
    /\ o = "fetch" /\ err = "notfound" => r \notin steady[s] \/ KindOf(s) = "rustfs"
    /\ o = "pin" /\ err = "notfound" => r \notin steady[s]

\* Every result that a backend method makes of a side's reply is true of that side.
LEMMA ReplyTellsTruth ==
    ASSUME StoreInv, NEW r \in Request, NEW s \in Side, NEW o \in AllOps,
           NEW reply \in Replies, Asks(r, s, o, reply)
    PROVE  ResultTellsTruth(r, s, o, ResultOf(KindOf(s), o, reply))
  <1>0. PICK err : err = ResultOf(KindOf(s), o, reply)
    BY Zenon
  <1>1. pc[r] = s /\ op[r] = o /\ reply \in RepliesOf(KindOf(s), o, Holds(s, cid[r]))
    BY Zenon DEF Asks
  <1>2. s \in ActiveSides
    BY Zenon, <1>1 DEF ActiveSides, StoreInv, MirrorWasAcked, Side
  <1>3. KindOf(s) \in Kinds
    BY <1>2, ConstantsAssumption DEF ActiveSides, KindOf, Kinds, Mirrored, Side
  <1>4. /\ Holds(s, cid[r]) => r \notin gone[s]
        /\ ~Holds(s, cid[r]) => r \notin steady[s]
    BY Zenon DEF StoreInv, CallsAreTracked, ErasedIsSafe, SettledIsSafe
  <1>5. /\ o \in {"fetch", "exists"} /\ reply = "ok" => Holds(s, cid[r])
        /\ o \in {"fetch", "pin"} /\ reply = "missing" => ~Holds(s, cid[r])
        /\ KindOf(s) = "memory" => reply \in {"ok", "missing"}
    BY Zenon, <1>1 DEF RepliesOf, AnswerOf, Mutators
  <1>6. CASE KindOf(s) = "gcs"
    <2>1. err = GCSResult(o, reply)
      BY <1>0, <1>6 DEF ResultOf
    <2>2. /\ o = "fetch" /\ err = "nil" => reply = "ok"
          /\ err = "true" => o = "exists" /\ reply = "ok"
          /\ o = "fetch" /\ err = "notfound" => reply = "missing"
          /\ o = "pin" /\ err = "notfound" => reply = "missing"
      BY <2>1 DEF GCSResult, GCSPush, GCSFetch, GCSExists, GCSPin, GCSDelete, GCSHealthy
    <2> QED BY Zenon, <1>0, <1>1, <1>2, <1>4, <1>5, <2>2 DEF ResultTellsTruth
  <1>7. CASE KindOf(s) = "rustfs"
    <2>1. err = RustFSResult(o, reply)
      BY <1>0, <1>7 DEF ResultOf
    <2>2. /\ o = "fetch" /\ err = "nil" => reply = "ok"
          /\ err = "true" => o = "exists" /\ reply = "ok"
          /\ o = "pin" /\ err = "notfound" => reply = "missing"
      BY <2>1 DEF RustFSResult, RustFSPush, RustFSFetch, RustFSExists, RustFSPin, RustFSDelete,
                  RustFSHealthy
    <2> QED BY Zenon, <1>0, <1>1, <1>2, <1>4, <1>5, <1>7, <2>2 DEF ResultTellsTruth
  <1>8. CASE KindOf(s) = "memory"
    <2>1. err = MemoryResult(o, reply)
      BY <1>0, <1>8 DEF ResultOf
    <2>2. /\ o = "fetch" /\ err = "nil" => reply = "ok"
          /\ err = "true" => o = "exists" /\ reply = "ok"
          /\ err = "notfound" => reply = "missing"
      BY <1>5, <1>8, <2>1 DEF MemoryResult
    <2> QED BY Zenon, <1>0, <1>1, <1>2, <1>4, <1>5, <2>2 DEF ResultTellsTruth
  <1> QED BY Zenon, <1>3, <1>6, <1>7, <1>8 DEF Kinds

\* A method's step tells its request the truth.
LEMMA StepTellsTruth ==
    ASSUME StoreInv, NEW r \in Request, ToldTruth(r), Step(r)
    PROVE  ToldTruth(r)'
  <1>1. TypeOK
    BY DEF StoreInv
  <1>2. ASSUME NEW e, NEW bytes, Finish(r, e, bytes), op' = op
        PROVE  pc'[r] = "return" /\ ret'[r] = e /\ op'[r] = op[r]
    BY <1>1, <1>2 DEF Finish, TypeOK
  <1>3. ASSUME NEW e, ToMirror(r, e), op' = op
        PROVE  pc'[r] = "mirror" /\ ret'[r] = e /\ op'[r] = op[r]
    BY Zenon, <1>1, <1>3 DEF ToMirror, TypeOK
  <1>4. KindOf("primary") = PrimaryKind /\ KindOf("mirror") = MirrorKind
    BY DEF KindOf
  <1>5. "primary" \in Side /\ "mirror" \in Side /\ "primary" \in ActiveSides
    BY DEF Side, ActiveSides
  <1>6. CASE Resolve(r)
    <2>1. PICK e \in {"nil", "err", "nosigner"} : Finish(r, e, NoBody)
      BY Zenon, <1>6 DEF Resolve, ResolveResults
    <2>2. op[r] = "resolve" /\ op' = op
      BY <1>6 DEF Resolve
    <2> QED BY Zenon, <1>2, <2>1, <2>2 DEF ToldTruth
  <1>7. ASSUME NEW s \in Side, NEW o \in AllOps, NEW reply \in Replies, Asks(r, s, o, reply)
        PROVE  op' = op /\ steady' = steady /\ gone' = gone
    BY Zenon, <1>7 DEF Asks, NoteReply
  <1>8. ASSUME NEW s \in Side, NEW o \in AllOps, NEW reply \in Replies, NEW bytes,
               Asks(r, s, o, reply), Finish(r, ResultOf(KindOf(s), o, reply), bytes),
               o = "pin" => s = "primary",
               o = "fetch" => s = LastAsked \/ ResultOf(KindOf(s), o, reply) = "nil"
        PROVE  ToldTruth(r)'
    <2>0. PICK err : err = ResultOf(KindOf(s), o, reply)
      BY Zenon
    <2>1. ResultTellsTruth(r, s, o, err) /\ op[r] = o
      BY Zenon, <1>8, <2>0, ReplyTellsTruth DEF Asks
    <2>2. op' = op /\ steady' = steady /\ gone' = gone
      BY Zenon, <1>7, <1>8
    <2>3. pc'[r] = "return" /\ ret'[r] = err /\ op'[r] = o
      BY Zenon, <1>2, <1>8, <2>0, <2>1, <2>2
    <2>4. o = "fetch" /\ err = "notfound" => s = LastAsked
      BY <1>8, <2>0
    <2> QED BY Zenon, <1>8, <2>1, <2>2, <2>3, <2>4 DEF ToldTruth, ResultTellsTruth
  <1>9. ASSUME NEW o \in AllOps, NEW reply \in Replies, Asks(r, "primary", o, reply),
               ToMirror(r, ResultOf(PrimaryKind, o, reply)),
               o = "exists" => ResultOf(PrimaryKind, o, reply) # "true"
        PROVE  ToldTruth(r)'
    <2>0. PICK err : err = ResultOf(PrimaryKind, o, reply)
      BY Zenon
    <2>1. ResultTellsTruth(r, "primary", o, err) /\ op[r] = o
      BY Zenon, <1>4, <1>5, <1>9, <2>0, ReplyTellsTruth DEF Asks
    <2>2. op' = op /\ steady' = steady /\ gone' = gone
      BY Zenon, <1>5, <1>7, <1>9
    <2>3. pc'[r] = "mirror" /\ ret'[r] = err /\ op'[r] = o
      BY Zenon, <1>3, <1>9, <2>0, <2>1, <2>2
    <2>4. err # "true"
      BY Zenon, <1>9, <2>0, <2>1 DEF ResultTellsTruth
    <2> QED BY Zenon, <2>1, <2>2, <2>3, <2>4 DEF ToldTruth, ResultTellsTruth
  <1>10. CASE PushPrimary(r)
    <2>1. PICK reply \in Replies :
            LET err == ResultOf(PrimaryKind, "push", reply) IN
            /\ Asks(r, "primary", "push", reply)
            /\ \/ err = "nil" /\ ToMirror(r, err)
               \/ Finish(r, err, NoBody)
      BY <1>10 DEF PushPrimary
    <2>2. "push" \in AllOps
      BY DEF AllOps, Mutators
    <2>3. CASE ToMirror(r, ResultOf(PrimaryKind, "push", reply))
      BY <1>9, <2>1, <2>2, <2>3
    <2>4. CASE Finish(r, ResultOf(PrimaryKind, "push", reply), NoBody)
      BY <1>4, <1>5, <1>8, <2>1, <2>2, <2>4
    <2> QED BY <2>1, <2>3, <2>4
  <1>11. CASE PushMirror(r)
    <2>1. PICK reply \in Replies :
            Asks(r, "mirror", "push", reply) /\ Finish(r, "nil", NoBody)
      BY <1>11 DEF PushMirror
    <2>2. "push" \in AllOps
      BY DEF AllOps, Mutators
    <2>3. op' = op /\ op[r] = "push"
      BY Zenon, <1>5, <1>7, <2>1, <2>2 DEF Asks
    <2>4. pc'[r] = "return" /\ ret'[r] = "nil" /\ op'[r] = "push"
      BY Zenon, <1>2, <2>1, <2>3
    <2> QED BY Zenon, <2>4 DEF ToldTruth
  <1>12. CASE FetchPrimary(r)
    <2>1. PICK reply \in Replies, bytes \in {NoBody, objects["primary"][cid[r]]} :
            LET err == ResultOf(PrimaryKind, "fetch", reply) IN
            /\ Asks(r, "primary", "fetch", reply)
            /\ \/ err # "nil" /\ ToMirror(r, err)
               \/ Finish(r, err, bytes) /\ (err = "nil" \/ LastAsked = "primary")
      BY Zenon, <1>12 DEF FetchPrimary, Fetched, LastAsked
    <2>2. "fetch" \in AllOps
      BY Zenon DEF AllOps, Mutators
    <2>3. CASE ToMirror(r, ResultOf(PrimaryKind, "fetch", reply))
      BY Zenon, <1>9, <2>1, <2>2, <2>3
    <2>4. CASE /\ Finish(r, ResultOf(PrimaryKind, "fetch", reply), bytes)
               /\ ResultOf(PrimaryKind, "fetch", reply) = "nil" \/ LastAsked = "primary"
      BY Zenon, <1>4, <1>5, <1>8, <2>1, <2>2, <2>4
    <2> QED BY Zenon, <2>1, <2>3, <2>4
  <1>13. CASE FetchMirror(r)
    <2>1. PICK reply \in Replies, bytes \in {NoBody, objects["mirror"][cid[r]]} :
            /\ Asks(r, "mirror", "fetch", reply)
            /\ Finish(r, ResultOf(MirrorKind, "fetch", reply), bytes)
      BY Zenon, <1>13 DEF FetchMirror, Fetched
    <2>2. "fetch" \in AllOps
      BY DEF AllOps, Mutators
    <2>3. LastAsked = "mirror"
      BY Zenon, <2>1 DEF Asks, StoreInv, MirrorWasAcked, LastAsked
    <2> QED BY Zenon, <1>4, <1>5, <1>8, <2>1, <2>2, <2>3
  <1>14. CASE ExistsPrimary(r)
    <2>1. PICK reply \in Replies :
            LET err == ResultOf(PrimaryKind, "exists", reply) IN
            /\ Asks(r, "primary", "exists", reply)
            /\ \/ err # "true" /\ ToMirror(r, err)
               \/ Finish(r, err, NoBody)
      BY <1>14 DEF ExistsPrimary
    <2>2. "exists" \in AllOps
      BY DEF AllOps, Mutators
    <2>3. CASE ToMirror(r, ResultOf(PrimaryKind, "exists", reply)) /\ ResultOf(PrimaryKind, "exists", reply) # "true"
      BY <1>9, <2>1, <2>2, <2>3
    <2>4. CASE Finish(r, ResultOf(PrimaryKind, "exists", reply), NoBody)
      BY <1>4, <1>5, <1>8, <2>1, <2>2, <2>4
    <2> QED BY <2>1, <2>3, <2>4
  <1>15. CASE ExistsMirror(r)
    <2>1. PICK reply \in Replies :
            /\ Asks(r, "mirror", "exists", reply)
            /\ Finish(r, ResultOf(MirrorKind, "exists", reply), NoBody)
      BY <1>15 DEF ExistsMirror
    <2>2. "exists" \in AllOps
      BY DEF AllOps, Mutators
    <2> QED BY <1>4, <1>5, <1>8, <2>1, <2>2
  <1>16. ASSUME NEW o \in {"pin", "delete"}, BothPrimary(r, o) PROVE ToldTruth(r)'
    <2>1. PICK reply \in Replies :
            LET err == ResultOf(PrimaryKind, o, reply) IN
            /\ Asks(r, "primary", o, reply)
            /\ ToMirror(r, err) \/ Finish(r, err, NoBody)
      BY <1>16 DEF BothPrimary
    <2>2. o \in AllOps /\ o # "exists"
      BY DEF AllOps, Mutators
    <2>3. CASE ToMirror(r, ResultOf(PrimaryKind, o, reply))
      BY Zenon, <1>9, <2>1, <2>2, <2>3
    <2>4. CASE Finish(r, ResultOf(PrimaryKind, o, reply), NoBody)
      BY Zenon, <1>4, <1>5, <1>8, <2>1, <2>2, <2>4
    <2> QED BY <2>1, <2>3, <2>4
  <1>17. ASSUME NEW o \in {"pin", "delete"}, BothMirror(r, o) PROVE ToldTruth(r)'
    <2>1. PICK reply \in Replies : Asks(r, "mirror", o, reply) /\ Finish(r, ret[r], NoBody)
      BY <1>17 DEF BothMirror
    <2>2. o \in AllOps
      BY DEF AllOps, Mutators
    <2>3. /\ op' = op /\ steady' = steady
          /\ op[r] = o /\ pc[r] = "mirror"
      BY Zenon, <1>5, <1>7, <2>1, <2>2 DEF Asks
    <2>4. pc'[r] = "return" /\ ret'[r] = ret[r] /\ op'[r] = o
      BY <1>2, <2>1, <2>3
    <2> QED BY <2>3, <2>4 DEF ToldTruth
  <1>18. CASE HealthyPrimary(r)
    <2>1. PICK reply \in Replies :
            LET err == ResultOf(PrimaryKind, "healthy", reply) IN
            /\ Asks(r, "primary", "healthy", reply)
            /\ \/ err = "nil" /\ ToMirror(r, err)
               \/ Finish(r, err, NoBody)
      BY <1>18 DEF HealthyPrimary
    <2>2. "healthy" \in AllOps
      BY DEF AllOps, Mutators
    <2>3. CASE ToMirror(r, ResultOf(PrimaryKind, "healthy", reply))
      BY <1>9, <2>1, <2>2, <2>3
    <2>4. CASE Finish(r, ResultOf(PrimaryKind, "healthy", reply), NoBody)
      BY <1>4, <1>5, <1>8, <2>1, <2>2, <2>4
    <2> QED BY <2>1, <2>3, <2>4
  <1>19. CASE HealthyMirror(r)
    <2>1. PICK reply \in Replies :
            /\ Asks(r, "mirror", "healthy", reply)
            /\ Finish(r, ResultOf(MirrorKind, "healthy", reply), NoBody)
      BY <1>19 DEF HealthyMirror
    <2>2. "healthy" \in AllOps
      BY DEF AllOps, Mutators
    <2> QED BY <1>4, <1>5, <1>8, <2>1, <2>2
  <1> QED
    BY <1>6, <1>10, <1>11, <1>12, <1>13, <1>14, <1>15, <1>16, <1>17, <1>18, <1>19
    DEF Step, PinPrimary, PinMirror, DeletePrimary, DeleteMirror

\* What a request was told stays true while the others go on: a history only
\* shrinks until its request leaves.
LEMMA TruthStays ==
    ASSUME StoreInv, [Next]_vars, NEW q \in Request, ToldTruth(q)
    PROVE  ToldTruth(q)'
  <1>1. TypeOK
    BY DEF StoreInv
  <1>2. ASSUME UNCHANGED <<pc[q], op[q], ret[q]>>,
               \A s \in Side : /\ q \in gone'[s] => q \in gone[s]
                               /\ q \in steady'[s] => q \in steady[s]
        PROVE  ToldTruth(q)'
    <2>1. "primary" \in Side /\ ActiveSides \subseteq Side /\ LastAsked \in Side
      BY DEF Side, ActiveSides, LastAsked
    <2> QED BY Zenon, <1>2, <2>1 DEF ToldTruth
  <1>3. ASSUME NEW r \in Request, Enter(r) PROVE ToldTruth(q)'
    <2>1. PICK o \in Ops, c \in CID, b \in Body \cup {NoBody} : Call(r, o, c, b)
      BY SMTT(20), <1>3 DEF Enter
    <2>2. CASE q = r
      <3>1. pc'[q] = "primary"
        BY Zenon, <1>1, <2>1, <2>2 DEF Call, TypeOK
      <3> QED BY <3>1 DEF ToldTruth
    <2>3. CASE q # r
      <3>1. UNCHANGED <<pc[q], op[q], ret[q]>>
        BY Zenon, <1>1, <2>1, <2>3 DEF Call, TypeOK
      <3>2. ASSUME NEW s \in Side
            PROVE  /\ q \in gone'[s] => q \in gone[s]
                   /\ q \in steady'[s] => q \in steady[s]
        BY Zenon, <2>1, <2>3 DEF Call, NoteCall
      <3> QED BY Zenon, <1>2, <3>1, <3>2
    <2> QED BY <2>2, <2>3
  <1>4. ASSUME NEW r \in Request, Step(r) PROVE ToldTruth(q)'
    <2>1. CASE q = r
      BY <1>4, <2>1, StepTellsTruth
    <2>2. CASE q # r
      <3>1. steady' = steady /\ gone' = gone /\ UNCHANGED <<pc[q], op[q], ret[q]>>
        <4>1. CASE Resolve(r)
          BY SMTT(20), <1>1, <2>2, <4>1 DEF Resolve, Finish, histVars, TypeOK
        <4>2. ASSUME NEW s \in Side, NEW o \in AllOps, NEW reply \in Replies,
                     Asks(r, s, o, reply), Proceeds(r, s, reply)
              PROVE  steady' = steady /\ gone' = gone /\ UNCHANGED <<pc[q], op[q], ret[q]>>
          BY <1>1, <2>2, <4>2 DEF Asks, NoteReply, Proceeds, ToMirror, Finish, TypeOK
        <4> QED BY Zenon, <1>4, <4>1, <4>2, StepShape DEF StoreInv
      <3> QED BY Zenon, <1>2, <3>1
    <2> QED BY <2>1, <2>2
  <1>5. ASSUME NEW rs \in SUBSET Request, Leave(rs) PROVE ToldTruth(q)'
    <2>1. CASE q \in rs
      <3>1. pc'[q] = "idle"
        BY Zenon, <1>5, <2>1 DEF Leave
      <3> QED BY Zenon, <3>1 DEF ToldTruth
    <2>2. CASE q \notin rs
      <3>1. UNCHANGED <<pc[q], op[q], ret[q]>>
        BY Zenon, <1>5, <2>2 DEF Leave
      <3>2. ASSUME NEW s \in Side
            PROVE  /\ q \in gone'[s] => q \in gone[s]
                   /\ q \in steady'[s] => q \in steady[s]
        BY Zenon, <1>5 DEF Leave
      <3> QED BY <1>2, <3>1, <3>2
    <2> QED BY <2>1, <2>2
  <1>6. CASE \E l \in late : ApplyLate(l)
    BY <1>2, <1>6 DEF ApplyLate, callVars, histVars
  <1>7. CASE UNCHANGED vars
    BY <1>2, <1>7 DEF vars, callVars, histVars
  <1> QED BY Zenon, <1>3, <1>4, <1>5, <1>6, <1>7 DEF Next, Return, Crash

\* What Fetch, Exists and Pin tell their callers is true of some time during
\* the call.
LEMMA Truth == Spec => [](\A r \in Request : ToldTruth(r))
  <1>1. Init => \A r \in Request : ToldTruth(r)
    BY DEF Init, ToldTruth
  <1>2. StoreInv /\ [Next]_vars /\ (\A r \in Request : ToldTruth(r))
        => (\A r \in Request : ToldTruth(r))'
    BY TruthStays
  <1> QED BY <1>1, <1>2, StoreInvariant, PTL DEF Spec

\* MirroredStore.Fetch and Exists never answer "here" of an object that was
\* deleted on every side throughout the call.
THEOREM DeletedIsNeverRead == Spec => []NoReadOfDeleted
  <1>1. (\A r \in Request : ToldTruth(r)) => NoReadOfDeleted
    BY DEF ToldTruth, NoReadOfDeleted
  <1> QED BY <1>1, Truth, PTL

\* MirroredStore.Fetch answers "not found" only if some side lacked the object
\* at some time during the call, or is a RustFS server that hides objects.
THEOREM FetchNotFoundHonest == Spec => []FetchNotFoundIsHonest
  <1>1. LastAsked \in ActiveSides
    BY DEF LastAsked, ActiveSides, Side
  <1>2. (\A r \in Request : ToldTruth(r)) => FetchNotFoundIsHonest
    BY <1>1 DEF ToldTruth, FetchNotFoundIsHonest
  <1> QED BY <1>2, Truth, PTL

\* MirroredStore.Pin answers "not found" only if the primary lacked the object
\* at some time during the call.
THEOREM PinNotFoundHonest == Spec => []PinNotFoundIsHonest
  <1>1. (\A r \in Request : ToldTruth(r)) => PinNotFoundIsHonest
    BY DEF ToldTruth, PinNotFoundIsHonest
  <1> QED BY <1>1, Truth, PTL

-----------------------------------------------------------------------------
(* What Exists answers *)

\* Exists returns a Boolean or an error, and true only of a CID that some Push
\* was called with: a refusal or an outage never counts as an object.
ExistsIsGrounded ==
    \A r \in Request :
        pc[r] = "return" /\ op[r] = "exists" =>
            /\ ret[r] # "nil"
            /\ ret[r] = "true" => \E p \in offered : p[1] = cid[r]

\* One side's answer to Exists.
LEMMA ExistsTells ==
    ASSUME StoreInv, NEW r \in Request, NEW s \in Side, NEW reply \in Replies,
           Asks(r, s, "exists", reply)
    PROVE  /\ ResultOf(KindOf(s), "exists", reply) # "nil"
           /\ ResultOf(KindOf(s), "exists", reply) = "true"
              => \E p \in offered : p[1] = cid[r]
  <1>1. /\ ResultOf(KindOf(s), "exists", reply) # "nil"
        /\ ResultOf(KindOf(s), "exists", reply) = "true" => reply = "ok"
    BY DEF ResultOf, GCSResult, RustFSResult, MemoryResult, GCSExists, RustFSExists
  <1>2. reply = "ok" => Holds(s, cid[r])
    BY Zenon DEF Asks, RepliesOf, AnswerOf, Mutators
  <1>3. cid[r] \in CID
    BY DEF StoreInv, TypeOK
  <1>4. Holds(s, cid[r]) => <<cid[r], objects[s][cid[r]]>> \in offered
    BY Zenon, <1>3 DEF StoreInv, BytesWereOffered
  <1> QED BY <1>1, <1>2, <1>4

\* A step of Exists ends it with a grounded answer, or goes on.
LEMMA ExistsStep ==
    ASSUME StoreInv, NEW r \in Request, Step(r), op[r] = "exists", pc'[r] = "return"
    PROVE  /\ ret'[r] # "nil"
           /\ ret'[r] = "true" => \E p \in offered : p[1] = cid[r]
  <1>1. TypeOK
    BY DEF StoreInv
  <1>2. ExistsPrimary(r) \/ ExistsMirror(r)
    <2>1. ASSUME NEW s, NEW o, NEW reply, Asks(r, s, o, reply)
          PROVE  o = "exists"
      BY <2>1 DEF Asks
    <2> QED
      BY Zenon, <2>1
      DEF Step, PushPrimary, PushMirror, FetchPrimary, FetchMirror, PinPrimary, PinMirror,
          DeletePrimary, DeleteMirror, BothPrimary, BothMirror, HealthyPrimary,
          HealthyMirror, Resolve
  <1>3. ASSUME NEW s \in Side, NEW reply \in Replies, Asks(r, s, "exists", reply),
               NEW err, err = ResultOf(KindOf(s), "exists", reply), Finish(r, err, NoBody)
        PROVE  /\ ret'[r] # "nil"
               /\ ret'[r] = "true" => \E p \in offered : p[1] = cid[r]
    <2>1. ret'[r] = err
      BY Zenon, <1>1, <1>3 DEF Finish, TypeOK
    <2> QED BY <1>3, <2>1, ExistsTells
  <1>4. /\ KindOf("primary") = PrimaryKind /\ KindOf("mirror") = MirrorKind
        /\ "primary" \in Side /\ "mirror" \in Side
    BY DEF KindOf, Side
  <1>5. CASE ExistsPrimary(r)
    <2>1. PICK reply \in Replies :
            LET err == ResultOf(PrimaryKind, "exists", reply) IN
            /\ Asks(r, "primary", "exists", reply)
            /\ ToMirror(r, err) \/ Finish(r, err, NoBody)
      BY Zenon, <1>5 DEF ExistsPrimary
    <2>2. ASSUME NEW err PROVE ~ToMirror(r, err)
      BY <1>1 DEF ToMirror, TypeOK
    <2>3. Finish(r, ResultOf(PrimaryKind, "exists", reply), NoBody)
      BY Zenon, <2>1, <2>2
    <2> QED BY Zenon, <1>3, <1>4, <2>1, <2>3
  <1>6. CASE ExistsMirror(r)
    <2>1. PICK reply \in Replies :
            /\ Asks(r, "mirror", "exists", reply)
            /\ Finish(r, ResultOf(MirrorKind, "exists", reply), NoBody)
      BY Zenon, <1>6 DEF ExistsMirror
    <2> QED BY Zenon, <1>3, <1>4, <2>1
  <1> QED BY <1>2, <1>5, <1>6

\* Grounds stay: what was offered is remembered, and no other request touches
\* this one's answer.
LEMMA ExistsGroundsStep ==
    ASSUME StoreInv, ExistsIsGrounded, [Next]_vars
    PROVE  ExistsIsGrounded'
  <1> SUFFICES ASSUME NEW q \in Request, pc'[q] = "return", op'[q] = "exists"
               PROVE  /\ ret'[q] # "nil"
                      /\ ret'[q] = "true" => \E p \in offered' : p[1] = cid'[q]
    BY DEF ExistsIsGrounded
  <1>1. TypeOK
    BY DEF StoreInv
  <1>2. CASE UNCHANGED <<pc[q], op[q], cid[q], ret[q]>> /\ offered \subseteq offered'
    BY Zenon, <1>2 DEF ExistsIsGrounded
  <1>3. ASSUME NEW r \in Request, Enter(r)
        PROVE  UNCHANGED <<pc[q], op[q], cid[q], ret[q]>> /\ offered \subseteq offered'
    <2>1. PICK o \in Ops, c \in CID, b \in Body \cup {NoBody} : Call(r, o, c, b)
      BY SMTT(20), <1>3 DEF Enter
    <2>2. q # r
      BY Zenon, <1>1, <2>1 DEF Call, TypeOK
    <2> QED BY Zenon, <1>1, <2>1, <2>2 DEF Call, NoteCall, TypeOK
  <1>4. ASSUME NEW r \in Request, Step(r)
        PROVE  /\ UNCHANGED <<op, cid, offered>>
               /\ r # q => UNCHANGED <<pc[q], ret[q]>>
    <2>1. CASE Resolve(r)
      BY SMTT(20), <1>1, <2>1 DEF Resolve, Finish, histVars, TypeOK
    <2>2. ASSUME NEW s \in Side, NEW o \in AllOps, NEW reply \in Replies,
                 Asks(r, s, o, reply), Proceeds(r, s, reply)
          PROVE  /\ UNCHANGED <<op, cid, offered>>
                 /\ r # q => UNCHANGED <<pc[q], ret[q]>>
      BY <1>1, <2>2 DEF Asks, NoteReply, Proceeds, ToMirror, Finish, TypeOK
    <2> QED BY Zenon, <1>4, <2>1, <2>2, StepShape DEF StoreInv
  <1>5. ASSUME NEW r \in Request, Step(r)
        PROVE  /\ ret'[q] # "nil"
               /\ ret'[q] = "true" => \E p \in offered' : p[1] = cid'[q]
    <2>1. CASE r = q
      <3>1. op[q] = "exists" /\ cid'[q] = cid[q] /\ offered' = offered
        BY Zenon, <1>4, <1>5
      <3> QED BY Zenon, <1>5, <2>1, <3>1, ExistsStep
    <2>2. CASE r # q
      BY Zenon, <1>2, <1>4, <1>5, <2>2
    <2> QED BY <2>1, <2>2
  <1>6. ASSUME NEW rs \in SUBSET Request, Leave(rs), offered' = offered
        PROVE  UNCHANGED <<pc[q], op[q], cid[q], ret[q]>> /\ offered \subseteq offered'
    BY Zenon, <1>6 DEF Leave
  <1>7. CASE \E l \in late : ApplyLate(l)
    BY Zenon, <1>2, <1>7 DEF ApplyLate, callVars, histVars
  <1>8. CASE UNCHANGED vars
    BY Zenon, <1>2, <1>8 DEF vars, callVars, histVars
  <1> QED BY Zenon, <1>2, <1>3, <1>5, <1>6, <1>7, <1>8 DEF Next, Return, Crash

\* MirroredStore.Exists answers true only of what was pushed.
LEMMA ExistsGrounded == Spec => []ExistsIsGrounded
  <1>1. Init => ExistsIsGrounded
    BY DEF Init, ExistsIsGrounded
  <1>2. StoreInv /\ ExistsIsGrounded /\ [Next]_vars => ExistsIsGrounded'
    BY ExistsGroundsStep
  <1> QED BY <1>1, <1>2, StoreInvariant, PTL DEF Spec
=============================================================================
