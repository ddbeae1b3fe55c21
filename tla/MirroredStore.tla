--------------------------- MODULE MirroredStore ---------------------------
(***************************************************************************)
(* backends/mirrored.go: a BackendProvider over a primary and a mirror     *)
(* object store, called by the goroutines of concurrent HTTP requests.     *)
(*                                                                         *)
(* A method of MirroredStore is one call to the primary and, depending on  *)
(* its result, one call to the mirror, with no lock held: the calls of     *)
(* different requests interleave freely.  Each backend call is one action  *)
(* here; it happens atomically on the store when that store answers.  A    *)
(* call that times out is an error for the caller, but the store may       *)
(* still carry it out, after anything else: it waits in "late".  The       *)
(* process may crash between any two calls.                                *)
(*                                                                         *)
(* With MirrorKind = "none" there is no MirroredStore: main.go's           *)
(* initBackend returns the primary backend itself.                         *)
(***************************************************************************)
EXTENDS Backends, FiniteSets, Naturals

CONSTANTS
    Request,      \* goroutines that may be inside the store at the same time
    CID,          \* content identifiers
    Body,         \* byte strings
    NoBody,       \* no bytes: an absent object, an operation without data
    Ops,          \* the operations clients use, a subset of AllOps
    PrimaryKind,  \* cfg.Backend
    MirrorKind,   \* cfg.MirrorBackend, "none" when it is empty
    HasSigner,    \* whether the primary was given a URLSigner
    MaxLate       \* bound on the timed-out calls outstanding at one time

ASSUME ConstantsAssumption ==
    /\ CID # {}
    /\ NoBody \notin Body
    /\ Ops \subseteq AllOps
    /\ PrimaryKind \in Kinds
    /\ MirrorKind \in {"gcs", "rustfs", "none"}
    /\ HasSigner \in BOOLEAN
    /\ MaxLate \in Nat

Side == {"primary", "mirror"}

Mirrored == MirrorKind # "none"

KindOf(s) == IF s = "primary" THEN PrimaryKind ELSE MirrorKind

VARIABLES
    objects,  \* objects[s][c]: the bytes side s holds under c, or NoBody
    pinned,   \* pinned[s]: the objects of side s that carry the retention mark
    late,     \* timed-out calls that a side may still carry out
    pc,       \* where each request is in the method it is executing
    op, cid, body, \* the method and its arguments
    ret,      \* the method's err (or Boolean) so far
    data      \* the bytes Fetch returns

storeVars == <<objects, pinned, late>>
callVars  == <<pc, op, cid, body, ret, data>>

(* History of what clients could know, used only in the properties.  No    *)
(* action is enabled or disabled by it.                                    *)
VARIABLES
    settled,  \* settled[s]: CIDs written to side s with no Delete of them
              \* under way, and not the subject of a Delete since
    erased,   \* erased[s]: CIDs deleted on side s with no Push of them
              \* under way, and not the subject of a Push since
    steady,   \* steady[s]: requests whose CID was settled on s all along
    gone,     \* gone[s]: requests whose CID was erased on s all along
    offered,  \* the <<cid, bytes>> pairs some Push was called with
    acked     \* the pairs the primary acknowledged

histVars == <<settled, erased, steady, gone, offered, acked>>

vars == <<storeVars, callVars, histVars>>

LateCall == [side : Side, op : Mutators, cid : CID, body : Body \cup {NoBody}]

TypeOK ==
    /\ objects \in [Side -> [CID -> Body \cup {NoBody}]]
    /\ pinned \in [Side -> SUBSET CID]
    /\ late \subseteq LateCall
    /\ pc \in [Request -> {"idle", "primary", "mirror", "return"}]
    /\ op \in [Request -> AllOps]
    /\ cid \in [Request -> CID]
    /\ body \in [Request -> Body \cup {NoBody}]
    /\ ret \in [Request -> Results]
    /\ data \in [Request -> Body \cup {NoBody}]
    /\ settled \in [Side -> SUBSET CID]
    /\ erased \in [Side -> SUBSET CID]
    /\ steady \in [Side -> SUBSET Request]
    /\ gone \in [Side -> SUBSET Request]
    /\ offered \subseteq CID \X Body
    /\ acked \subseteq CID \X Body

AnyCID == CHOOSE c \in CID : TRUE

Init ==
    /\ objects = [s \in Side |-> [c \in CID |-> NoBody]]
    /\ pinned = [s \in Side |-> {}]
    /\ late = {}
    /\ pc = [r \in Request |-> "idle"]
    /\ op = [r \in Request |-> "healthy"]
    /\ cid = [r \in Request |-> AnyCID]
    /\ body = [r \in Request |-> NoBody]
    /\ ret = [r \in Request |-> "nil"]
    /\ data = [r \in Request |-> NoBody]
    /\ settled = [s \in Side |-> {}]
    /\ erased = [s \in Side |-> {}]
    /\ steady = [s \in Side |-> {}]
    /\ gone = [s \in Side |-> {}]
    /\ offered = {}
    /\ acked = {}

-----------------------------------------------------------------------------
(* The object store of one side, outside this repository *)

Holds(s, c) == objects[s][c] # NoBody

\* The store carries out operation o.  Whether the mark of a pinned object
\* survives an overwrite is left open: stores differ.
Effect(s, o, c, b) ==
    /\ objects' = CASE o = "push"   -> [objects EXCEPT ![s][c] = b]
                    [] o = "delete" -> [objects EXCEPT ![s][c] = NoBody]
                    [] OTHER        -> objects
    /\ CASE o = "push"   -> pinned' \in {pinned, [pinned EXCEPT ![s] = @ \ {c}]}
         [] o = "delete" -> pinned' = [pinned EXCEPT ![s] = @ \ {c}]
         [] o = "pin"    -> pinned' = [pinned EXCEPT ![s] = @ \cup {c}]
         [] OTHER        -> pinned' = pinned

\* Request r's call as it sits in the network after the client gave up.
Sent(r, s) == [side |-> s, op |-> op[r], cid |-> cid[r], body |-> body[r]]

\* One HTTP exchange of request r with side s.
Exchange(r, s, reply) ==
    \/ /\ reply = "ok"
       /\ Effect(s, op[r], cid[r], body[r])
       /\ UNCHANGED late
    \/ /\ reply = "timeout"
       /\ late' = late \cup {Sent(r, s)}
       /\ Cardinality(late') <= MaxLate
       /\ UNCHANGED <<objects, pinned>>
    \/ /\ reply \notin {"ok", "timeout"}
       /\ UNCHANGED storeVars

-----------------------------------------------------------------------------
(* Upkeep of the history variables *)

\* A call of operation o on c has yet to reach side s, or may reach it late.
PendingAt(s, o, c) ==
    \/ \E r \in Request : /\ op[r] = o /\ cid[r] = c
                          /\ pc[r] \in {"primary", s}
    \/ \E l \in late : l.side = s /\ l.op = o /\ l.cid = c

NoteCall(r, o, c, b) ==
    /\ settled' = [s \in Side |->
                      IF o = "delete" THEN settled[s] \ {c} ELSE settled[s]]
    /\ erased' = [s \in Side |->
                      IF o = "push" THEN erased[s] \ {c} ELSE erased[s]]
    /\ steady' = [s \in Side |->
                      {q \in steady[s] : ~(o = "delete" /\ cid[q] = c)} \cup
                      {q \in {r} : c \in settled'[s]}]
    /\ gone' = [s \in Side |->
                      {q \in gone[s] : ~(o = "push" /\ cid[q] = c)} \cup
                      {q \in {r} : c \in erased'[s]}]
    /\ offered' = offered \cup {p \in {<<c, b>>} : o = "push"}
    /\ UNCHANGED acked

NoteReply(r, s, reply) ==
    LET done(o) == reply = "ok" /\ op[r] = o IN
    /\ settled' = [settled EXCEPT ![s] = @ \cup
         {c \in {cid[r]} : done("push") /\ ~PendingAt(s, "delete", c)}]
    /\ erased' = [erased EXCEPT ![s] = @ \cup
         {c \in {cid[r]} : done("delete") /\ ~PendingAt(s, "push", c)}]
    /\ acked' = acked \cup
         {p \in {<<cid[r], body[r]>>} : done("push") /\ s = "primary"}
    /\ UNCHANGED <<steady, gone, offered>>

-----------------------------------------------------------------------------
(* backends/mirrored.go *)

\* A handler's goroutine enters method o.
Call(r, o, c, b) ==
    /\ pc[r] = "idle"
    /\ pc' = [pc EXCEPT ![r] = "primary"]
    /\ op' = [op EXCEPT ![r] = o]
    /\ cid' = [cid EXCEPT ![r] = c]
    /\ body' = [body EXCEPT ![r] = b]
    /\ NoteCall(r, o, c, b)
    /\ UNCHANGED <<storeVars, ret, data>>

\* Request r is about to call method o of side s, and gets this reply.
Asks(r, s, o, reply) ==
    /\ pc[r] = s
    /\ op[r] = o
    /\ reply \in RepliesOf(KindOf(s), o, Holds(s, cid[r]))
    /\ Exchange(r, s, reply)
    /\ NoteReply(r, s, reply)
    /\ UNCHANGED <<op, cid, body>>

ToMirror(r, err) ==
    /\ pc' = [pc EXCEPT ![r] = "mirror"]
    /\ ret' = [ret EXCEPT ![r] = err]
    /\ UNCHANGED data

Finish(r, err, bytes) ==
    /\ pc' = [pc EXCEPT ![r] = "return"]
    /\ ret' = [ret EXCEPT ![r] = err]
    /\ data' = [data EXCEPT ![r] = bytes]

\* Mutants: the mirror is written whatever the primary said; the mirror is
\* written while the primary is being asked.
PushPrimary_WritesBoth(r) ==
    \E reply \in Replies :
        /\ Asks(r, "primary", "push", reply)
        /\ ToMirror(r, ResultOf(PrimaryKind, "push", reply))

PushPrimary_Together(r) ==
    /\ pc[r] = "primary"
    /\ op[r] = "push"
    /\ Effect("mirror", "push", cid[r], body[r])
    /\ Finish(r, "err", NoBody)
    /\ UNCHANGED <<late, op, cid, body, histVars>>

\* The primary's error ends Push; the mirror's is only logged.
PushPrimary(r) ==
    \E reply \in Replies :
        LET err == ResultOf(PrimaryKind, "push", reply) IN
        /\ Asks(r, "primary", "push", reply)
        /\ IF err = "nil" /\ Mirrored THEN ToMirror(r, err)
                                      ELSE Finish(r, err, NoBody)

\* Mutant: a Push the mirror refused is taken back from the primary.
PushMirror_RollsBack(r) ==
    /\ pc[r] = "mirror"
    /\ op[r] = "push"
    /\ objects' = [objects EXCEPT !["primary"][cid[r]] = NoBody]
    /\ Finish(r, "err", NoBody)
    /\ UNCHANGED <<pinned, late, op, cid, body, histVars>>

PushMirror(r) ==
    \E reply \in Replies :
        /\ Asks(r, "mirror", "push", reply)
        /\ Finish(r, "nil", NoBody)

\* The bytes in hand after r fetched from side s.
Fetched(r, s, err) == IF err = "nil" THEN objects[s][cid[r]] ELSE NoBody

\* Mutant: an object the primary says it has not is not looked for elsewhere.
FetchPrimary_TrustsNotFound(r) ==
    \E reply \in Replies :
        LET err == ResultOf(PrimaryKind, "fetch", reply) IN
        /\ Asks(r, "primary", "fetch", reply)
        /\ IF err \notin {"nil", "notfound"} /\ Mirrored
           THEN ToMirror(r, err)
           ELSE Finish(r, err, Fetched(r, "primary", err))

\* Any error of the primary, "not found" included, is answered by the mirror.
FetchPrimary(r) ==
    \E reply \in Replies :
        LET err == ResultOf(PrimaryKind, "fetch", reply) IN
        /\ Asks(r, "primary", "fetch", reply)
        /\ IF err # "nil" /\ Mirrored
           THEN ToMirror(r, err)
           ELSE Finish(r, err, Fetched(r, "primary", err))

\* Mutant: read repair, what only the mirror has is written to the primary.
FetchMirror_Repairs(r) ==
    /\ pc[r] = "mirror"
    /\ op[r] = "fetch"
    /\ Holds("mirror", cid[r])
    /\ Effect("primary", "push", cid[r], objects["mirror"][cid[r]])
    /\ Finish(r, "nil", objects["mirror"][cid[r]])
    /\ UNCHANGED <<late, op, cid, body, histVars>>

FetchMirror(r) ==
    \E reply \in Replies :
        LET err == ResultOf(MirrorKind, "fetch", reply) IN
        /\ Asks(r, "mirror", "fetch", reply)
        /\ Finish(r, err, Fetched(r, "mirror", err))

\* Only a clean "yes" of the primary is final.
ExistsPrimary(r) ==
    \E reply \in Replies :
        LET answer == ResultOf(PrimaryKind, "exists", reply) IN
        /\ Asks(r, "primary", "exists", reply)
        /\ IF answer # "true" /\ Mirrored THEN ToMirror(r, answer)
                                          ELSE Finish(r, answer, NoBody)

ExistsMirror(r) ==
    \E reply \in Replies :
        /\ Asks(r, "mirror", "exists", reply)
        /\ Finish(r, ResultOf(MirrorKind, "exists", reply), NoBody)

\* Pin and Delete call both sides and return the primary's error.
BothPrimary(r, o) ==
    \E reply \in Replies :
        LET err == ResultOf(PrimaryKind, o, reply) IN
        /\ Asks(r, "primary", o, reply)
        /\ IF Mirrored THEN ToMirror(r, err) ELSE Finish(r, err, NoBody)

\* Mutant: the last error wins.
BothMirror_LastError(r, o) ==
    \E reply \in Replies :
        /\ Asks(r, "mirror", o, reply)
        /\ Finish(r, ResultOf(MirrorKind, o, reply), NoBody)

BothMirror(r, o) ==
    \E reply \in Replies :
        /\ Asks(r, "mirror", o, reply)
        /\ Finish(r, ret[r], NoBody)

PinPrimary(r) == BothPrimary(r, "pin")
PinMirror(r) == BothMirror(r, "pin")
DeletePrimary(r) == BothPrimary(r, "delete")
DeleteMirror(r) == BothMirror(r, "delete")

\* Signing is local to the primary's signer; no request is sent.  A backend
\* without a signer refuses, the in-memory one needs none.
ResolveResults ==
    IF PrimaryKind = "memory" THEN {"nil"}
    ELSE IF HasSigner THEN {"nil", "err"} ELSE {"nosigner"}

Resolve(r) ==
    /\ pc[r] = "primary"
    /\ op[r] = "resolve"
    /\ \E err \in ResolveResults : Finish(r, err, NoBody)
    /\ UNCHANGED <<storeVars, op, cid, body, histVars>>

HealthyPrimary(r) ==
    \E reply \in Replies :
        LET err == ResultOf(PrimaryKind, "healthy", reply) IN
        /\ Asks(r, "primary", "healthy", reply)
        /\ IF err = "nil" /\ Mirrored THEN ToMirror(r, err)
                                      ELSE Finish(r, err, NoBody)

HealthyMirror(r) ==
    \E reply \in Replies :
        /\ Asks(r, "mirror", "healthy", reply)
        /\ Finish(r, ResultOf(MirrorKind, "healthy", reply), NoBody)

\* Request rs leave the store.
Leave(rs) ==
    LET reset(f, v) == [r \in Request |-> IF r \in rs THEN v ELSE f[r]] IN
    /\ pc' = reset(pc, "idle")
    /\ op' = reset(op, "healthy")
    /\ cid' = reset(cid, AnyCID)
    /\ body' = reset(body, NoBody)
    /\ ret' = reset(ret, "nil")
    /\ data' = reset(data, NoBody)
    /\ steady' = [s \in Side |-> steady[s] \ rs]
    /\ gone' = [s \in Side |-> gone[s] \ rs]

\* The handler takes the result.
Return(r) ==
    /\ pc[r] = "return"
    /\ Leave({r})
    /\ UNCHANGED <<storeVars, settled, erased, offered, acked>>

-----------------------------------------------------------------------------
(* The environment *)

\* A side carries out a call its client has given up on.
ApplyLate(l) ==
    /\ l \in late
    /\ late' = late \ {l}
    /\ IF l.op = "pin" /\ ~Holds(l.side, l.cid)
       THEN UNCHANGED <<objects, pinned>>
       ELSE Effect(l.side, l.op, l.cid, l.body)
    /\ UNCHANGED <<callVars, histVars>>

\* The process dies and is restarted.  Requests vanish wherever they are;
\* one that was on the wire may still be carried out.  An in-memory side
\* starts empty.
InMemory(s) == KindOf(s) = "memory"

Crash ==
    /\ Leave(Request)
    /\ \E sent \in SUBSET {r \in Request : /\ pc[r] \in Side
                                          /\ op[r] \in Mutators
                                          /\ ~InMemory(pc[r])} :
          late' = late \cup {Sent(r, pc[r]) : r \in sent}
    /\ Cardinality(late') <= MaxLate
    /\ objects' = [s \in Side |-> IF InMemory(s) THEN [c \in CID |-> NoBody]
                                                ELSE objects[s]]
    /\ pinned' = [s \in Side |-> IF InMemory(s) THEN {} ELSE pinned[s]]
    /\ settled' = [s \in Side |-> IF InMemory(s) THEN {} ELSE settled[s]]
    /\ UNCHANGED <<erased, offered, acked>>

-----------------------------------------------------------------------------
Enter(r) ==
    \E o \in Ops, c \in CID :
        \/ o = "push" /\ \E b \in Body : Call(r, o, c, b)
        \/ o # "push" /\ Call(r, o, c, NoBody)

\* One step of the code between a method's entry and its return.
Step(r) ==
    \/ PushPrimary(r)    \/ PushMirror(r)
    \/ FetchPrimary(r)   \/ FetchMirror(r)
    \/ ExistsPrimary(r)  \/ ExistsMirror(r)
    \/ PinPrimary(r)     \/ PinMirror(r)
    \/ DeletePrimary(r)  \/ DeleteMirror(r)
    \/ HealthyPrimary(r) \/ HealthyMirror(r)
    \/ Resolve(r)

Next ==
    \/ \E r \in Request : Enter(r) \/ Step(r) \/ Return(r)
    \/ \E l \in late : ApplyLate(l)
    \/ Crash

Spec == Init /\ [][Next]_vars

-----------------------------------------------------------------------------
(* Properties *)

ActiveSides == {s \in Side : s = "primary" \/ Mirrored}

\* Once a side has acknowledged the write of c while no Delete of c was under
\* way, that side keeps c until the next Delete of c is called: no crash, no
\* other Push, no late call of another request takes it away.
DurableWrites ==
    \A s \in Side : \A c \in settled[s] : Holds(s, c)

\* Once a side has acknowledged the deletion of c while no Push of c was under
\* way, c does not come back on that side before the next Push of c is
\* called, whatever late writes and retries of other requests land.
DeletedStaysDeleted ==
    \A s \in Side : \A c \in erased[s] : ~Holds(s, c)

\* Push writes the mirror only after the primary acknowledged the same bytes,
\* so the mirror never holds content the primary did not accept.
MirrorFollowsPrimary ==
    \A c \in CID : Holds("mirror", c) => <<c, objects["mirror"][c]>> \in acked

\* Success has grounds: Push returns nil only if the primary acknowledged these
\* very bytes, Fetch only with bytes that were pushed under the CID.
SuccessHasGrounds ==
    \A r \in Request :
        pc[r] = "return" /\ ret[r] = "nil" =>
            /\ op[r] = "push"  => <<cid[r], body[r]>> \in acked
            /\ op[r] = "fetch" => <<cid[r], data[r]>> \in offered

\* Fetch and Exists answer "here" only if some side may hold the object: never
\* while it was deleted on every side throughout the call.
NoReadOfDeleted ==
    \A r \in Request :
        /\ pc[r] = "return"
        /\ \A s \in ActiveSides : r \in gone[s]
        => ~(op[r] = "fetch" /\ ret[r] = "nil") /\ ret[r] # "true"

\* Fetch says "not found" only if some side lacked the object at some time
\* during the call.  (RustFS answers 403 for objects it will not show and
\* rustfs.go makes "not found" of it, so such a side is excepted.)
FetchNotFoundIsHonest ==
    \A r \in Request :
        /\ pc[r] = "return"
        /\ op[r] = "fetch"
        /\ ret[r] = "notfound"
        => \E s \in ActiveSides : r \notin steady[s] \/ KindOf(s) = "rustfs"

\* Pin reports "not found" only if the primary lacked the object at some time
\* during the call; the state of the mirror never shows in Pin's result.
PinNotFoundIsHonest ==
    \A r \in Request :
        pc[r] = "return" /\ op[r] = "pin" /\ ret[r] = "notfound"
        => r \notin steady["primary"]

\* "Fetch returns storage.ErrContentNotFound for missing CIDs": an object the
\* primary held throughout the call is not reported missing.
NotFoundMeansAbsent ==
    \A r \in Request :
        pc[r] = "return" /\ op[r] = "fetch" /\ ret[r] = "notfound"
        => r \notin steady["primary"]

\* "Returns 200 (exists) or 404 (not found)": Exists does not say no of an
\* object that every side held throughout the call.
ExistsNoIsHonest ==
    \A r \in Request :
        pc[r] = "return" /\ op[r] = "exists" /\ ret[r] = "false"
        => \E s \in ActiveSides : r \notin steady[s]

-----------------------------------------------------------------------------
(* The inductive invariant: why the properties above hold *)

\* What is settled is held, and nothing on its way can delete it.
SettledIsSafe ==
    \A s \in Side : \A c \in settled[s] :
        Holds(s, c) /\ ~PendingAt(s, "delete", c)

\* What is erased is absent, and nothing on its way can bring it back.
ErasedIsSafe ==
    \A s \in Side : \A c \in erased[s] :
        ~Holds(s, c) /\ ~PendingAt(s, "push", c)

\* All bytes, stored, in flight or in a reader's hands, were offered.
BytesWereOffered ==
    /\ \A s \in Side, c \in CID : Holds(s, c) => <<c, objects[s][c]>> \in offered
    /\ \A l \in late : l.op = "push" => <<l.cid, l.body>> \in offered
    /\ \A r \in Request : op[r] = "push" => <<cid[r], body[r]>> \in offered
    /\ \A r \in Request :
           data[r] # NoBody => pc[r] = "return" /\ <<cid[r], data[r]>> \in offered

\* All bytes at the mirror or on their way to it were acknowledged by the
\* primary, and only a mirrored store has requests there.
MirrorWasAcked ==
    /\ \A c \in CID : Holds("mirror", c) => <<c, objects["mirror"][c]>> \in acked
    /\ \A l \in late :
           l.side = "mirror" /\ l.op = "push" => <<l.cid, l.body>> \in acked
    /\ \A r \in Request :
           pc[r] = "mirror" /\ op[r] = "push" => <<cid[r], body[r]>> \in acked
    /\ \A r \in Request : pc[r] = "mirror" => Mirrored

\* A steady request's CID is settled now, a gone one's is erased now.
CallsAreTracked ==
    \A s \in Side, r \in Request :
        /\ r \in steady[s] => pc[r] # "idle" /\ cid[r] \in settled[s]
        /\ r \in gone[s] => pc[r] # "idle" /\ cid[r] \in erased[s]

StoreInv ==
    /\ TypeOK
    /\ SettledIsSafe
    /\ ErasedIsSafe
    /\ BytesWereOffered
    /\ MirrorWasAcked
    /\ CallsAreTracked
=============================================================================
