----------------------------- MODULE KeyService -----------------------------
(***************************************************************************)
(* What an artifact.ArtifactKeyService promises, whoever keeps the keys:   *)
(* the contract keyservice/doc.go describes and that VaultTransit, GCPKMS  *)
(* and PKCS11 are each shown to implement.                                 *)
(*                                                                         *)
(* A key is usable or it is not; how many parts it has, where they are and *)
(* in which order they come and go is up to the implementation.  A method  *)
(* takes effect between its call and its return, and a method that fails   *)
(* may have taken effect in part.                                          *)
(***************************************************************************)
CONSTANTS
    Request,  \* callers
    CID,      \* artifacts
    NoCID     \* storage.CID{}

Methods == {"generate", "decrypt", "wrap", "rotate", "delete"}

Errors == {"nil", "notfound", "unavailable", "mismatch", "err"}

VARIABLES
    usable,   \* artifacts that can be decrypted
    issued,   \* artifacts whose CID some caller was given
    doomed,   \* artifacts somebody has begun to delete
    erased,   \* artifacts whose deletion was reported complete
    op,       \* the method a caller is in
    cid,      \* its argument
    seen,     \* whether it found the key of its argument usable
    made,     \* the artifact it completed, NoCID if none
    out       \* "idle", "busy", or the error the method returns

vars == <<usable, issued, doomed, erased, op, cid, seen, made, out>>

TypeOK ==
    /\ usable \subseteq CID
    /\ issued \subseteq CID
    /\ doomed \subseteq CID
    /\ erased \subseteq CID
    /\ op \in [Request -> Methods]
    /\ cid \in [Request -> CID \cup {NoCID}]
    /\ seen \in [Request -> BOOLEAN]
    /\ made \in [Request -> CID \cup {NoCID}]
    /\ out \in [Request -> Errors \cup {"idle", "busy"}]

Init ==
    /\ usable = {}
    /\ issued = {}
    /\ doomed = {}
    /\ erased = {}
    /\ op = [r \in Request |-> "decrypt"]
    /\ cid = [r \in Request |-> NoCID]
    /\ seen = [r \in Request |-> FALSE]
    /\ made = [r \in Request |-> NoCID]
    /\ out = [r \in Request |-> "idle"]

-----------------------------------------------------------------------------
\* An artifact no caller was given or is about to be given.
Unclaimed(c) == c \notin issued /\ \A r \in Request : made[r] # c

\* The artifacts whose keys the service may give up: those being deleted, and
\* those nobody was given.
Expendable == {c \in CID : c \in doomed \/ Unclaimed(c)}

\* Some of them are given up, possibly none.
LoseSome == usable' \subseteq usable /\ usable \ usable' \subseteq Expendable

Begin(r, o, c) ==
    /\ (c = NoCID) <=> (o = "generate")
    /\ c \in issued \cup {NoCID}
    /\ out' = [out EXCEPT ![r] = "busy"]
    /\ op' = [op EXCEPT ![r] = o]
    /\ cid' = [cid EXCEPT ![r] = c]
    /\ doomed' = IF o = "delete" THEN doomed \cup {c} ELSE doomed
    /\ UNCHANGED <<usable, issued, erased, seen, made>>

\* The arguments are refused.
Decline(r, o) ==
    /\ out' = [out EXCEPT ![r] = "err"]
    /\ op' = [op EXCEPT ![r] = o]
    /\ UNCHANGED <<usable, issued, doomed, erased, cid, seen, made>>

\* The method gets hold of its argument's key.
See(r) ==
    /\ op[r] \in {"decrypt", "wrap", "rotate"}
    /\ cid[r] \in usable
    /\ seen' = [seen EXCEPT ![r] = TRUE]
    /\ UNCHANGED <<usable, issued, doomed, erased, op, cid, made, out>>

\* A key that no method ever returns comes into being: the creation it belongs
\* to was reported failed.
Stray(c) ==
    /\ Unclaimed(c)
    /\ usable' = usable \cup {c}
    /\ UNCHANGED <<issued, doomed, erased, op, cid, seen, made, out>>

Forget ==
    /\ LoseSome
    /\ UNCHANGED <<issued, doomed, erased, op, cid, seen, made, out>>

\* Rotate has made the new artifact and turns to the old one.
Renew(r, n) ==
    /\ op[r] = "rotate"
    /\ seen[r]
    /\ made[r] = NoCID
    /\ Unclaimed(n)
    /\ usable' = usable \cup {n}
    /\ made' = [made EXCEPT ![r] = n]
    /\ doomed' = doomed \cup {cid[r]}
    /\ UNCHANGED <<issued, erased, op, cid, seen, out>>

-----------------------------------------------------------------------------
(* The outcomes of a method *)

Conclude(r, e) ==
    /\ out' = [out EXCEPT ![r] = e]
    /\ seen' = [seen EXCEPT ![r] = FALSE]
    /\ UNCHANGED <<issued, doomed, erased, op, cid>>

\* Decrypt and WrapForRecipient succeed only with a key that was usable at
\* some time during the call.
Serve(r) ==
    /\ op[r] \in {"decrypt", "wrap"}
    /\ seen[r]
    /\ Conclude(r, "nil")
    /\ UNCHANGED <<usable, made>>

\* GenerateAndEncrypt returns an artifact that is usable and new.
Generate(r, n) ==
    /\ op[r] = "generate"
    /\ Unclaimed(n)
    /\ usable' = usable \cup {n}
    /\ made' = [made EXCEPT ![r] = n]
    /\ Conclude(r, "nil")

\* Delete, and a Rotate that made its new artifact, return nil only when the
\* old key is gone.
Erase(r) ==
    /\ op[r] \in {"delete", "rotate"}
    /\ op[r] = "rotate" => made[r] # NoCID
    /\ usable' = usable \ {cid[r]}
    /\ Conclude(r, "nil")
    /\ UNCHANGED made

\* ErrKeyNotFound is for a key somebody has begun to delete.
NotFound(r) ==
    /\ op[r] \in {"decrypt", "wrap", "rotate"}
    /\ cid[r] \in doomed
    /\ Conclude(r, "notfound")
    /\ UNCHANGED <<usable, made>>

\* Any other error says nothing.
Fail(r, e) ==
    /\ e \in Errors \ {"nil", "notfound"}
    /\ Conclude(r, e)
    /\ LoseSome
    /\ UNCHANGED made

\* Callers rs are done.
Leave(rs) ==
    LET reset(f, v) == [r \in Request |-> IF r \in rs THEN v ELSE f[r]] IN
    /\ op' = reset(op, "decrypt")
    /\ cid' = reset(cid, NoCID)
    /\ seen' = reset(seen, FALSE)
    /\ made' = reset(made, NoCID)
    /\ out' = reset(out, "idle")

\* The caller takes the result.
Return(r) ==
    /\ out[r] \in Errors
    /\ Leave({r})
    /\ issued' = issued \cup ({made[r]} \ {NoCID})
    /\ erased' = erased \cup
         {c \in {cid[r]} : op[r] \in {"delete", "rotate"} /\ out[r] = "nil"}
    /\ UNCHANGED <<usable, doomed>>

\* A process dies with the calls rs in it.
Abandon(rs) ==
    /\ Leave(rs)
    /\ UNCHANGED <<usable, issued, doomed, erased>>

\* A call of a caller that is in none.
Enter(r) ==
    /\ out[r] = "idle"
    /\ \/ \E o \in Methods, c \in issued \cup {NoCID} : Begin(r, o, c)
       \/ \E o \in {"generate", "wrap"} : Decline(r, o)

\* A step of a method, or its end.
Proceed(r) ==
    /\ out[r] = "busy"
    /\ \/ See(r) \/ Serve(r) \/ Erase(r) \/ NotFound(r)
       \/ \E n \in CID : Renew(r, n) \/ Generate(r, n)
       \/ \E e \in Errors : Fail(r, e)

Next ==
    \/ \E r \in Request : Enter(r) \/ Proceed(r) \/ Return(r)
    \/ \E c \in CID : Stray(c)
    \/ Forget
    \/ \E rs \in SUBSET Request : Abandon(rs)

Spec == Init /\ [][Next]_vars

-----------------------------------------------------------------------------
(* What its callers may rely on *)

\* An artifact whose CID was given to a caller can be decrypted until somebody
\* begins to delete it.
KeysLast == issued \ doomed \subseteq usable

\* Cryptographic erasure: once Delete or Rotate reported an artifact erased,
\* its key never comes back.
ErasureLasts == erased \cap usable = {}

\* ErrKeyNotFound is the answer only for a key somebody has begun to delete.
NotFoundIsHonest == \A r \in Request : out[r] = "notfound" => cid[r] \in doomed

\* The artifact that GenerateAndEncrypt or Rotate is about to return can be
\* decrypted, and is no artifact that anybody else has or is about to get.
ResultsAreFresh ==
    \A r \in Request : made[r] # NoCID =>
        /\ made[r] \in usable
        /\ made[r] \notin issued
        /\ \A q \in Request \ {r} : made[q] # made[r]
=============================================================================
