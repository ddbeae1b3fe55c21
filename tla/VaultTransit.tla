---------------------------- MODULE VaultTransit ----------------------------
(***************************************************************************)
(* keyservice/vault.go and vault_api.go: per-artifact keys in HashiCorp    *)
(* Vault.                                                                  *)
(*                                                                         *)
(* An artifact's key is usable while Vault has both parts of it: the       *)
(* Transit key named after the CID, and the wrapped data key in kv-v2.  A  *)
(* method of VaultTransit is a sequence of HTTP calls to Vault, one action *)
(* each; it holds no lock meanwhile, so the calls of concurrent methods    *)
(* interleave.  A call whose reply is lost may still be carried out, at    *)
(* any later time, and the process may crash between two calls.            *)
(*                                                                         *)
(* Every GenerateAndEncrypt draws a fresh CID: the hash of a ciphertext    *)
(* under a random key.  Plaintexts, ciphertexts and pathCache, which is    *)
(* written and never read, are left out.                                   *)
(***************************************************************************)
EXTENDS FiniteSets, Naturals

CONSTANTS
    Request,  \* goroutines inside the key service
    CID,      \* the pool of CIDs, a bound on the number of artifacts
    NoCID,    \* storage.CID{}
    Faults,   \* what may go wrong between the service and Vault
    MaxLate   \* bound on the lost calls outstanding at one time

Methods == {"generate", "decrypt", "wrap", "rotate", "delete"}

\* "refused" is a 4xx other than 404, "failed" a 5xx; the last two are no reply.
AllFaults == {"refused", "failed", "unreachable", "lost"}

ASSUME VaultAssumption ==
    /\ NoCID \notin CID
    /\ Faults \subseteq AllFaults
    /\ MaxLate \in Nat

\* The calls that change Vault.
Changes == {"create", "put", "kvdelete", "allow", "destroy"}

Calls == Changes \cup {"encrypt", "kvget", "unwrap", "probe"}

Errors == {"nil", "notfound", "unavailable", "mismatch", "err"}

VARIABLES
    keys,      \* CIDs that have a Transit key
    allowed,   \* CIDs whose Transit key has deletion_allowed set
    kv,        \* CIDs that have a wrapped data key in kv-v2
    late,      \* lost calls that Vault may still carry out
    pc,        \* the Vault call each request makes next
    op,        \* the method it executes
    cid,       \* the method's argument
    new,       \* the CID of the artifact it creates, NoCID when it has none
    undo,      \* whether it is rolling back the creation of new
    err        \* the method's error so far

vaultVars == <<keys, allowed, kv, late>>
callVars  == <<pc, op, cid, new, undo, err>>

(* History, used only in the properties; it disables no action.  issued    *)
(* also says which CIDs clients know and so may ask for.                   *)
VARIABLES
    used,      \* CIDs ever drawn
    issued,    \* CIDs returned to a caller
    doomed,    \* CIDs somebody has begun to delete
    erased,    \* CIDs whose deletion was reported complete
    excused    \* CIDs whose creation was cut off by a crash or by a failure
               \* of the create call or of the rollback itself

histVars == <<used, issued, doomed, erased, excused>>

vars == <<vaultVars, callVars, histVars>>

TypeOK ==
    /\ keys \subseteq CID
    /\ allowed \subseteq CID
    /\ kv \subseteq CID
    /\ late \subseteq [call : Changes, cid : CID]
    /\ pc \in [Request -> Calls \cup {"idle", "return"}]
    /\ op \in [Request -> Methods]
    /\ cid \in [Request -> CID \cup {NoCID}]
    /\ new \in [Request -> CID \cup {NoCID}]
    /\ undo \in [Request -> BOOLEAN]
    /\ err \in [Request -> Errors]
    /\ used \subseteq CID
    /\ issued \subseteq CID
    /\ doomed \subseteq CID
    /\ erased \subseteq CID
    /\ excused \subseteq CID

Init ==
    /\ keys = {}
    /\ allowed = {}
    /\ kv = {}
    /\ late = {}
    /\ pc = [r \in Request |-> "idle"]
    /\ op = [r \in Request |-> "decrypt"]
    /\ cid = [r \in Request |-> NoCID]
    /\ new = [r \in Request |-> NoCID]
    /\ undo = [r \in Request |-> FALSE]
    /\ err = [r \in Request |-> "nil"]
    /\ used = {}
    /\ issued = {}
    /\ doomed = {}
    /\ erased = {}
    /\ excused = {}

-----------------------------------------------------------------------------
(* Vault, outside this repository *)

\* What Vault answers when nothing goes wrong.  It answers 400, not 404, when
\* a key that does not exist is configured, deleted or used; deleting kv
\* metadata that is not there may be answered either way.
Answers(call, c) ==
    CASE call \in {"create", "put"}      -> {"ok"}
      [] call = "kvdelete"               -> IF c \in kv THEN {"ok"} ELSE {"ok", "missing"}
      [] call = "kvget"                  -> IF c \in kv THEN {"ok"} ELSE {"missing"}
      [] call = "probe"                  -> IF c \in keys THEN {"ok"} ELSE {"missing"}
      [] call \in {"encrypt", "allow"}   -> IF c \in keys THEN {"ok"} ELSE {"refused"}
      [] call = "unwrap"                 -> IF c \in keys THEN {"ok"}
                                                          ELSE {"missing", "refused"}
      [] call = "destroy"                -> IF c \in keys \cap allowed THEN {"ok"}
                                            ELSE IF c \in keys THEN {"refused"}
                                            ELSE {"refused", "missing"}

\* Vault carries out a call it accepted.
Effect(call, c) ==
    /\ keys' = CASE call = "create"  -> keys \cup {c}
                 [] call = "destroy" -> keys \ {c}
                 [] OTHER            -> keys
    /\ allowed' = CASE call = "allow"   -> allowed \cup {c}
                    [] call = "destroy" -> allowed \ {c}
                    [] OTHER            -> allowed
    /\ kv' = CASE call = "put"      -> kv \cup {c}
               [] call = "kvdelete" -> kv \ {c}
               [] OTHER             -> kv

-----------------------------------------------------------------------------
(* One Vault call *)

\* VaultTransit.do, and the reply it gets.
Do(r, call, c, reply) ==
    /\ pc[r] = call
    /\ \/ /\ reply \in Answers(call, c)
          /\ IF reply = "ok" THEN Effect(call, c) ELSE UNCHANGED <<keys, allowed, kv>>
          /\ UNCHANGED late
       \/ /\ reply \in Faults \ {"lost"}
          /\ UNCHANGED vaultVars
       \/ /\ reply = "lost"
          /\ "lost" \in Faults
          /\ call \in Changes
          /\ late' = late \cup {[call |-> call, cid |-> c]}
          /\ Cardinality(late') <= MaxLate
          /\ UNCHANGED <<keys, allowed, kv>>

Replies == {"ok", "missing"} \cup AllFaults

\* Mutants: whatever goes wrong is a missing key; the class of the reply is
\* returned as it is.
fmtVaultErr_NotFound(reply) == "notfound"

fmtVaultErr_Raw(reply) == reply

\* The error of a call that was not answered as hoped: a 5xx, and a transport
\* error, wrap ErrServiceUnavailable.
fmtVaultErr(reply) ==
    IF reply \in {"failed", "unreachable", "lost"} THEN "unavailable" ELSE "err"

Goto(r, call) ==
    /\ pc' = [pc EXCEPT ![r] = call]
    /\ UNCHANGED <<op, cid, new, undo, err>>

\* The method returns error e, and CID n when it made an artifact.
Finish(r, e, n) ==
    /\ pc' = [pc EXCEPT ![r] = "return"]
    /\ err' = [err EXCEPT ![r] = e]
    /\ new' = [new EXCEPT ![r] = n]
    /\ undo' = [undo EXCEPT ![r] = FALSE]
    /\ UNCHANGED <<op, cid>>

-----------------------------------------------------------------------------
(* GenerateAndEncrypt, and the second half of Rotate *)

\* No key was made as far as the code knows: nothing is rolled back.
TransitCreateKey(r) ==
    \E reply \in Replies :
        /\ Do(r, "create", new[r], reply)
        /\ IF reply = "ok"
           THEN Goto(r, "encrypt") /\ UNCHANGED excused
           ELSE /\ Finish(r, fmtVaultErr(reply), NoCID)
                /\ excused' = excused \cup {new[r]}
        /\ UNCHANGED <<used, issued, doomed, erased>>

\* transitDeleteKey(new) follows, then the error e is returned.
Rollback(r, e) ==
    /\ pc' = [pc EXCEPT ![r] = "probe"]
    /\ undo' = [undo EXCEPT ![r] = TRUE]
    /\ err' = [err EXCEPT ![r] = e]
    /\ UNCHANGED <<op, cid, new>>

\* A reply without a ciphertext counts as refused.
TransitEncrypt(r) ==
    \E reply \in Replies :
        /\ Do(r, "encrypt", new[r], reply)
        /\ IF reply = "ok" THEN Goto(r, "put") ELSE Rollback(r, fmtVaultErr(reply))
        /\ UNCHANGED histVars

\* Mutant: the Transit key is left behind when the kv-v2 write fails.
KvPutWrapped_NoRollback(r) ==
    \E reply \in Replies :
        /\ Do(r, "put", new[r], reply)
        /\ IF reply = "ok" THEN Finish(r, "nil", new[r])
                           ELSE Finish(r, fmtVaultErr(reply), NoCID)
        /\ UNCHANGED histVars

\* The artifact is complete.  Rotate goes on to delete the old one.
KvPutWrapped(r) ==
    \E reply \in Replies :
        /\ Do(r, "put", new[r], reply)
        /\ IF reply # "ok"
           THEN Rollback(r, fmtVaultErr(reply)) /\ UNCHANGED doomed
           ELSE IF op[r] = "rotate"
           THEN Goto(r, "kvdelete") /\ doomed' = doomed \cup {cid[r]}
           ELSE Finish(r, "nil", new[r]) /\ UNCHANGED doomed
        /\ UNCHANGED <<used, issued, erased, excused>>

-----------------------------------------------------------------------------
(* Decrypt, WrapForRecipient, and the first half of Rotate *)

\* Mutant: the body of a 404 is taken for the wrapped key.
KvGetWrapped_IgnoresStatus(r) ==
    \E reply \in Replies :
        /\ Do(r, "kvget", cid[r], reply)
        /\ IF reply \in {"ok", "missing"} THEN Goto(r, "unwrap")
                                         ELSE Finish(r, fmtVaultErr(reply), NoCID)
        /\ UNCHANGED histVars

KvGetWrapped(r) ==
    \E reply \in Replies :
        /\ Do(r, "kvget", cid[r], reply)
        /\ CASE reply = "ok"      -> Goto(r, "unwrap")
             [] reply = "missing" -> Finish(r, "notfound", NoCID)
             [] OTHER             -> Finish(r, fmtVaultErr(reply), NoCID)
        /\ UNCHANGED histVars

\* Mutant: Rotate deletes the old artifact first.
TransitDecrypt_DeleteFirst(r) ==
    \E reply \in Replies :
        /\ Do(r, "unwrap", cid[r], reply)
        /\ IF reply = "ok" /\ op[r] = "rotate" THEN Goto(r, "kvdelete")
           ELSE Finish(r, IF reply = "ok" THEN "nil" ELSE fmtVaultErr(reply), new[r])
        /\ UNCHANGED histVars

\* The data key is in hand.  The caller's ciphertext may not be the one it
\* was made for, or a local step may fail; Rotate encrypts the plaintext anew.
TransitDecrypt(r) ==
    \E reply \in Replies :
        /\ Do(r, "unwrap", cid[r], reply)
        /\ CASE reply = "ok" ->
                  \/ /\ op[r] = "rotate"
                     /\ Goto(r, "create")
                  \/ /\ op[r] # "rotate"
                     /\ Finish(r, "nil", NoCID)
                  \/ \E e \in {"mismatch", "err"} :
                        /\ op[r] = "wrap" => e = "err"
                        /\ Finish(r, e, NoCID)
             [] reply = "missing" -> Finish(r, "notfound", NoCID)
             [] OTHER             -> Finish(r, fmtVaultErr(reply), NoCID)
        /\ UNCHANGED histVars

-----------------------------------------------------------------------------
(* Delete, and the end of Rotate *)

\* Delete's error; Rotate returns the new artifact with it.
DeleteFails(r, e) == Finish(r, e, new[r]) /\ UNCHANGED excused

\* An entry that is already gone is no error.
KvDeleteMetadata(r) ==
    \E reply \in Replies :
        /\ Do(r, "kvdelete", cid[r], reply)
        /\ IF reply \in {"ok", "missing"}
           THEN Goto(r, "probe") /\ UNCHANGED excused
           ELSE DeleteFails(r, fmtVaultErr(reply))
        /\ UNCHANGED <<used, issued, doomed, erased>>

\* Mutant: Rotate rolls back the artifact it was given.
Target_OldInRotate(r) ==
    IF undo[r] /\ op[r] = "generate" THEN new[r] ELSE cid[r]

\* transitDeleteKey deletes the old key, or the new one in a rollback.
Target(r) == IF undo[r] THEN new[r] ELSE cid[r]

\* transitDeleteKey returned nil or errVaultNotFound.
KeyDeleted(r) ==
    /\ IF undo[r]
       THEN Finish(r, err[r], NoCID)
       ELSE Finish(r, "nil", new[r])
    /\ UNCHANGED excused

\* Mutant: Delete takes an error of transitDeleteKey for a key that is gone.
KeyNotDeleted_Ignored(r, e) ==
    IF undo[r]
    THEN /\ Finish(r, err[r], NoCID)
         /\ excused' = excused \cup {new[r]}
    ELSE KeyDeleted(r)

\* It returned another error, which a rollback swallows.
KeyNotDeleted(r, e) ==
    IF undo[r]
    THEN /\ Finish(r, err[r], NoCID)
         /\ excused' = excused \cup {new[r]}
    ELSE DeleteFails(r, e)

\* The existence check of transitDeleteKey.
TransitProbe(r) ==
    \E reply \in Replies :
        /\ Do(r, "probe", Target(r), reply)
        /\ CASE reply = "ok"      -> Goto(r, "allow") /\ UNCHANGED excused
             [] reply = "missing" -> KeyDeleted(r)
             [] OTHER             -> KeyNotDeleted(r, fmtVaultErr(reply))
        /\ UNCHANGED <<used, issued, doomed, erased>>

\* Its POST of deletion_allowed.
TransitAllow(r) ==
    \E reply \in Replies :
        /\ Do(r, "allow", Target(r), reply)
        /\ IF reply = "ok" THEN Goto(r, "destroy") /\ UNCHANGED excused
                           ELSE KeyNotDeleted(r, fmtVaultErr(reply))
        /\ UNCHANGED <<used, issued, doomed, erased>>

\* Its DELETE.
TransitDestroy(r) ==
    \E reply \in Replies :
        /\ Do(r, "destroy", Target(r), reply)
        /\ IF reply \in {"ok", "missing"} THEN KeyDeleted(r)
                                          ELSE KeyNotDeleted(r, fmtVaultErr(reply))
        /\ UNCHANGED <<used, issued, doomed, erased>>

-----------------------------------------------------------------------------
(* Callers *)

\* A method is called.  Clients know the CIDs that were issued to them.
Call(r) ==
    /\ pc[r] = "idle"
    /\ \E o \in Methods, c \in issued \cup {NoCID}, n \in (CID \ used) \cup {NoCID} :
          /\ (c = NoCID) <=> (o = "generate")
          /\ (n = NoCID) <=> (o \notin {"generate", "rotate"})
          /\ pc' = [pc EXCEPT ![r] = CASE o = "generate" -> "create"
                                       [] o = "delete"   -> "kvdelete"
                                       [] OTHER          -> "kvget"]
          /\ op' = [op EXCEPT ![r] = o]
          /\ cid' = [cid EXCEPT ![r] = c]
          /\ new' = [new EXCEPT ![r] = n]
          /\ used' = used \cup ({n} \ {NoCID})
          /\ doomed' = doomed \cup {d \in {c} : o = "delete"}
    /\ UNCHANGED <<vaultVars, undo, err, issued, erased, excused>>

\* A method returns before it reaches Vault: no randomness, a failed seal, a
\* recipient key that does not parse.
Reject(r) ==
    /\ pc[r] = "idle"
    /\ \E o \in {"generate", "wrap"} : op' = [op EXCEPT ![r] = o]
    /\ pc' = [pc EXCEPT ![r] = "return"]
    /\ err' = [err EXCEPT ![r] = "err"]
    /\ UNCHANGED <<vaultVars, cid, new, undo, histVars>>

\* Requests rs leave the service.
Leave(rs) ==
    LET reset(f, v) == [r \in Request |-> IF r \in rs THEN v ELSE f[r]] IN
    /\ pc' = reset(pc, "idle")
    /\ op' = reset(op, "decrypt")
    /\ cid' = reset(cid, NoCID)
    /\ new' = reset(new, NoCID)
    /\ undo' = reset(undo, FALSE)
    /\ err' = reset(err, "nil")

\* The caller takes the result.
Return(r) ==
    /\ pc[r] = "return"
    /\ Leave({r})
    /\ issued' = issued \cup ({new[r]} \ {NoCID})
    /\ erased' = erased \cup
         {c \in {cid[r]} : op[r] \in {"delete", "rotate"} /\ err[r] = "nil"}
    /\ UNCHANGED <<vaultVars, used, doomed, excused>>

-----------------------------------------------------------------------------
(* The environment *)

\* Vault carries out a call whose reply was lost.
ApplyLate(l) ==
    /\ l \in late
    /\ late' = late \ {l}
    /\ IF "ok" \in Answers(l.call, l.cid) THEN Effect(l.call, l.cid)
                                          ELSE UNCHANGED <<keys, allowed, kv>>
    /\ UNCHANGED <<callVars, histVars>>

\* The CID that the call r is about to make concerns.
Subject(r) == IF pc[r] \in {"create", "encrypt", "put"} THEN new[r] ELSE Target(r)

\* The process dies.  Calls on the wire may still be carried out.
Crash ==
    /\ Leave(Request)
    /\ \E sent \in SUBSET {r \in Request : pc[r] \in Changes} :
          late' = late \cup {[call |-> pc[r], cid |-> Subject(r)] : r \in sent}
    /\ Cardinality(late') <= MaxLate
    /\ excused' = excused \cup ({new[r] : r \in Request} \ {NoCID})
    /\ UNCHANGED <<keys, allowed, kv, used, issued, doomed, erased>>

-----------------------------------------------------------------------------
Step(r) ==
    \/ TransitCreateKey(r) \/ TransitEncrypt(r)   \/ KvPutWrapped(r)
    \/ KvGetWrapped(r)     \/ TransitDecrypt(r)
    \/ KvDeleteMetadata(r) \/ TransitProbe(r)
    \/ TransitAllow(r)     \/ TransitDestroy(r)

Next ==
    \/ \E r \in Request : Call(r) \/ Reject(r) \/ Step(r) \/ Return(r)
    \/ \E l \in late : ApplyLate(l)
    \/ Crash

Spec == Init /\ [][Next]_vars

-----------------------------------------------------------------------------
(* The service it implements *)

Usable(c) == c \in keys /\ c \in kv

\* Rotate is deleting the old artifact.
Replacing(r) ==
    /\ op[r] = "rotate"
    /\ ~undo[r]
    /\ pc[r] \in {"kvdelete", "probe", "allow", "destroy"}

usable == {c \in CID : Usable(c)}

seen == [r \in Request |-> /\ op[r] \in {"decrypt", "wrap", "rotate"}
                           /\ pc[r] \notin {"idle", "kvget", "return"}]

made == [r \in Request |-> IF pc[r] = "return" \/ Replacing(r) THEN new[r]
                                                              ELSE NoCID]

out == [r \in Request |-> IF pc[r] = "idle" THEN "idle"
                          ELSE IF pc[r] = "return" THEN err[r] ELSE "busy"]

KS == INSTANCE KeyService WITH
    usable <- usable, seen <- seen, made <- made, out <- out

\* VaultTransit is a key service: whatever calls, lost replies and crashes do
\* between them, its callers see what artifact.ArtifactKeyService promises.
ImplementsKeyService == KS!Spec

-----------------------------------------------------------------------------
(* Properties *)

\* An artifact key handed to a caller stays usable until somebody begins to
\* delete it: no crash, no rollback of another artifact, no late call and no
\* Rotate that fails on the way takes it away.
IssuedStaysUsable ==
    \A c \in issued \ doomed : Usable(c)

\* "Cryptographic erasure": once Delete or Rotate reported the deletion of a
\* key, neither part of it is in Vault, then or ever after.
ErasureIsFinal ==
    \A c \in erased : c \notin keys /\ c \notin kv

\* GenerateAndEncrypt leaves no Transit key behind that nobody can name: every
\* key is a caller's, or under construction, or was given up in a crash or a
\* failure of the create call or of the rollback.
NoOrphanKeys ==
    \A c \in keys :
        c \in issued \cup excused \/ \E r \in Request : new[r] = c

\* From the moment Rotate begins to delete the old artifact, the new one is
\* complete and usable.
RotateKeepsOneCopy ==
    \A r \in Request :
        /\ op[r] = "rotate"
        /\ pc[r] \in {"kvdelete", "probe", "allow", "destroy", "return"}
        /\ ~undo[r]
        /\ new[r] # NoCID
        => Usable(new[r])

\* ErrKeyNotFound is returned only for a key somebody has begun to delete: an
\* outage is never mistaken for an erasure.
KeyNotFoundIsHonest ==
    \A r \in Request : err[r] = "notfound" => cid[r] \in doomed

\* "Idempotent.": with a Vault that works, Delete succeeds however often, and
\* from however many callers, it is called.
DeleteIsIdempotent ==
    \A r \in Request : pc[r] = "return" /\ op[r] = "delete" => err[r] = "nil"
=============================================================================
