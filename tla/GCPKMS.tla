------------------------------- MODULE GCPKMS -------------------------------
(***************************************************************************)
(* keyservice/gcpkms.go and gcpkms_api.go: per-artifact data keys wrapped  *)
(* under one KEK in Cloud KMS, the wrapped keys in Firestore.              *)
(*                                                                         *)
(* KMS keeps nothing per artifact, so an artifact's key is usable exactly  *)
(* while Firestore has its document.  A method is a sequence of HTTP       *)
(* calls, one action each, without a lock around them; a call whose reply  *)
(* is lost may be carried out at any later time, and the process may crash *)
(* between two calls.  Plaintexts, ciphertexts, zeroization and pathCache, *)
(* which is written and never read, are left out; every GenerateAndEncrypt *)
(* draws a fresh CID.                                                      *)
(***************************************************************************)
EXTENDS FiniteSets, Naturals

CONSTANTS
    Request,  \* goroutines inside the key service
    CID,      \* the pool of CIDs, a bound on the number of artifacts
    NoCID,    \* storage.CID{}
    Faults,   \* what may go wrong between the service and Google Cloud
    MaxLate   \* bound on the lost calls outstanding at one time

Methods == {"generate", "decrypt", "wrap", "rotate", "delete"}

\* "refused" is a 4xx other than 404 and 409, or a 200 whose body does not
\* decode; "failed" is a 5xx; the last two are no reply.
AllFaults == {"refused", "failed", "unreachable", "lost"}

ASSUME GCPAssumption ==
    /\ NoCID \notin CID
    /\ Faults \subseteq AllFaults
    /\ MaxLate \in Nat

\* The calls that change Firestore, and all calls.
Changes == {"createDoc", "deleteDoc"}

Calls == Changes \cup {"kmsEncrypt", "kmsDecrypt", "getDoc"}

Replies == {"ok", "missing", "conflict"} \cup AllFaults

Errors == {"nil", "notfound", "unavailable", "mismatch", "err"}

VARIABLES
    docs,      \* CIDs that have a document in Firestore
    late,      \* lost calls that Firestore may still carry out
    pc,        \* the call each request makes next
    op,        \* the method it executes
    cid,       \* the method's argument
    new,       \* the CID of the artifact it makes, NoCID when it has none
    err        \* the method's error

cloudVars == <<docs, late>>
callVars  == <<pc, op, cid, new, err>>

(* History, used only in the properties; it disables no action.  issued    *)
(* also says which CIDs clients know and so may ask for.                   *)
VARIABLES
    used,      \* CIDs ever drawn
    issued,    \* CIDs returned to a caller
    doomed,    \* CIDs somebody has begun to delete
    erased,    \* CIDs whose deletion was reported complete
    lost,      \* CIDs whose creation was cut off by a crash or a lost reply
    faulted    \* requests that met a fault

histVars == <<used, issued, doomed, erased, lost, faulted>>

vars == <<cloudVars, callVars, histVars>>

TypeOK ==
    /\ docs \subseteq CID
    /\ late \subseteq [call : Changes, cid : CID]
    /\ pc \in [Request -> Calls \cup {"idle", "return"}]
    /\ op \in [Request -> Methods]
    /\ cid \in [Request -> CID \cup {NoCID}]
    /\ new \in [Request -> CID \cup {NoCID}]
    /\ err \in [Request -> Errors]
    /\ used \subseteq CID
    /\ issued \subseteq CID
    /\ doomed \subseteq CID
    /\ erased \subseteq CID
    /\ lost \subseteq CID
    /\ faulted \subseteq Request

Init ==
    /\ docs = {}
    /\ late = {}
    /\ pc = [r \in Request |-> "idle"]
    /\ op = [r \in Request |-> "decrypt"]
    /\ cid = [r \in Request |-> NoCID]
    /\ new = [r \in Request |-> NoCID]
    /\ err = [r \in Request |-> "nil"]
    /\ used = {}
    /\ issued = {}
    /\ doomed = {}
    /\ erased = {}
    /\ lost = {}
    /\ faulted = {}

-----------------------------------------------------------------------------
(* Google Cloud, outside this repository *)

\* What KMS and Firestore answer when nothing goes wrong.  A document that is
\* not there may be deleted with a 200 or a 404.
Answers(call, c) ==
    CASE call = "createDoc" -> IF c \in docs THEN {"conflict"} ELSE {"ok"}
      [] call = "getDoc"    -> IF c \in docs THEN {"ok"} ELSE {"missing"}
      [] call = "deleteDoc" -> IF c \in docs THEN {"ok"} ELSE {"ok", "missing"}
      [] OTHER              -> {"ok"}

\* Firestore carries out a call it accepted.
Effect(call, c) ==
    docs' = CASE call = "createDoc" -> docs \cup {c}
              [] call = "deleteDoc" -> docs \ {c}
              [] OTHER              -> docs

-----------------------------------------------------------------------------
(* One call *)

\* GCPKMS.do, and the reply it gets.
Do(r, call, c, reply) ==
    /\ pc[r] = call
    /\ \/ /\ reply \in Answers(call, c)
          /\ IF reply = "ok" THEN Effect(call, c) ELSE UNCHANGED docs
          /\ UNCHANGED <<late, faulted>>
       \/ /\ reply \in Faults \ {"lost"}
          /\ faulted' = faulted \cup {r}
          /\ UNCHANGED cloudVars
       \/ /\ reply = "lost"
          /\ "lost" \in Faults
          /\ call \in Changes
          /\ late' = late \cup {[call |-> call, cid |-> c]}
          /\ Cardinality(late') <= MaxLate
          /\ faulted' = faulted \cup {r}
          /\ UNCHANGED docs

\* The error of a call that was not answered as hoped: a 5xx, and a transport
\* error, wrap ErrServiceUnavailable.
fmtGCPErr(reply) ==
    IF reply \in {"failed", "unreachable", "lost"} THEN "unavailable" ELSE "err"

Goto(r, call) ==
    /\ pc' = [pc EXCEPT ![r] = call]
    /\ UNCHANGED <<op, cid, new, err>>

\* The method returns error e, and CID n when it made an artifact.
Finish(r, e, n) ==
    /\ pc' = [pc EXCEPT ![r] = "return"]
    /\ err' = [err EXCEPT ![r] = e]
    /\ new' = [new EXCEPT ![r] = n]
    /\ UNCHANGED <<op, cid>>

-----------------------------------------------------------------------------
(* GenerateAndEncrypt, and the second part of Rotate *)

\* The data key is wrapped under the KEK; KMS keeps nothing.
kmsEncrypt(r) ==
    \E reply \in Replies :
        /\ Do(r, "kmsEncrypt", new[r], reply)
        /\ IF reply = "ok" THEN Goto(r, "createDoc")
                           ELSE Finish(r, fmtGCPErr(reply), NoCID)
        /\ UNCHANGED <<used, issued, doomed, erased, lost>>

\* The artifact is complete.  Rotate goes on to delete the old one.  After an
\* error there is "nothing to roll back".
firestoreCreateWrapped(r) ==
    \E reply \in Replies :
        /\ Do(r, "createDoc", new[r], reply)
        /\ IF reply # "ok"
           THEN Finish(r, fmtGCPErr(reply), NoCID) /\ UNCHANGED doomed
           ELSE IF op[r] = "rotate"
           THEN Goto(r, "deleteDoc") /\ doomed' = doomed \cup {cid[r]}
           ELSE Finish(r, "nil", new[r]) /\ UNCHANGED doomed
        /\ lost' = IF reply = "lost" THEN lost \cup {new[r]} ELSE lost
        /\ UNCHANGED <<used, issued, erased>>

-----------------------------------------------------------------------------
(* Decrypt, WrapForRecipient, and the first part of Rotate *)

\* Mutant: the body of a 404 is taken for the document.
firestoreGetWrapped_IgnoresStatus(r) ==
    \E reply \in Replies :
        /\ Do(r, "getDoc", cid[r], reply)
        /\ IF reply \in {"ok", "missing"} THEN Goto(r, "kmsDecrypt")
                                         ELSE Finish(r, fmtGCPErr(reply), NoCID)
        /\ UNCHANGED <<used, issued, doomed, erased, lost>>

firestoreGetWrapped(r) ==
    \E reply \in Replies :
        /\ Do(r, "getDoc", cid[r], reply)
        /\ CASE reply = "ok"      -> Goto(r, "kmsDecrypt")
             [] reply = "missing" -> Finish(r, "notfound", NoCID)
             [] OTHER             -> Finish(r, fmtGCPErr(reply), NoCID)
        /\ UNCHANGED <<used, issued, doomed, erased, lost>>

\* The data key is in hand.  The caller's ciphertext may not be the one it
\* was made for, or a local step may fail; Rotate encrypts the plaintext anew.
kmsDecrypt(r) ==
    \E reply \in Replies :
        /\ Do(r, "kmsDecrypt", cid[r], reply)
        /\ \/ /\ reply # "ok"
              /\ Finish(r, fmtGCPErr(reply), NoCID)
           \/ /\ reply = "ok"
              /\ op[r] = "rotate"
              /\ Goto(r, "kmsEncrypt")
           \/ /\ reply = "ok"
              /\ op[r] # "rotate"
              /\ Finish(r, "nil", NoCID)
           \/ /\ reply = "ok"
              /\ \E e \in {"mismatch", "err"} :
                    /\ op[r] = "wrap" => e = "err"
                    /\ Finish(r, e, NoCID)
        /\ UNCHANGED <<used, issued, doomed, erased, lost>>

-----------------------------------------------------------------------------
(* Delete, and the end of Rotate *)

\* Mutant: a missing document is an error.
firestoreDeleteWrapped_Strict(r) ==
    \E reply \in Replies :
        /\ Do(r, "deleteDoc", cid[r], reply)
        /\ IF reply = "ok"
           THEN Finish(r, "nil", new[r])
           ELSE Finish(r, fmtGCPErr(reply), new[r])
        /\ UNCHANGED <<used, issued, doomed, erased, lost>>

\* Mutant: Rotate withholds the new CID when deleting the old one fails.
firestoreDeleteWrapped_DropsNew(r) ==
    \E reply \in Replies :
        /\ Do(r, "deleteDoc", cid[r], reply)
        /\ IF reply \in {"ok", "missing"}
           THEN Finish(r, "nil", new[r])
           ELSE Finish(r, fmtGCPErr(reply), NoCID)
        /\ UNCHANGED <<used, issued, doomed, erased, lost>>

\* A document that is already gone is no error.  Rotate returns the new
\* artifact with the error of its Delete.
firestoreDeleteWrapped(r) ==
    \E reply \in Replies :
        /\ Do(r, "deleteDoc", cid[r], reply)
        /\ IF reply \in {"ok", "missing"}
           THEN Finish(r, "nil", new[r])
           ELSE Finish(r, fmtGCPErr(reply), new[r])
        /\ UNCHANGED <<used, issued, doomed, erased, lost>>

-----------------------------------------------------------------------------
(* Callers *)

\* A method is called.  Clients know the CIDs that were issued to them.
Call(r) ==
    /\ pc[r] = "idle"
    /\ \E o \in Methods, c \in issued \cup {NoCID}, n \in (CID \ used) \cup {NoCID} :
          /\ (c = NoCID) <=> (o = "generate")
          /\ (n = NoCID) <=> (o \notin {"generate", "rotate"})
          /\ pc' = [pc EXCEPT ![r] = CASE o = "generate" -> "kmsEncrypt"
                                       [] o = "delete"   -> "deleteDoc"
                                       [] OTHER          -> "getDoc"]
          /\ op' = [op EXCEPT ![r] = o]
          /\ cid' = [cid EXCEPT ![r] = c]
          /\ new' = [new EXCEPT ![r] = n]
          /\ used' = used \cup ({n} \ {NoCID})
          /\ doomed' = doomed \cup {d \in {c} : o = "delete"}
    /\ UNCHANGED <<cloudVars, err, issued, erased, lost, faulted>>

\* A method returns before it reaches the cloud: no randomness, a failed seal,
\* a recipient key that does not parse.
Reject(r) ==
    /\ pc[r] = "idle"
    /\ \E o \in {"generate", "wrap"} : op' = [op EXCEPT ![r] = o]
    /\ pc' = [pc EXCEPT ![r] = "return"]
    /\ err' = [err EXCEPT ![r] = "err"]
    /\ faulted' = faulted \cup {r}
    /\ UNCHANGED <<cloudVars, cid, new, used, issued, doomed, erased, lost>>

\* Requests rs leave the service.
Leave(rs) ==
    LET reset(f, v) == [r \in Request |-> IF r \in rs THEN v ELSE f[r]] IN
    /\ pc' = reset(pc, "idle")
    /\ op' = reset(op, "decrypt")
    /\ cid' = reset(cid, NoCID)
    /\ new' = reset(new, NoCID)
    /\ err' = reset(err, "nil")
    /\ faulted' = faulted \ rs

\* The caller takes the result.
Return(r) ==
    /\ pc[r] = "return"
    /\ Leave({r})
    /\ issued' = issued \cup ({new[r]} \ {NoCID})
    /\ erased' = erased \cup
         {c \in {cid[r]} : op[r] \in {"delete", "rotate"} /\ err[r] = "nil"}
    /\ UNCHANGED <<cloudVars, used, doomed, lost>>

-----------------------------------------------------------------------------
(* The environment *)

\* Firestore carries out a call whose reply was lost.
ApplyLate(l) ==
    /\ l \in late
    /\ late' = late \ {l}
    /\ IF "ok" \in Answers(l.call, l.cid) THEN Effect(l.call, l.cid) ELSE UNCHANGED docs
    /\ UNCHANGED <<callVars, histVars>>

\* The process dies.  Calls on the wire may still be carried out.
Crash ==
    /\ Leave(Request)
    /\ \E sent \in SUBSET {r \in Request : pc[r] \in Changes} :
          late' = late \cup
            {[call |-> pc[r], cid |-> IF pc[r] = "createDoc" THEN new[r] ELSE cid[r]] :
               r \in sent}
    /\ Cardinality(late') <= MaxLate
    /\ lost' = lost \cup ({new[r] : r \in Request} \ {NoCID})
    /\ UNCHANGED <<docs, used, issued, doomed, erased>>

Step(r) ==
    \/ kmsEncrypt(r)          \/ firestoreCreateWrapped(r)
    \/ firestoreGetWrapped(r) \/ kmsDecrypt(r)
    \/ firestoreDeleteWrapped(r)

Next ==
    \/ \E r \in Request : Call(r) \/ Reject(r) \/ Step(r) \/ Return(r)
    \/ \E l \in late : ApplyLate(l)
    \/ Crash

Spec == Init /\ [][Next]_vars

-----------------------------------------------------------------------------
(* The service it implements *)

seen == [r \in Request |-> /\ op[r] \in {"decrypt", "wrap", "rotate"}
                           /\ pc[r] \notin {"idle", "getDoc", "return"}]

made == [r \in Request |-> IF \/ pc[r] = "return"
                              \/ op[r] = "rotate" /\ pc[r] = "deleteDoc"
                           THEN new[r] ELSE NoCID]

out == [r \in Request |-> IF pc[r] = "idle" THEN "idle"
                          ELSE IF pc[r] = "return" THEN err[r] ELSE "busy"]

KS == INSTANCE KeyService WITH
    usable <- docs, seen <- seen, made <- made, out <- out

\* GCPKMS is a key service: whatever calls, lost replies and crashes do between
\* them, its callers see what artifact.ArtifactKeyService promises.
ImplementsKeyService == KS!Spec

-----------------------------------------------------------------------------
(* Properties *)

\* "Nothing to roll back": a GenerateAndEncrypt or Rotate that fails leaves no
\* document behind, except where the reply to its write was lost or the
\* process died; no other document is without a CID in some caller's hands.
NothingToRollBack ==
    \A c \in docs :
        c \in issued \cup lost \/ \E r \in Request : new[r] = c /\ pc[r] # "getDoc"

\* Delete and GenerateAndEncrypt fail only because a call failed: concurrent
\* deletions and retries of one CID succeed, and no creation meets a document
\* of its own name.
OnlyFaultsFail ==
    \A r \in Request :
        /\ pc[r] = "return"
        /\ op[r] \in {"generate", "delete"}
        /\ r \notin faulted
        => err[r] = "nil"
=============================================================================
