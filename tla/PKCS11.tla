------------------------------- MODULE PKCS11 -------------------------------
(***************************************************************************)
(* keyservice/pkcs11.go, pkcs11_api.go and pkcs11_setup.go: per-artifact   *)
(* keys as objects of a PKCS#11 token.                                     *)
(*                                                                         *)
(* A key is found by its label.  It is made under a provisional label and  *)
(* gets its CID as label once the ciphertext is known; it is usable from   *)
(* then on.  Every method holds its service's mutex and opens a session,   *)
(* logs in, works, logs out and closes it; Rotate is three methods in a    *)
(* row and lets go of the mutex in between.  Several processes, each with  *)
(* a service of its own, may share a token, which keeps sessions and login *)
(* per process and shows private objects to a process that is logged in.   *)
(*                                                                         *)
(* A token call may fail, before or after it took effect, and a process    *)
(* may crash.  Plaintexts, ciphertexts and nonces are left out; every      *)
(* GenerateAndEncrypt draws a fresh CID.                                   *)
(***************************************************************************)
EXTENDS Naturals

CONSTANTS
    Process,     \* processes that share the token
    Request,     \* goroutines inside the key services
    Home,        \* the process of each goroutine
    CID,         \* the pool of CIDs, a bound on the number of artifacts
    NoCID,       \* storage.CID{}
    Nobody,      \* holds an unlocked mutex
    Faults,      \* "failed": an error and no effect; "torn": both
    MaxSessions  \* sessions the token grants to one process

ASSUME PKCS11Assumption ==
    /\ Home \in [Request -> Process]
    /\ NoCID \notin CID
    /\ Nobody \notin Request
    /\ Faults \subseteq {"failed", "torn"}
    /\ MaxSessions \in Nat

Methods == {"generate", "decrypt", "wrap", "rotate", "delete"}

\* The three methods Rotate consists of; every other method is one of them.
Stages == {"read", "gen", "del"}

\* The calls on a session that is logged in.
Work == {"generate", "encrypt", "label", "undo", "find", "attrs", "gcm", "destroy"}

\* Where a goroutine has a session open.
InSession == Work \cup {"login", "retry", "drop", "close"}

Errors == {"nil", "notfound", "mismatch", "err"}

VARIABLES
    keys,    \* CIDs that are the label of an object
    tmp,     \* CIDs whose object still has its provisional label
    opened,  \* the number of sessions each process has open
    login,   \* whether the process is logged in
    ctx,     \* whether the service is initialized: p.ctx # nil
    mu,      \* the holder of the service's mutex
    pc,      \* what each goroutine does next
    op,      \* the method it executes
    stage,   \* the part of the method it is in
    cid,     \* the method's argument
    new,     \* the CID of the artifact it makes, NoCID when it has none
    err      \* the method's error

tokenVars   == <<keys, tmp>>
sessionVars == <<opened, login>>
callVars    == <<pc, op, stage, cid, new, err>>

(* History, used only in the properties; it disables no action.  issued    *)
(* also says which CIDs clients know and so may ask for.                   *)
VARIABLES
    used,    \* CIDs ever drawn
    issued,  \* CIDs returned to a caller
    doomed,  \* CIDs somebody has begun to delete
    erased,  \* CIDs whose deletion was reported complete
    excused, \* CIDs whose creation was cut off by a crash or by a failure of
             \* the generate call or of the rollback itself
    leaked   \* the number of sessions the token failed to close or to report

histVars == <<used, issued, doomed, erased, excused>>

vars == <<tokenVars, sessionVars, ctx, mu, callVars, histVars, leaked>>

TypeOK ==
    /\ keys \subseteq CID
    /\ tmp \subseteq CID
    /\ opened \in [Process -> 0..MaxSessions]
    /\ login \in [Process -> BOOLEAN]
    /\ ctx \in [Process -> BOOLEAN]
    /\ mu \in [Process -> Request \cup {Nobody}]
    /\ pc \in [Request -> InSession \cup {"idle", "lock", "open", "reopen", "return"}]
    /\ op \in [Request -> Methods]
    /\ stage \in [Request -> Stages]
    /\ cid \in [Request -> CID \cup {NoCID}]
    /\ new \in [Request -> CID \cup {NoCID}]
    /\ err \in [Request -> Errors]
    /\ used \subseteq CID
    /\ issued \subseteq CID
    /\ doomed \subseteq CID
    /\ erased \subseteq CID
    /\ excused \subseteq CID
    /\ leaked \in [Process -> 0..MaxSessions]

Init ==
    /\ keys = {}
    /\ tmp = {}
    /\ opened = [p \in Process |-> 0]
    /\ login = [p \in Process |-> FALSE]
    /\ ctx = [p \in Process |-> TRUE]
    /\ mu = [p \in Process |-> Nobody]
    /\ pc = [r \in Request |-> "idle"]
    /\ op = [r \in Request |-> "decrypt"]
    /\ stage = [r \in Request |-> "read"]
    /\ cid = [r \in Request |-> NoCID]
    /\ new = [r \in Request |-> NoCID]
    /\ err = [r \in Request |-> "nil"]
    /\ used = {}
    /\ issued = {}
    /\ doomed = {}
    /\ erased = {}
    /\ excused = {}
    /\ leaked = [p \in Process |-> 0]

-----------------------------------------------------------------------------
(* Control *)

Goto(r, l) ==
    /\ pc' = [pc EXCEPT ![r] = l]
    /\ UNCHANGED <<op, stage, cid, new, err>>

\* The stage is over with error e, at control point l.  An artifact that was
\* not completed is not returned.
End(r, e, l) ==
    /\ pc' = [pc EXCEPT ![r] = l]
    /\ err' = [err EXCEPT ![r] = e]
    /\ new' = [new EXCEPT ![r] = IF e = "nil" \/ stage[r] = "del" THEN @ ELSE NoCID]
    /\ UNCHANGED <<op, stage, cid>>

\* A method gives up before it has a session, and lets go of the mutex.
GiveUp(r) ==
    /\ End(r, "err", "return")
    /\ mu' = [mu EXCEPT ![Home[r]] = Nobody]

\* The first call of the stage on its session.
Start(r) == Goto(r, IF stage[r] = "gen" THEN "generate" ELSE "find")

-----------------------------------------------------------------------------
(* Sessions *)

\* p.mu.Lock and checkOpen.  GenerateAndEncrypt may then fail to get a nonce.
Lock(r) ==
    /\ pc[r] = "lock"
    /\ mu[Home[r]] = Nobody
    /\ \/ /\ ctx[Home[r]]
          /\ mu' = [mu EXCEPT ![Home[r]] = r]
          /\ Goto(r, "open")
       \/ /\ ~ctx[Home[r]] \/ stage[r] = "gen"
          /\ GiveUp(r)
    /\ UNCHANGED <<tokenVars, sessionVars, ctx, histVars, leaked>>

\* A session of process p is opened; the goroutine learns of it if reply is ok.
NewSession(p, reply) ==
    \/ /\ reply = "ok"
       /\ opened[p] < MaxSessions
       /\ opened' = [opened EXCEPT ![p] = @ + 1]
       /\ UNCHANGED <<login, leaked>>
    \/ /\ reply = "torn"
       /\ reply \in Faults
       /\ opened[p] < MaxSessions
       /\ opened' = [opened EXCEPT ![p] = @ + 1]
       /\ leaked' = [leaked EXCEPT ![p] = @ + 1]
       /\ UNCHANGED login
    \/ /\ reply = "failed"
       /\ reply \in Faults \/ opened[p] = MaxSessions
       /\ UNCHANGED <<sessionVars, leaked>>

\* A session of p is closed, or stays behind.  A process without a session is
\* not logged in.
DropSession(p, in) ==
    \/ /\ opened' = [opened EXCEPT ![p] = @ - 1]
       /\ login' = [login EXCEPT ![p] = in /\ opened[p] > 1]
       /\ UNCHANGED leaked
    \/ /\ "failed" \in Faults
       /\ leaked' = [leaked EXCEPT ![p] = @ + 1]
       /\ login' = [login EXCEPT ![p] = in]
       /\ UNCHANGED opened

\* OpenSession of openSession, and the second one after "already logged in".
OpenSession(r) ==
    /\ pc[r] \in {"open", "reopen"}
    /\ \E reply \in {"ok", "failed", "torn"} :
          /\ NewSession(Home[r], reply)
          /\ \/ /\ reply # "ok"
                /\ GiveUp(r)
             \/ /\ reply = "ok"
                /\ IF pc[r] = "open" THEN Goto(r, "login") ELSE Start(r)
                /\ UNCHANGED mu
    /\ UNCHANGED <<tokenVars, ctx, histVars>>

\* Mutants: any error is taken for "already logged in"; the session is left
\* open when the login fails.
Login_AnyErrorIsAlready(r) ==
    /\ pc[r] = "login"
    /\ \/ /\ ~login[Home[r]]
          /\ login' = [login EXCEPT ![Home[r]] = TRUE]
          /\ Start(r)
       \/ /\ login[Home[r]] \/ "failed" \in Faults
          /\ Goto(r, "retry")
          /\ UNCHANGED login
    /\ UNCHANGED <<tokenVars, opened, ctx, mu, histVars, leaked>>

Login_KeepsSession(r) ==
    /\ pc[r] = "login"
    /\ \/ /\ ~login[Home[r]]
          /\ login' = [login EXCEPT ![Home[r]] = TRUE]
          /\ Start(r)
          /\ UNCHANGED mu
       \/ /\ Faults # {} \/ login[Home[r]]
          /\ GiveUp(r)
          /\ UNCHANGED login
    /\ UNCHANGED <<tokenVars, opened, ctx, histVars, leaked>>

\* Login of openSession.  Any error closes the session; after "already logged
\* in" another one is opened.
Login(r) ==
    /\ pc[r] = "login"
    /\ \/ /\ ~login[Home[r]]
          /\ login' = [login EXCEPT ![Home[r]] = TRUE]
          /\ Start(r)
       \/ /\ login[Home[r]]
          /\ Goto(r, "retry")
          /\ UNCHANGED login
       \/ \E fault \in Faults :
          /\ login' = [login EXCEPT ![Home[r]] = @ \/ fault = "torn"]
          /\ Goto(r, "drop")
    /\ UNCHANGED <<tokenVars, opened, ctx, mu, histVars, leaked>>

\* Its CloseSession, whose own error is ignored.
CloseAfterLogin(r) ==
    /\ pc[r] \in {"retry", "drop"}
    /\ DropSession(Home[r], login[Home[r]])
    /\ IF pc[r] = "retry" THEN Goto(r, "reopen") /\ UNCHANGED mu ELSE GiveUp(r)
    /\ UNCHANGED <<tokenVars, ctx, histVars>>

\* Where Rotate goes from a stage that succeeded.
NextStage(r) == IF stage[r] = "read" THEN "gen" ELSE "del"

Final(r) == err[r] # "nil" \/ op[r] # "rotate" \/ stage[r] = "del"

\* Mutant: Rotate holds the mutex from one of its methods to the next.
CloseSession_KeepsLock(r) ==
    /\ pc[r] = "close"
    /\ DropSession(Home[r], FALSE)
    /\ IF Final(r)
       THEN /\ Goto(r, "return")
            /\ mu' = [mu EXCEPT ![Home[r]] = Nobody]
       ELSE /\ pc' = [pc EXCEPT ![r] = "lock"]
            /\ stage' = [stage EXCEPT ![r] = NextStage(r)]
            /\ UNCHANGED <<op, cid, new, err, mu>>
    /\ UNCHANGED <<tokenVars, ctx, histVars>>

\* p11Session.Close: Logout and CloseSession, whose errors are ignored; then
\* the deferred p.mu.Unlock.  Rotate goes on with its next method.
CloseSession(r) ==
    /\ pc[r] = "close"
    /\ \E logsOut \in {FALSE} \cup {login[Home[r]] : f \in Faults} : DropSession(Home[r], logsOut)
    /\ mu' = [mu EXCEPT ![Home[r]] = Nobody]
    /\ IF Final(r)
       THEN Goto(r, "return") /\ UNCHANGED doomed
       ELSE /\ pc' = [pc EXCEPT ![r] = "lock"]
            /\ stage' = [stage EXCEPT ![r] = NextStage(r)]
            /\ doomed' = IF NextStage(r) = "del" THEN doomed \cup {cid[r]} ELSE doomed
            /\ UNCHANGED <<op, cid, new, err>>
    /\ UNCHANGED <<tokenVars, ctx, used, issued, erased, excused>>

-----------------------------------------------------------------------------
(* GenerateAndEncrypt *)

\* A key under a provisional label.
GenerateKey(r) ==
    /\ pc[r] = "generate"
    /\ \/ /\ login[Home[r]]
          /\ tmp' = tmp \cup {new[r]}
          /\ Goto(r, "encrypt")
          /\ UNCHANGED excused
       \/ /\ "torn" \in Faults
          /\ login[Home[r]]
          /\ tmp' = tmp \cup {new[r]}
          /\ End(r, "err", "close")
          /\ excused' = excused \cup {new[r]}
       \/ /\ "failed" \in Faults \/ ~login[Home[r]]
          /\ End(r, "err", "close")
          /\ UNCHANGED <<tmp, excused>>
    /\ UNCHANGED <<keys, sessionVars, ctx, mu, used, issued, doomed, erased, leaked>>

\* EncryptInit and Encrypt.
GcmEncrypt(r) ==
    /\ pc[r] = "encrypt"
    /\ \/ Goto(r, "label")
       \/ Faults # {} /\ Goto(r, "undo")
    /\ UNCHANGED <<tokenVars, sessionVars, ctx, mu, histVars, leaked>>

\* Mutant: the object is not destroyed when it cannot be labelled.
SetLabel_NoUndo(r) ==
    /\ pc[r] = "label"
    /\ \/ /\ keys' = keys \cup {new[r]}
          /\ tmp' = tmp \ {new[r]}
          /\ End(r, "nil", "close")
       \/ /\ "failed" \in Faults
          /\ End(r, "err", "close")
          /\ UNCHANGED tokenVars
    /\ UNCHANGED <<sessionVars, ctx, mu, histVars, leaked>>

\* SetAttributeValue of CKA_LABEL: the artifact is complete.
SetLabel(r) ==
    /\ pc[r] = "label"
    /\ \/ /\ keys' = keys \cup {new[r]}
          /\ tmp' = tmp \ {new[r]}
          /\ \/ End(r, "nil", "close")
             \/ "torn" \in Faults /\ Goto(r, "undo")
       \/ /\ "failed" \in Faults
          /\ Goto(r, "undo")
          /\ UNCHANGED tokenVars
    /\ UNCHANGED <<sessionVars, ctx, mu, histVars, leaked>>

\* destroyKey after an error, its own error ignored.
Undo(r) ==
    /\ pc[r] = "undo"
    /\ End(r, "err", "close")
    /\ \/ /\ keys' = keys \ {new[r]}
          /\ tmp' = tmp \ {new[r]}
          /\ UNCHANGED excused
       \/ /\ "failed" \in Faults
          /\ excused' = excused \cup {new[r]}
          /\ UNCHANGED tokenVars
    /\ UNCHANGED <<sessionVars, ctx, mu, used, issued, doomed, erased, leaked>>

-----------------------------------------------------------------------------
(* Decrypt, WrapForRecipient and Delete *)

\* A private object is there for a process that is logged in.
Visible(r) == login[Home[r]] /\ cid[r] \in keys

\* Mutant: the internal error for a missing object reaches the caller.
FindKey_Raw(r) ==
    /\ pc[r] = "find"
    /\ \/ Visible(r) /\ Goto(r, IF stage[r] = "del" THEN "destroy" ELSE "attrs")
       \/ ~Visible(r) /\ End(r, "errPKCS11NotFound", "close")
    /\ UNCHANGED <<tokenVars, sessionVars, ctx, mu, histVars, leaked>>

\* findKeyByLabel.  Delete takes a missing object for an erased one.
FindKey(r) ==
    /\ pc[r] = "find"
    /\ \/ /\ Visible(r)
          /\ Goto(r, IF stage[r] = "del" THEN "destroy" ELSE "attrs")
       \/ /\ ~Visible(r)
          /\ End(r, IF stage[r] = "del" THEN "nil" ELSE "notfound", "close")
       \/ /\ Faults # {}
          /\ End(r, "err", "close")
    /\ UNCHANGED <<tokenVars, sessionVars, ctx, mu, histVars, leaked>>

\* GetAttributeValue: the nonce, and the key itself in WrapForRecipient, which
\* then wraps it for the recipient.
ReadAttributes(r) ==
    /\ pc[r] = "attrs"
    /\ \/ /\ Visible(r)
          /\ IF op[r] = "wrap" THEN End(r, "nil", "close") ELSE Goto(r, "gcm")
       \/ /\ ~Visible(r) \/ Faults # {} \/ op[r] = "wrap"
          /\ End(r, "err", "close")
    /\ UNCHANGED <<tokenVars, sessionVars, ctx, mu, histVars, leaked>>

\* DecryptInit and Decrypt.  Whatever goes wrong is ErrCiphertextMismatch.
GcmDecrypt(r) ==
    /\ pc[r] = "gcm"
    /\ \/ Visible(r) /\ End(r, "nil", "close")
       \/ End(r, "mismatch", "close")
    /\ UNCHANGED <<tokenVars, sessionVars, ctx, mu, histVars, leaked>>

\* Mutant: Delete takes any error for a handle that is invalid.
DestroyKey_Lenient(r) ==
    /\ pc[r] = "destroy"
    /\ End(r, "nil", "close")
    /\ \/ keys' = keys \ {cid[r]}
       \/ "failed" \in Faults /\ UNCHANGED keys
    /\ UNCHANGED <<tmp, sessionVars, ctx, mu, histVars, leaked>>

\* DestroyObject; an object that went away meanwhile has an invalid handle.
DestroyKey(r) ==
    /\ pc[r] = "destroy"
    /\ \/ /\ keys' = keys \ {cid[r]}
          /\ \/ End(r, "nil", "close")
             \/ "torn" \in Faults /\ End(r, "err", "close")
       \/ /\ "failed" \in Faults
          /\ End(r, "err", "close")
          /\ UNCHANGED keys
    /\ UNCHANGED <<tmp, sessionVars, ctx, mu, histVars, leaked>>

-----------------------------------------------------------------------------
(* Callers *)

\* A method is called.  Clients know the CIDs that were issued to them.
Call(r) ==
    /\ pc[r] = "idle"
    /\ \E o \in Methods, c \in issued \cup {NoCID}, n \in (CID \ used) \cup {NoCID} :
          /\ (c = NoCID) <=> (o = "generate")
          /\ (n = NoCID) <=> (o \notin {"generate", "rotate"})
          /\ pc' = [pc EXCEPT ![r] = "lock"]
          /\ op' = [op EXCEPT ![r] = o]
          /\ stage' = [stage EXCEPT ![r] = CASE o = "generate" -> "gen"
                                             [] o = "delete"   -> "del"
                                             [] OTHER          -> "read"]
          /\ cid' = [cid EXCEPT ![r] = c]
          /\ new' = [new EXCEPT ![r] = n]
          /\ used' = used \cup ({n} \ {NoCID})
          /\ doomed' = doomed \cup {d \in {c} : o = "delete"}
    /\ UNCHANGED <<tokenVars, sessionVars, ctx, mu, err, issued, erased, excused, leaked>>

\* WrapForRecipient refuses a recipient key that does not parse.
Reject(r) ==
    /\ pc[r] = "idle"
    /\ pc' = [pc EXCEPT ![r] = "return"]
    /\ op' = [op EXCEPT ![r] = "wrap"]
    /\ err' = [err EXCEPT ![r] = "err"]
    /\ UNCHANGED <<tokenVars, sessionVars, ctx, mu, stage, cid, new, histVars, leaked>>

\* Requests rs leave the service.
Leave(rs) ==
    LET reset(f, v) == [r \in Request |-> IF r \in rs THEN v ELSE f[r]] IN
    /\ pc' = reset(pc, "idle")
    /\ op' = reset(op, "decrypt")
    /\ stage' = reset(stage, "read")
    /\ cid' = reset(cid, NoCID)
    /\ new' = reset(new, NoCID)
    /\ err' = reset(err, "nil")

\* The caller takes the result.
Return(r) ==
    /\ pc[r] = "return"
    /\ Leave({r})
    /\ issued' = issued \cup ({new[r]} \ {NoCID})
    /\ erased' = erased \cup
         {c \in {cid[r]} : op[r] \in {"delete", "rotate"} /\ err[r] = "nil"}
    /\ UNCHANGED <<tokenVars, sessionVars, ctx, mu, used, doomed, excused, leaked>>

-----------------------------------------------------------------------------
(* The life of a service *)

\* The token forgets the sessions and the login of process p.
EndSessions(p) ==
    /\ opened' = [opened EXCEPT ![p] = 0]
    /\ login' = [login EXCEPT ![p] = FALSE]
    /\ leaked' = [leaked EXCEPT ![p] = 0]

\* PKCS11.Close, under the mutex.
Close(p) ==
    /\ mu[p] = Nobody
    /\ ctx[p]
    /\ ctx' = [ctx EXCEPT ![p] = FALSE]
    /\ EndSessions(p)
    /\ UNCHANGED <<tokenVars, mu, callVars, histVars>>

\* A process dies and starts again; NewPKCS11 initializes the module.
Restart(p) ==
    LET here == {r \in Request : Home[r] = p} IN
    /\ Leave(here)
    /\ EndSessions(p)
    /\ ctx' = [ctx EXCEPT ![p] = TRUE]
    /\ mu' = [mu EXCEPT ![p] = Nobody]
    /\ excused' = excused \cup ({new[r] : r \in here} \ {NoCID})
    /\ UNCHANGED <<tokenVars, used, issued, doomed, erased>>

Step(r) ==
    \/ OpenSession(r) \/ Login(r)      \/ CloseAfterLogin(r) \/ CloseSession(r)
    \/ GenerateKey(r) \/ GcmEncrypt(r) \/ SetLabel(r)        \/ Undo(r)
    \/ FindKey(r)     \/ ReadAttributes(r) \/ GcmDecrypt(r)  \/ DestroyKey(r)

Next ==
    \/ \E r \in Request : Call(r) \/ Reject(r) \/ Lock(r) \/ Step(r) \/ Return(r)
    \/ \E p \in Process : Close(p) \/ Restart(p)

Spec == Init /\ [][Next]_vars

\* Token calls end, and sync.Mutex starves no goroutine.
FairSpec ==
    /\ Spec
    /\ \A r \in Request : WF_vars(Step(r)) /\ SF_vars(Lock(r))

-----------------------------------------------------------------------------
(* The service it implements *)

\* The outcome of the method is settled.
Settled(r) == pc[r] = "return" \/ (pc[r] = "close" /\ Final(r))

seen == [r \in Request |->
           /\ ~Settled(r)
           /\ \/ pc[r] \in {"attrs", "gcm"}
              \/ pc[r] = "close" /\ op[r] = "rotate"
              \/ op[r] = "rotate" /\ stage[r] # "read"]

made == [r \in Request |-> IF Settled(r) \/ (op[r] = "rotate" /\ stage[r] = "del")
                           THEN new[r] ELSE NoCID]

out == [r \in Request |-> IF Settled(r) THEN err[r]
                          ELSE IF pc[r] = "idle" THEN "idle" ELSE "busy"]

KS == INSTANCE KeyService WITH
    usable <- keys, seen <- seen, made <- made, out <- out

\* PKCS11 is a key service: whatever the token, the other processes and
\* crashes do between its calls, its callers see what
\* artifact.ArtifactKeyService promises.
ImplementsKeyService == KS!Spec

-----------------------------------------------------------------------------
(* Properties *)

\* Every call on a key is made by a process that is logged in, whichever
\* goroutine logged out or left a session behind before: a session that is
\* not would find no private object, so that Delete would report an erasure
\* that never happened.
LoggedInAtWork ==
    \A r \in Request : pc[r] \in Work => login[Home[r]]

\* "Callers MUST defer s.Close()": one goroutine of a process at most has a
\* session, and beside it the process has open only those sessions that the
\* token failed to close or to report.
SessionsAreReleased ==
    \A p \in Process :
        LET in == {r \in Request : Home[r] = p /\ pc[r] \in InSession} IN
        /\ \A q, r \in in : q = r
        /\ opened[p] = leaked[p] + (IF in = {} THEN 0 ELSE 1)

\* GenerateAndEncrypt leaves no object on the token that nobody can name:
\* every object is a caller's, or under construction, or was given up in a
\* crash or a failure of the generate call or of the rollback.
NoOrphanObjects ==
    \A c \in keys \cup tmp :
        c \in issued \cup excused \/ \E r \in Request : new[r] = c

\* Every method returns: Rotate does not wait for the mutex it holds, no path
\* leaves a method with the mutex locked, and no goroutine is passed over for
\* ever.
CallsReturn ==
    \A r \in Request : pc[r] = "lock" ~> pc[r] \in {"return", "idle"}
=============================================================================
