------------------------- MODULE VaultTransitProofs -------------------------
(***************************************************************************)
(* VaultTransit keeps its promises for any number of callers, artifacts    *)
(* and lost calls, and implements KeyService.                              *)
(*                                                                         *)
(* Every step of a method has one shape, stated once in LEMMA StepKeeps:   *)
(* the request moves on, and Vault's two parts of one artifact change, the *)
(* request's own new one or one that somebody has begun to delete.         *)
(***************************************************************************)
EXTENDS VaultTransit, TLAPS

\* transitDeleteKey's calls.
Removing == {"probe", "allow", "destroy"}

\* Nobody has c or will get it.
GivenUp(c) == c \notin issued /\ \A r \in Request : new[r] = c => undo[r]

\* Where a request is in its method, and what it has in hand there.
VControl(r) ==
    /\ pc[r] = "idle" => cid[r] = NoCID /\ new[r] = NoCID
    /\ undo[r] => /\ pc[r] \in Removing
                  /\ op[r] \in {"generate", "rotate"}
                  /\ err[r] \in {"unavailable", "err"}
    /\ pc[r] \in {"kvget", "unwrap"} => op[r] \in {"decrypt", "wrap", "rotate"}
    /\ pc[r] \in {"create", "encrypt", "put"} => op[r] \in {"generate", "rotate"}
    /\ pc[r] = "kvdelete" => op[r] \in {"delete", "rotate"} /\ cid[r] \in doomed
    /\ pc[r] \in Removing /\ ~undo[r] =>
          op[r] \in {"delete", "rotate"} /\ cid[r] \in doomed /\ cid[r] \notin kv
    /\ pc[r] \notin {"idle", "return"} =>
          /\ op[r] # "generate" => cid[r] \in issued
          /\ new[r] # NoCID <=> op[r] \in {"generate", "rotate"}
    /\ pc[r] = "return" /\ op[r] \in {"delete", "rotate"} => cid[r] \in issued
    /\ pc[r] = "return" /\ op[r] \in {"delete", "rotate"} /\ err[r] = "nil" =>
          cid[r] \in doomed /\ cid[r] \notin keys /\ cid[r] \notin kv
    /\ err[r] = "notfound" => cid[r] \in doomed

\* How far the artifact a request makes has come.
VMaking(r) ==
    /\ new[r] # NoCID => new[r] \in used \ issued
    /\ pc[r] \in {"kvget", "unwrap", "create"} => new[r] \notin keys /\ new[r] \notin kv
    /\ pc[r] \in {"encrypt", "put"} => new[r] \in keys
    /\ pc[r] \in {"kvdelete", "return"} \cup Removing /\ ~undo[r] /\ new[r] # NoCID =>
          new[r] \in keys /\ new[r] \in kv

\* No two requests make the same artifact.
VDistinct(r) == new[r] # NoCID => \A q \in Request \ {r} : new[q] # new[r]

\* What a lost call may still do harms nobody.
VLate(l) ==
    /\ l.cid \in used
    /\ l.call \in {"create", "put"} => GivenUp(l.cid)
    /\ l.call = "create" => l.cid \in excused
    /\ l.call = "kvdelete" => l.cid \in doomed
    /\ l.call \in {"allow", "destroy"} =>
          GivenUp(l.cid) \/ (l.cid \in doomed /\ l.cid \notin kv)

\* Vault's state, against what callers were told.
VStored ==
    /\ issued \ doomed \subseteq keys \cap kv
    /\ issued \cap kv \subseteq keys
    /\ doomed \subseteq issued
    /\ erased \subseteq doomed
    /\ erased \cap keys = {}
    /\ erased \cap kv = {}
    /\ keys \cup kv \cup issued \subseteq used

\* The inductive invariant.
VInv ==
    /\ TypeOK
    /\ VStored
    /\ \A r \in Request : VControl(r) /\ VMaking(r) /\ VDistinct(r)
    /\ \A l \in late : VLate(l)
    /\ NoOrphanKeys

\* Its first part.
LEMMA VTyped == VInv => TypeOK
BY DEF VInv

\* The invariant holds initially.
LEMMA VaultInit == Init => VInv
BY VaultAssumption
   DEF Init, VInv, TypeOK, VStored, VControl, VMaking, VDistinct, VLate, NoOrphanKeys, Removing,
       Methods, Errors

-----------------------------------------------------------------------------
(* Calls *)

\* A reply that is no answer of Vault is a fault; Vault changes only when a
\* change is answered "ok".
LEMMA DoFacts ==
    ASSUME NEW r, NEW call, NEW c, NEW reply, Do(r, call, c, reply)
    PROVE  /\ pc[r] = call
           /\ reply \in Answers(call, c) \/ reply \in AllFaults
           /\ reply = "ok" => Effect(call, c) /\ late' = late
           /\ reply # "ok" => UNCHANGED <<keys, allowed, kv>>
           /\ late' = late \/ /\ reply = "lost" /\ call \in Changes
                              /\ late' = late \cup {[call |-> call, cid |-> c]}
<1>1. /\ "lost" \in AllFaults
      /\ Faults \subseteq AllFaults
      /\ "ok" \notin AllFaults
  BY VaultAssumption DEF AllFaults
<1>2. CASE /\ reply \in Answers(call, c)
           /\ IF reply = "ok" THEN Effect(call, c) ELSE UNCHANGED <<keys, allowed, kv>>
           /\ UNCHANGED late
  BY <1>2 DEF Do
<1>3. CASE reply \in Faults \ {"lost"} /\ UNCHANGED vaultVars
  BY <1>1, <1>3 DEF Do, vaultVars
<1>4. CASE /\ reply = "lost" /\ call \in Changes
           /\ late' = late \cup {[call |-> call, cid |-> c]}
           /\ UNCHANGED <<keys, allowed, kv>>
  BY Zenon, <1>1, <1>4 DEF Do
<1> QED BY <1>2, <1>3, <1>4 DEF Do

\* What Vault does, call by call.
LEMMA EffectFacts ==
    ASSUME NEW call, NEW c, Effect(call, c)
    PROVE  /\ call = "create" => keys' = keys \cup {c}
           /\ call = "destroy" => keys' = keys \ {c}
           /\ call \notin {"create", "destroy"} => keys' = keys
           /\ call = "put" => kv' = kv \cup {c}
           /\ call = "kvdelete" => kv' = kv \ {c}
           /\ call \notin {"put", "kvdelete"} => kv' = kv
           /\ call \notin {"allow", "destroy"} => allowed' = allowed
           /\ allowed' \subseteq allowed \cup {c}
BY DEF Effect

\* fmtVaultErr's errors.
LEMMA ErrFacts ==
    ASSUME NEW reply
    PROVE  fmtVaultErr(reply) \in {"unavailable", "err"}
BY DEF fmtVaultErr

\* A call that changes nothing in Vault.
LEMMA ReadFacts ==
    ASSUME NEW r, NEW call, call \notin Changes, NEW c, NEW reply, Do(r, call, c, reply)
    PROVE  /\ pc[r] = call
           /\ reply \in Answers(call, c) \/ reply \in AllFaults
           /\ UNCHANGED <<keys, allowed, kv, late>>
BY DoFacts, EffectFacts DEF Changes

-----------------------------------------------------------------------------
(* The invariant *)

\* What a step of r does to an artifact's two parts is no concern of others.
VaultFrame(r) ==
    \/ \A c \in CID \ {new[r]} : (c \in keys' <=> c \in keys) /\ (c \in kv' <=> c \in kv)
    \/ /\ keys' \subseteq keys /\ keys \ keys' \subseteq doomed
       /\ kv' \subseteq kv /\ kv \ kv' \subseteq doomed
       /\ \A c \in doomed : c \in kv' => c \in keys'

\* A step of a method.
LEMMA StepKeeps ==
    ASSUME VInv, NEW r \in Request, UNCHANGED <<op, cid, used, issued, erased>>,
           keys' \subseteq CID, kv' \subseteq CID, allowed' \subseteq CID, VaultFrame(r),
           pc[r] \in Calls,
           NEW p \in Calls \cup {"return"}, pc' = [pc EXCEPT ![r] = p],
           NEW n \in {new[r], NoCID}, new' = [new EXCEPT ![r] = n],
           NEW u \in BOOLEAN, undo' = [undo EXCEPT ![r] = u],
           NEW e \in Errors, err' = [err EXCEPT ![r] = e],
           undo[r] /\ n # NoCID => u,
           VControl(r)', VMaking(r)',
           new[r] \in keys' /\ n = NoCID => new[r] \in excused',
           doomed \subseteq doomed', doomed' \subseteq issued,
           excused \subseteq excused', excused' \subseteq CID,
           late' \subseteq [call : Changes, cid : CID],
           \A l \in late' : l \in late \/ VLate(l)'
    PROVE  VInv'
<1>0. /\ TypeOK /\ VStored /\ NoOrphanKeys /\ \A l \in late : VLate(l)
      /\ \A q \in Request : VControl(q) /\ VMaking(q) /\ VDistinct(q)
  BY Zenon DEF VInv
<1>1. TypeOK'
  BY Zenon, <1>0 DEF TypeOK
<1>2. \A q \in Request : /\ pc'[q] = IF q = r THEN p ELSE pc[q]
                         /\ new'[q] = IF q = r THEN n ELSE new[q]
                         /\ undo'[q] = IF q = r THEN u ELSE undo[q]
                         /\ err'[q] = IF q = r THEN e ELSE err[q]
  BY Zenon, <1>0 DEF TypeOK
<1>3. /\ NoCID \notin keys /\ NoCID \notin kv /\ NoCID \notin keys' /\ NoCID \notin kv'
      /\ new[r] \notin issued
      /\ new[r] # NoCID => new[r] \in used
  <2>1. NoCID \notin keys /\ NoCID \notin kv /\ NoCID \notin issued
    BY Zenon, <1>0, VaultAssumption DEF TypeOK
  <2>2. new[r] # NoCID => new[r] \in used \ issued
    BY Zenon, <1>0 DEF VMaking
  <2> QED BY Zenon, <2>1, <2>2, VaultAssumption
<1>a. /\ issued \ doomed \subseteq keys \cap kv /\ issued \cap kv \subseteq keys
      /\ doomed \subseteq issued /\ erased \subseteq doomed
      /\ keys \cup kv \cup issued \subseteq used /\ used \subseteq CID /\ issued \subseteq CID
  BY Zenon, <1>0 DEF VStored, TypeOK
<1>4. \A c \in issued : /\ c \in keys' => c \in keys
                        /\ c \in kv' => c \in kv
                        /\ c \notin doomed => (c \in keys => c \in keys') /\ (c \in kv => c \in kv')
                        /\ c \in kv' => c \in keys'
  BY Zenon, <1>3, <1>a DEF VaultFrame
<1>5. VStored'
  <2>1. keys' \cup kv' \subseteq used
    BY Zenon, <1>3, <1>a DEF VaultFrame
  <2> QED BY Zenon, <1>0, <1>4, <1>a, <2>1 DEF VStored
<1>6. ASSUME NEW q \in Request, q # r
      PROVE  VControl(q)' /\ VMaking(q)'
  <2>0. VControl(q) /\ VMaking(q) /\ VDistinct(q)
    BY Zenon, <1>0
  <2>1. new[q] # NoCID => new[q] # new[r] /\ new[q] \notin doomed /\ new[q] \in CID
    BY Zenon, <1>6, <1>a, <2>0 DEF VDistinct, VMaking
  <2>2. (new[q] \in keys' <=> new[q] \in keys) /\ (new[q] \in kv' <=> new[q] \in kv)
    BY <1>3, <2>1 DEF VaultFrame
  <2>3. UNCHANGED <<pc[q], op[q], cid[q], new[q], undo[q], err[q]>>
    BY Zenon, <1>2, <1>6
  <2>4. VMaking(q)'
    BY Zenon, <2>0, <2>2, <2>3 DEF VMaking
  <2>5. VControl(q)'
    BY Zenon, <1>4, <1>a, <2>0, <2>3 DEF VControl
  <2> QED BY <2>4, <2>5
<1>7. ASSUME NEW q \in Request PROVE VDistinct(q)'
  BY <1>0, <1>2 DEF VDistinct
<1>8. ASSUME NEW l \in late' PROVE VLate(l)'
  <2>1. CASE l \in late
    <3>1. l.cid # NoCID /\ VLate(l)
      BY Zenon, <1>0, <2>1, VaultAssumption DEF TypeOK
    <3>2. GivenUp(l.cid) => GivenUp(l.cid)'
      BY <1>2, <3>1 DEF GivenUp
    <3> QED BY Zenon, <1>4, <1>a, <3>1, <3>2 DEF VLate
  <2> QED BY Zenon, <2>1
<1>9. NoOrphanKeys'
  <2>1. ASSUME NEW c \in keys', c # new[r] PROVE c \in keys
    BY <2>1 DEF VaultFrame
  <2> QED BY <1>0, <1>2, <1>3, <2>1 DEF NoOrphanKeys
<1> QED BY Zenon, <1>1, <1>5, <1>6, <1>7, <1>8, <1>9, <1>0 DEF VInv

\* What a step may do to Vault and to the history.
VaultStep(r) ==
    /\ UNCHANGED <<used, issued, erased>>
    /\ keys' \subseteq CID /\ kv' \subseteq CID /\ allowed' \subseteq CID
    /\ VaultFrame(r)
    /\ doomed \subseteq doomed' /\ doomed' \subseteq issued
    /\ excused \subseteq excused' /\ excused' \subseteq CID
    /\ late' \subseteq [call : Changes, cid : CID]
    /\ \A l \in late' : l \in late \/ VLate(l)'

\* The method goes on.
LEMMA GotoKeeps ==
    ASSUME VInv, NEW r \in Request, pc[r] \in Calls, VaultStep(r),
           NEW p \in Calls, Goto(r, p), VControl(r)', VMaking(r)'
    PROVE  VInv'
<1>1. TypeOK
  BY DEF VInv
<1>2. PICK n \in {new[r], NoCID}, u \in BOOLEAN, e \in Errors :
        n = new[r] /\ u = undo[r] /\ e = err[r]
  BY <1>1 DEF TypeOK
<1>3. /\ UNCHANGED <<op, cid>> /\ pc' = [pc EXCEPT ![r] = p]
      /\ new' = [new EXCEPT ![r] = n]
      /\ undo' = [undo EXCEPT ![r] = u]
      /\ err' = [err EXCEPT ![r] = e]
  BY <1>1, <1>2 DEF Goto, TypeOK
<1>4. new[r] \in keys' /\ n = NoCID => new[r] \in excused'
  BY Zenon, <1>2, VaultAssumption DEF VaultStep
<1>5. undo[r] /\ n # NoCID => u
  BY <1>2
<1>6. p \in Calls \cup {"return"}
  OBVIOUS
<1> QED BY Zenon, <1>3, <1>4, <1>5, <1>6, StepKeeps DEF VaultStep

\* The method begins to roll back.
LEMMA RollbackKeeps ==
    ASSUME VInv, NEW r \in Request, pc[r] \in Calls, VaultStep(r),
           NEW e \in Errors, Rollback(r, e), VControl(r)', VMaking(r)'
    PROVE  VInv'
<1>1. TypeOK
  BY DEF VInv
<1>2. PICK n \in {new[r], NoCID}, u \in BOOLEAN, p \in Calls \cup {"return"} :
        n = new[r] /\ u = TRUE /\ p = "probe"
  BY Zenon DEF Calls
<1>3. /\ UNCHANGED <<op, cid>> /\ pc' = [pc EXCEPT ![r] = p]
      /\ new' = [new EXCEPT ![r] = n]
      /\ undo' = [undo EXCEPT ![r] = u]
      /\ err' = [err EXCEPT ![r] = e]
  BY <1>1, <1>2 DEF Rollback, TypeOK
<1>4. new[r] \in keys' /\ n = NoCID => new[r] \in excused'
  BY Zenon, <1>2, VaultAssumption DEF VaultStep
<1>5. undo[r] /\ n # NoCID => u
  BY Zenon, <1>2
<1> QED BY Zenon, <1>3, <1>4, <1>5, StepKeeps DEF VaultStep

\* The method ends.
LEMMA FinishKeeps ==
    ASSUME VInv, NEW r \in Request, pc[r] \in Calls, VaultStep(r),
           NEW e \in Errors, NEW n \in {new[r], NoCID}, Finish(r, e, n),
           undo[r] => n = NoCID,
           new[r] \in keys' /\ n = NoCID => new[r] \in excused',
           VControl(r)', VMaking(r)'
    PROVE  VInv'
<1>1. PICK u \in BOOLEAN, p \in Calls \cup {"return"} : u = FALSE /\ p = "return"
  BY Zenon
<1>2. /\ UNCHANGED <<op, cid>> /\ pc' = [pc EXCEPT ![r] = p]
      /\ new' = [new EXCEPT ![r] = n]
      /\ undo' = [undo EXCEPT ![r] = u]
      /\ err' = [err EXCEPT ![r] = e]
  BY Zenon, <1>1 DEF Finish
<1>3. undo[r] /\ n # NoCID => u
  OBVIOUS
<1> QED BY Zenon, <1>2, <1>3, StepKeeps DEF VaultStep

\* Where r is after Goto.
LEMMA GotoMoves ==
    ASSUME TypeOK, NEW r \in Request, NEW p, Goto(r, p)
    PROVE  /\ pc'[r] = p /\ new'[r] = new[r] /\ op'[r] = op[r] /\ cid'[r] = cid[r]
           /\ undo'[r] = undo[r] /\ err'[r] = err[r]
BY DEF Goto, TypeOK

\* Where r is when it begins to roll back.
LEMMA RollbackMoves ==
    ASSUME TypeOK, NEW r \in Request, NEW e, Rollback(r, e)
    PROVE  /\ pc'[r] = "probe" /\ new'[r] = new[r] /\ op'[r] = op[r] /\ cid'[r] = cid[r]
           /\ undo'[r] /\ err'[r] = e
BY DEF Rollback, TypeOK

\* Where r is when its method has ended.
LEMMA FinishMoves ==
    ASSUME TypeOK, NEW r \in Request, NEW e, NEW n, Finish(r, e, n)
    PROVE  /\ pc'[r] = "return" /\ new'[r] = n /\ op'[r] = op[r] /\ cid'[r] = cid[r]
           /\ ~undo'[r] /\ err'[r] = e
BY DEF Finish, TypeOK

\* A call that may be lost on the way.
LEMMA LateFacts ==
    ASSUME TypeOK, NEW call \in Changes, NEW c \in CID,
           late' = late \/ late' = late \cup {[call |-> call, cid |-> c]},
           late' = late \/ VLate([call |-> call, cid |-> c])'
    PROVE  /\ late' \subseteq [call : Changes, cid : CID]
           /\ \A l \in late' : l \in late \/ VLate(l)'
BY DEF TypeOK

\* What r has in hand when it makes a call.
LEMMA InHand ==
    ASSUME VInv, NEW r \in Request
    PROVE  /\ TypeOK /\ VControl(r) /\ VMaking(r) /\ VDistinct(r) /\ VStored
           /\ NoCID \notin keys /\ NoCID \notin kv
           /\ new[r] \in CID \cup {NoCID} /\ new[r] \notin issued
           /\ cid[r] \in CID \cup {NoCID}
           /\ err[r] \in Errors
BY VaultAssumption DEF VInv, TypeOK, VMaking

\* The errors of failed calls are errors.
LEMMA ErrTypes == {"nil", "notfound", "unavailable", "mismatch", "err"} \subseteq Errors
BY DEF Errors

\* Creating the Transit key keeps the invariant.
LEMMA CreateKeeps ==
    ASSUME VInv, NEW r \in Request, TransitCreateKey(r)
    PROVE  VInv'
<1>0. PICK c \in CID \cup {NoCID} : c = new[r]
  BY InHand
<1>1. PICK reply \in Replies :
        /\ Do(r, "create", c, reply)
        /\ IF reply = "ok"
           THEN Goto(r, "encrypt") /\ UNCHANGED excused
           ELSE /\ Finish(r, fmtVaultErr(reply), NoCID)
                /\ excused' = excused \cup {c}
        /\ UNCHANGED <<used, issued, doomed, erased>>
  BY <1>0 DEF TransitCreateKey
<1>2. /\ pc[r] = "create"
      /\ reply = "ok" => keys' = keys \cup {c} /\ UNCHANGED <<allowed, kv, late>>
      /\ reply # "ok" => UNCHANGED <<keys, allowed, kv>>
      /\ late' = late \/ late' = late \cup {[call |-> "create", cid |-> c]}
  BY <1>1, DoFacts, EffectFacts
<1>3. /\ op[r] \in {"generate", "rotate"} /\ c \in CID /\ c \in used \ issued
      /\ c \notin keys /\ c \notin kv /\ ~undo[r]
      /\ op[r] # "generate" => cid[r] \in issued
      /\ err[r] = "notfound" => cid[r] \in doomed
  BY Zenon, <1>0, <1>2, InHand DEF VControl, VMaking, Removing
<1>4. VaultFrame(r)
  BY Zenon, <1>0, <1>2 DEF VaultFrame
<1>5. CASE reply = "ok"
  <2>1. Goto(r, "encrypt") /\ UNCHANGED excused
    BY Zenon, <1>1, <1>5
  <2>2. VaultStep(r)
    BY Zenon, <1>1, <1>2, <1>3, <1>4, <1>5, <2>1, InHand DEF VaultStep, TypeOK, VStored
  <2>at. /\ pc'[r] = "encrypt" /\ new'[r] = new[r] /\ op'[r] = op[r] /\ cid'[r] = cid[r]
         /\ undo'[r] = undo[r] /\ err'[r] = err[r]
    BY Zenon, <2>1, GotoMoves, VTyped
  <2>3. VControl(r)'
    BY Zenon, <1>0, <1>1, <1>3, <2>1, <2>at, VaultAssumption DEF VControl, Removing
  <2>4. VMaking(r)'
    BY Zenon, <1>0, <1>1, <1>2, <1>3, <1>5, <2>1, <2>at, VaultAssumption DEF VMaking, Removing
  <2>5. "encrypt" \in Calls /\ pc[r] \in Calls
    BY <1>2 DEF Calls, Changes
  <2> QED BY <2>1, <2>2, <2>3, <2>4, <2>5, GotoKeeps
<1>6. CASE reply # "ok"
  <2>1. PICK e \in {"unavailable", "err"} :
          /\ Finish(r, e, NoCID)
          /\ excused' = excused \cup {c}
    BY <1>1, <1>6, ErrFacts
  <2>2. VLate([call |-> "create", cid |-> c])'
    <3>1. c \in excused' /\ c \in used'
      BY Zenon, <1>1, <1>3, <2>1
    <3>2. \A q \in Request : new'[q] # c
      BY Zenon, <1>0, <1>3, <2>1, InHand, VaultAssumption DEF Finish, VDistinct, TypeOK
    <3> QED BY Zenon, <1>1, <1>3, <3>1, <3>2 DEF VLate, GivenUp
  <2>3. VaultStep(r)
    <3>1. /\ late' \subseteq [call : Changes, cid : CID]
          /\ \A l \in late' : l \in late \/ VLate(l)'
      <4>1. "create" \in Changes
        BY DEF Changes
      <4> QED BY Zenon, <1>2, <1>3, <2>2, <4>1, LateFacts, InHand
    <3> QED BY Zenon, <1>1, <1>2, <1>3, <1>4, <1>6, <2>1, <3>1, InHand DEF VaultStep, TypeOK, VStored
  <2>at. /\ pc'[r] = "return" /\ new'[r] = NoCID /\ op'[r] = op[r] /\ cid'[r] = cid[r]
         /\ ~undo'[r] /\ err'[r] = e
    BY <2>1, FinishMoves, VTyped
  <2>4. VControl(r)'
    BY Zenon, <1>0, <1>1, <1>3, <2>1, <2>at, VaultAssumption DEF VControl, Removing
  <2>5. VMaking(r)'
    BY Zenon, <2>1, <2>at DEF VMaking, Removing
  <2>6. pc[r] \in Calls /\ e \in Errors /\ NoCID \in {new[r], NoCID}
    BY <1>2, ErrTypes DEF Calls, Changes
  <2>7. new[r] \in excused' /\ ~undo[r]
    BY <1>0, <1>3, <2>1
  <2> QED BY Zenon, <2>1, <2>3, <2>4, <2>5, <2>6, <2>7, FinishKeeps
<1> QED BY <1>5, <1>6

\* Wrapping the data key keeps the invariant.
LEMMA EncryptKeeps ==
    ASSUME VInv, NEW r \in Request, TransitEncrypt(r)
    PROVE  VInv'
<1>1. PICK reply \in Replies :
        /\ Do(r, "encrypt", new[r], reply)
        /\ IF reply = "ok" THEN Goto(r, "put") ELSE Rollback(r, fmtVaultErr(reply))
        /\ UNCHANGED histVars
  BY DEF TransitEncrypt
<1>2. pc[r] = "encrypt" /\ UNCHANGED <<keys, allowed, kv, late>>
  <2>1. "encrypt" \notin Changes
    BY DEF Changes
  <2> QED BY Zenon, <1>1, <2>1, ReadFacts
<1>3. VaultStep(r)
  BY Zenon, <1>1, <1>2, InHand DEF VaultStep, VaultFrame, TypeOK, VStored, histVars
<1>4. /\ op[r] \in {"generate", "rotate"} /\ new[r] # NoCID /\ ~undo[r]
      /\ new[r] \in keys /\ new[r] \in used \ issued
      /\ op[r] # "generate" => cid[r] \in issued
      /\ err[r] = "notfound" => cid[r] \in doomed
  BY Zenon, <1>2, InHand DEF VControl, VMaking, Removing
<1>5. pc[r] \in Calls /\ "put" \in Calls
  BY <1>2 DEF Calls, Changes
<1>6. CASE Goto(r, "put")
  <2>at. /\ pc'[r] = "put" /\ new'[r] = new[r] /\ op'[r] = op[r] /\ cid'[r] = cid[r]
         /\ undo'[r] = undo[r] /\ err'[r] = err[r]
    BY Zenon, <1>6, GotoMoves, VTyped
  <2>1. VControl(r)'
    BY Zenon, <1>1, <1>4, <1>6, <2>at DEF VControl, Removing, histVars
  <2>2. VMaking(r)'
    BY Zenon, <1>1, <1>2, <1>4, <1>6, <2>at DEF VMaking, Removing, histVars
  <2> QED BY Zenon, <1>3, <1>5, <1>6, <2>1, <2>2, GotoKeeps
<1>7. ASSUME NEW e \in {"unavailable", "err"}, Rollback(r, e) PROVE VInv'
  <2>at. /\ pc'[r] = "probe" /\ new'[r] = new[r] /\ op'[r] = op[r] /\ cid'[r] = cid[r]
         /\ undo'[r] /\ err'[r] = e
    BY Zenon, <1>7, RollbackMoves, VTyped
  <2>1. VControl(r)'
    BY Zenon, <1>1, <1>4, <1>7, <2>at DEF VControl, Removing, histVars
  <2>2. VMaking(r)'
    BY Zenon, <1>1, <1>2, <1>4, <1>7, <2>at DEF VMaking, Removing, histVars
  <2>3. e \in Errors
    BY ErrTypes
  <2> QED BY Zenon, <1>3, <1>5, <1>7, <2>1, <2>2, <2>3, RollbackKeeps
<1> QED BY <1>1, <1>6, <1>7, ErrFacts

\* Storing the wrapped key keeps the invariant.
LEMMA PutKeeps ==
    ASSUME VInv, NEW r \in Request, KvPutWrapped(r)
    PROVE  VInv'
<1>0. PICK c \in CID \cup {NoCID} : c = new[r]
  BY InHand
<1>1. PICK reply \in Replies :
        /\ Do(r, "put", c, reply)
        /\ IF reply # "ok"
           THEN Rollback(r, fmtVaultErr(reply)) /\ UNCHANGED doomed
           ELSE IF op[r] = "rotate"
           THEN Goto(r, "kvdelete") /\ doomed' = doomed \cup {cid[r]}
           ELSE Finish(r, "nil", c) /\ UNCHANGED doomed
        /\ UNCHANGED <<used, issued, erased, excused>>
  BY Zenon, <1>0 DEF KvPutWrapped
<1>2. /\ pc[r] = "put"
      /\ reply = "ok" => kv' = kv \cup {c} /\ UNCHANGED <<allowed, keys, late>>
      /\ reply # "ok" => UNCHANGED <<keys, allowed, kv>>
      /\ late' = late \/ late' = late \cup {[call |-> "put", cid |-> c]}
  BY <1>1, DoFacts, EffectFacts
<1>3. /\ op[r] \in {"generate", "rotate"} /\ c \in CID /\ c # NoCID /\ c \in used \ issued
      /\ c \in keys /\ ~undo[r]
      /\ op[r] # "generate" => cid[r] \in issued
      /\ err[r] = "notfound" => cid[r] \in doomed
  BY Zenon, <1>0, <1>2, InHand DEF VControl, VMaking, Removing
<1>4. VaultFrame(r)
  BY Zenon, <1>0, <1>2 DEF VaultFrame
<1>5. pc[r] \in Calls /\ "kvdelete" \in Calls
  BY <1>2 DEF Calls, Changes
<1>6. reply = "ok" => VaultStep(r)
  BY <1>1, <1>2, <1>3, <1>4, InHand DEF VaultStep, TypeOK, VStored
<1>7. CASE reply = "ok" /\ op[r] = "rotate"
  <2>1. Goto(r, "kvdelete") /\ doomed' = doomed \cup {cid[r]}
    BY Zenon, <1>1, <1>7
  <2>at. /\ pc'[r] = "kvdelete" /\ new'[r] = new[r] /\ op'[r] = op[r] /\ cid'[r] = cid[r]
         /\ undo'[r] = undo[r] /\ err'[r] = err[r]
    BY Zenon, <2>1, GotoMoves, VTyped
  <2>2. VControl(r)'
    BY Zenon, <1>0, <1>1, <1>3, <1>7, <2>1, <2>at DEF VControl, Removing
  <2>3. VMaking(r)'
    BY Zenon, <1>0, <1>1, <1>2, <1>3, <1>7, <2>1, <2>at DEF VMaking, Removing
  <2> QED BY Zenon, <1>5, <1>6, <1>7, <2>1, <2>2, <2>3, GotoKeeps
<1>8. CASE reply = "ok" /\ op[r] # "rotate"
  <2>1. Finish(r, "nil", c) /\ UNCHANGED doomed
    BY Zenon, <1>1, <1>8
  <2>at. /\ pc'[r] = "return" /\ new'[r] = c /\ op'[r] = op[r] /\ cid'[r] = cid[r]
         /\ ~undo'[r] /\ err'[r] = "nil"
    BY Zenon, <2>1, FinishMoves, VTyped
  <2>2. VControl(r)'
    BY Zenon, <1>0, <1>1, <1>3, <1>8, <2>1, <2>at DEF VControl, Removing
  <2>3. VMaking(r)'
    BY Zenon, <1>0, <1>1, <1>2, <1>3, <1>8, <2>1, <2>at DEF VMaking, Removing
  <2>4. "nil" \in Errors /\ c \in {new[r], NoCID}
    BY <1>0, ErrTypes
  <2> QED BY Zenon, <1>3, <1>5, <1>6, <1>8, <2>1, <2>2, <2>3, <2>4, FinishKeeps
<1>9. CASE reply # "ok"
  <2>1. PICK e \in {"unavailable", "err"} : Rollback(r, e) /\ UNCHANGED doomed
    BY Zenon, <1>1, <1>9, ErrFacts
  <2>2. VLate([call |-> "put", cid |-> c])'
    <3>1. \A q \in Request : new'[q] = c => undo'[q]
      BY Zenon, <1>0, <1>3, <2>1, InHand DEF Rollback, VDistinct, TypeOK
    <3> QED BY Zenon, <1>1, <1>3, <3>1 DEF VLate, GivenUp
  <2>3. /\ late' \subseteq [call : Changes, cid : CID]
        /\ \A l \in late' : l \in late \/ VLate(l)'
    <3>1. "put" \in Changes
      BY DEF Changes
    <3> QED BY Zenon, <1>2, <1>3, <2>2, <3>1, LateFacts, InHand
  <2>4. VaultStep(r)
    BY Zenon, <1>1, <1>2, <1>3, <1>4, <1>9, <2>1, <2>3, InHand DEF VaultStep, TypeOK, VStored
  <2>at. /\ pc'[r] = "probe" /\ new'[r] = new[r] /\ op'[r] = op[r] /\ cid'[r] = cid[r]
         /\ undo'[r] /\ err'[r] = e
    BY Zenon, <2>1, RollbackMoves, VTyped
  <2>5. VControl(r)'
    BY Zenon, <1>0, <1>1, <1>3, <2>1, <2>at DEF VControl, Removing
  <2>6. VMaking(r)'
    BY Zenon, <1>0, <1>1, <1>2, <1>3, <1>9, <2>1, <2>at DEF VMaking, Removing
  <2>7. e \in Errors
    BY ErrTypes
  <2> QED BY Zenon, <1>5, <2>1, <2>4, <2>5, <2>6, <2>7, RollbackKeeps
<1> QED BY <1>7, <1>8, <1>9

\* What Vault's answers say of its state.
LEMMA AnswerFacts ==
    ASSUME NEW c
    PROVE  /\ \A a \in Answers("kvget", c) : a = (IF c \in kv THEN "ok" ELSE "missing")
           /\ \A a \in Answers("unwrap", c) : a \in IF c \in keys THEN {"ok"} ELSE {"missing", "refused"}
           /\ \A a \in Answers("probe", c) : a = (IF c \in keys THEN "ok" ELSE "missing")
           /\ \A a \in Answers("destroy", c) : a = "missing" => c \notin keys
           /\ \A a \in Answers("kvdelete", c) : a = "missing" => c \notin kv
           /\ "ok" \in Answers("destroy", c) => c \in keys
<1>1. ASSUME NEW a \in Answers("kvget", c) PROVE a = (IF c \in kv THEN "ok" ELSE "missing")
  BY <1>1 DEF Answers
<1>2. ASSUME NEW a \in Answers("unwrap", c)
      PROVE  a \in IF c \in keys THEN {"ok"} ELSE {"missing", "refused"}
  BY <1>2 DEF Answers
<1>3. ASSUME NEW a \in Answers("probe", c) PROVE a = (IF c \in keys THEN "ok" ELSE "missing")
  BY <1>3 DEF Answers
<1>4. ASSUME NEW a \in Answers("destroy", c), a = "missing" PROVE c \notin keys
  BY <1>4 DEF Answers
<1>5. ASSUME NEW a \in Answers("kvdelete", c), a = "missing" PROVE c \notin kv
  BY <1>5 DEF Answers
<1>6. ASSUME "ok" \in Answers("destroy", c) PROVE c \in keys
  BY <1>6 DEF Answers
<1> QED BY <1>1, <1>2, <1>3, <1>4, <1>5, <1>6

\* A method that only reads ends, or Rotate before it made anything.
LEMMA ReadEnds ==
    ASSUME VInv, NEW r \in Request, pc[r] \in {"kvget", "unwrap"},
           UNCHANGED <<keys, allowed, kv, late, used, issued, doomed, erased, excused>>,
           NEW e \in Errors, Finish(r, e, NoCID),
           e = "notfound" => cid[r] \in doomed,
           e = "nil" => op[r] # "rotate"
    PROVE  VInv'
<1>1. VaultStep(r)
  BY Zenon, InHand DEF VaultStep, VaultFrame, TypeOK, VStored
<1>2. /\ op[r] \in {"decrypt", "wrap", "rotate"} /\ cid[r] \in issued
      /\ new[r] \notin keys /\ ~undo[r]
  BY Zenon, InHand DEF VControl, VMaking, Removing
<1>at. /\ pc'[r] = "return" /\ new'[r] = NoCID /\ op'[r] = op[r] /\ cid'[r] = cid[r]
       /\ ~undo'[r] /\ err'[r] = e
  BY Zenon, FinishMoves, VTyped
<1>3. VControl(r)'
  BY Zenon, <1>2, <1>at DEF VControl, Removing
<1>4. VMaking(r)'
  BY Zenon, <1>at DEF VMaking, Removing
<1>5. pc[r] \in Calls /\ NoCID \in {new[r], NoCID} /\ new[r] \notin keys'
  BY <1>2 DEF Calls
<1> QED BY Zenon, <1>1, <1>2, <1>3, <1>4, <1>5, FinishKeeps

\* It goes on.
LEMMA ReadGoes ==
    ASSUME VInv, NEW r \in Request,
           UNCHANGED <<keys, allowed, kv, late, used, issued, doomed, erased, excused>>,
           \/ pc[r] = "kvget" /\ Goto(r, "unwrap")
           \/ pc[r] = "unwrap" /\ op[r] = "rotate" /\ Goto(r, "create")
    PROVE  VInv'
<1>1. VaultStep(r)
  BY Zenon, InHand DEF VaultStep, VaultFrame, TypeOK, VStored
<1>2. PICK p \in {"unwrap", "create"} : Goto(r, p) /\ (p = "create" => op[r] = "rotate")
  OBVIOUS
<1>3. /\ op[r] \in {"decrypt", "wrap", "rotate"} /\ cid[r] \in issued
      /\ new[r] \notin keys /\ new[r] \notin kv /\ ~undo[r]
      /\ new[r] # NoCID => new[r] \in used \ issued
      /\ new[r] # NoCID <=> op[r] \in {"generate", "rotate"}
      /\ err[r] = "notfound" => cid[r] \in doomed
  BY Zenon, InHand DEF VControl, VMaking, Removing
<1>at. /\ pc'[r] = p /\ new'[r] = new[r] /\ op'[r] = op[r] /\ cid'[r] = cid[r]
       /\ undo'[r] = undo[r] /\ err'[r] = err[r]
  BY <1>2, GotoMoves, VTyped
<1>4. VControl(r)'
  BY Zenon, <1>2, <1>3, <1>at DEF VControl, Removing
<1>5. VMaking(r)'
  BY <1>2, <1>3, <1>at DEF VMaking, Removing
<1>6. pc[r] \in Calls /\ p \in Calls
  BY DEF Calls, Changes
<1> QED BY Zenon, <1>1, <1>2, <1>4, <1>5, <1>6, GotoKeeps

\* Fetching the wrapped key keeps the invariant.
LEMMA GetKeeps ==
    ASSUME VInv, NEW r \in Request, KvGetWrapped(r)
    PROVE  VInv'
<1>1. PICK reply \in Replies :
        /\ Do(r, "kvget", cid[r], reply)
        /\ CASE reply = "ok"      -> Goto(r, "unwrap")
             [] reply = "missing" -> Finish(r, "notfound", NoCID)
             [] OTHER             -> Finish(r, fmtVaultErr(reply), NoCID)
        /\ UNCHANGED histVars
  BY DEF KvGetWrapped
<1>2. /\ pc[r] = "kvget" /\ UNCHANGED <<keys, allowed, kv, late>>
      /\ reply = "missing" => cid[r] \notin kv
  <2>1. "kvget" \notin Changes /\ "missing" \notin AllFaults
    BY DEF Changes, AllFaults
  <2> QED BY Zenon, <1>1, <2>1, ReadFacts, AnswerFacts
<1>3. UNCHANGED <<used, issued, doomed, erased, excused>>
  BY <1>1 DEF histVars
<1>4. cid[r] \in issued
  BY Zenon, <1>2, InHand DEF VControl
<1>5. CASE reply = "ok"
  BY <1>1, <1>2, <1>3, <1>5, ReadGoes
<1>6. CASE reply = "missing"
  <2>1. Finish(r, "notfound", NoCID) /\ cid[r] \in doomed
    BY Zenon, <1>1, <1>2, <1>4, <1>6, InHand DEF VStored
  <2> QED BY Zenon, <1>2, <1>3, <2>1, ErrTypes, ReadEnds
<1>7. CASE reply \notin {"ok", "missing"}
  <2>1. PICK e \in {"unavailable", "err"} : Finish(r, e, NoCID)
    BY <1>1, <1>7, ErrFacts
  <2> QED BY <1>2, <1>3, <2>1, ErrTypes, ReadEnds
<1> QED BY <1>5, <1>6, <1>7

\* Unwrapping it keeps the invariant.
LEMMA DecryptKeeps ==
    ASSUME VInv, NEW r \in Request, TransitDecrypt(r)
    PROVE  VInv'
<1>1. PICK reply \in Replies :
        /\ Do(r, "unwrap", cid[r], reply)
        /\ CASE reply = "ok" ->
                  \/ /\ op[r] = "rotate"
                     /\ Goto(r, "create")
                  \/ /\ op[r] # "rotate"
                     /\ Finish(r, "nil", NoCID)
                  \/ \E e \in {"mismatch", "err"} :
                        /\ op[r] = "wrap" => e = "err"
                        /\ Finish(r, e, NoCID)
             [] reply = "missing" -> Finish(r, "notfound", NoCID)
             [] OTHER             -> Finish(r, fmtVaultErr(reply), NoCID)
        /\ UNCHANGED histVars
  BY DEF TransitDecrypt
<1>2. /\ pc[r] = "unwrap" /\ UNCHANGED <<keys, allowed, kv, late>>
      /\ reply = "missing" => cid[r] \notin keys
  <2>1. "unwrap" \notin Changes /\ "missing" \notin AllFaults
    BY DEF Changes, AllFaults
  <2> QED BY Zenon, <1>1, <2>1, ReadFacts, AnswerFacts
<1>3. UNCHANGED <<used, issued, doomed, erased, excused>>
  BY Zenon, <1>1 DEF histVars
<1>4. cid[r] \in issued
  BY Zenon, <1>2, InHand DEF VControl
<1>5. CASE op[r] = "rotate" /\ Goto(r, "create")
  BY Zenon, <1>2, <1>3, <1>5, ReadGoes
<1>6. CASE op[r] # "rotate" /\ Finish(r, "nil", NoCID)
  BY Zenon, <1>2, <1>3, <1>6, ErrTypes, ReadEnds
<1>7. ASSUME NEW e \in {"unavailable", "mismatch", "err"}, Finish(r, e, NoCID) PROVE VInv'
  BY <1>2, <1>3, <1>7, ErrTypes, ReadEnds
<1>8. CASE reply = "missing"
  <2>1. Finish(r, "notfound", NoCID) /\ cid[r] \in doomed
    BY <1>1, <1>2, <1>4, <1>8, InHand DEF VStored
  <2> QED BY <1>2, <1>3, <2>1, ErrTypes, ReadEnds
<1>9. CASE reply \notin {"ok", "missing"}
  BY <1>1, <1>7, <1>9, ErrFacts
<1>10. CASE reply = "ok"
  BY <1>1, <1>5, <1>6, <1>7, <1>10
<1> QED BY <1>8, <1>9, <1>10

\* Delete, or Rotate's deletion of the old artifact, fails on the way.
LEMMA DeleteFailsKeeps ==
    ASSUME VInv, NEW r \in Request, pc[r] \in {"kvdelete"} \cup Removing, ~undo[r],
           UNCHANGED <<keys, allowed, kv, used, issued, doomed, erased>>,
           NEW e \in {"unavailable", "err"}, DeleteFails(r, e),
           late' \subseteq [call : Changes, cid : CID],
           \A l \in late' : l \in late \/ VLate(l)'
    PROVE  VInv'
<1>1. PICK n \in {new[r], NoCID} : n = new[r] /\ Finish(r, e, n) /\ UNCHANGED excused
  BY DEF DeleteFails
<1>2. VaultStep(r)
  BY Zenon, <1>1, InHand DEF VaultStep, VaultFrame, TypeOK, VStored
<1>3. /\ op[r] \in {"delete", "rotate"} /\ cid[r] \in issued
      /\ new[r] # NoCID => /\ new[r] \in keys /\ new[r] \in kv
                           /\ new[r] \in used \ issued
  BY Zenon, InHand DEF VControl, VMaking, Removing
<1>at. /\ pc'[r] = "return" /\ new'[r] = n /\ op'[r] = op[r] /\ cid'[r] = cid[r]
       /\ ~undo'[r] /\ err'[r] = e
  BY <1>1, FinishMoves, VTyped
<1>4. VControl(r)'
  BY Zenon, <1>1, <1>3, <1>at DEF VControl, Removing
<1>5. VMaking(r)'
  BY Zenon, <1>1, <1>3, <1>at DEF VMaking, Removing
<1>6. /\ pc[r] \in Calls /\ e \in Errors
      /\ new[r] \in keys' /\ n = NoCID => new[r] \in excused'
  BY Zenon, <1>1, ErrTypes, InHand DEF Calls, Changes, Removing
<1> QED BY Zenon, <1>1, <1>2, <1>4, <1>5, <1>6, FinishKeeps

\* Deleting the wrapped key keeps the invariant.
LEMMA KvDeleteKeeps ==
    ASSUME VInv, NEW r \in Request, KvDeleteMetadata(r)
    PROVE  VInv'
<1>0. PICK c \in CID \cup {NoCID} : c = cid[r]
  BY InHand
<1>1. PICK reply \in Replies :
        /\ Do(r, "kvdelete", c, reply)
        /\ IF reply \in {"ok", "missing"}
           THEN Goto(r, "probe") /\ UNCHANGED excused
           ELSE DeleteFails(r, fmtVaultErr(reply))
        /\ UNCHANGED <<used, issued, doomed, erased>>
  BY <1>0 DEF KvDeleteMetadata
<1>2. /\ pc[r] = "kvdelete"
      /\ reply = "ok" => kv' = kv \ {c} /\ UNCHANGED <<allowed, keys, late>>
      /\ reply # "ok" => UNCHANGED <<keys, allowed, kv>>
      /\ reply = "missing" => UNCHANGED late /\ c \notin kv
      /\ late' = late \/ late' = late \cup {[call |-> "kvdelete", cid |-> c]}
  <2>1. "missing" \notin AllFaults
    BY DEF AllFaults
  <2> QED BY <1>1, <2>1, DoFacts, EffectFacts, AnswerFacts
<1>3. /\ op[r] \in {"delete", "rotate"} /\ c \in doomed /\ c \in issued /\ c \in CID /\ ~undo[r]
      /\ new[r] # c
      /\ new[r] # NoCID <=> op[r] \in {"generate", "rotate"}
      /\ new[r] # NoCID => /\ new[r] \in keys /\ new[r] \in kv
                           /\ new[r] \in used \ issued
  BY Zenon, <1>0, <1>2, InHand DEF VControl, VMaking, VStored, TypeOK, Removing
<1>4. pc[r] \in Calls /\ "probe" \in Calls
  BY <1>2 DEF Calls, Changes
<1>5. CASE reply \in {"ok", "missing"}
  <2>1. Goto(r, "probe") /\ UNCHANGED excused
    BY <1>1, <1>5
  <2>2. kv' = kv \ {c} /\ UNCHANGED <<allowed, keys, late>>
    BY <1>2, <1>5
  <2>3. VaultFrame(r)
    BY Zenon, <1>3, <2>2, InHand DEF VaultFrame, VStored
  <2>4. VaultStep(r)
    BY Zenon, <1>1, <2>1, <2>2, <2>3, InHand DEF VaultStep, TypeOK, VStored
  <2>at. /\ pc'[r] = "probe" /\ new'[r] = new[r] /\ op'[r] = op[r] /\ cid'[r] = cid[r]
         /\ undo'[r] = undo[r] /\ err'[r] = err[r]
    BY Zenon, <2>1, GotoMoves, VTyped
  <2>5. VControl(r)'
    BY Zenon, <1>0, <1>1, <1>3, <2>1, <2>2, <2>at DEF VControl, Removing
  <2>6. VMaking(r)'
    BY Zenon, <1>0, <1>1, <1>3, <2>1, <2>2, <2>at DEF VMaking, Removing
  <2> QED BY Zenon, <1>4, <2>1, <2>4, <2>5, <2>6, GotoKeeps
<1>6. CASE reply \notin {"ok", "missing"}
  <2>1. PICK e \in {"unavailable", "err"} : DeleteFails(r, e)
    BY <1>1, <1>6, ErrFacts
  <2>2. VLate([call |-> "kvdelete", cid |-> c])'
    BY Zenon, <1>1, <1>3, InHand DEF VLate, VStored
  <2>3. /\ late' \subseteq [call : Changes, cid : CID]
        /\ \A l \in late' : l \in late \/ VLate(l)'
    <3>1. "kvdelete" \in Changes
      BY DEF Changes
    <3> QED BY Zenon, <1>2, <1>3, <2>2, <3>1, LateFacts, InHand
  <2> QED BY Zenon, <1>1, <1>2, <1>3, <1>6, <2>1, <2>3, DeleteFailsKeeps
<1> QED BY <1>5, <1>6

\* What transitDeleteKey's target is.
LEMMA TargetFacts ==
    ASSUME VInv, NEW r \in Request, pc[r] \in Removing
    PROVE  /\ Target(r) \in CID
           /\ undo[r] => Target(r) = new[r] /\ new[r] \in used \ issued
           /\ ~undo[r] => /\ Target(r) = cid[r] /\ cid[r] \in issued /\ cid[r] \in doomed
                          /\ cid[r] \notin kv /\ new[r] # cid[r]
                          /\ op[r] \in {"delete", "rotate"}
                          /\ new[r] # NoCID => /\ new[r] \in keys /\ new[r] \in kv
                                               /\ new[r] \in used \ issued
           /\ op[r] \in {"generate", "delete", "rotate"}
           /\ new[r] # NoCID <=> op[r] \in {"generate", "rotate"}
           /\ op[r] # "generate" => cid[r] \in issued
           /\ err[r] = "notfound" => cid[r] \in doomed
<1>1. /\ undo[r] => op[r] \in {"generate", "rotate"}
      /\ ~undo[r] => op[r] \in {"delete", "rotate"} /\ cid[r] \in doomed /\ cid[r] \notin kv
      /\ new[r] # NoCID <=> op[r] \in {"generate", "rotate"}
      /\ op[r] # "generate" => cid[r] \in issued
      /\ err[r] = "notfound" => cid[r] \in doomed
  BY Zenon, InHand DEF VControl, Removing
<1>2. new[r] # NoCID => new[r] \in used \ issued
  BY Zenon, InHand DEF VMaking
<1>3. ~undo[r] /\ new[r] # NoCID => new[r] \in keys /\ new[r] \in kv
  BY InHand DEF VMaking
<1> QED BY Zenon, <1>1, <1>2, <1>3, InHand DEF Target, TypeOK

\* transitDeleteKey goes on.
LEMMA RemovalGoes ==
    ASSUME VInv, NEW r \in Request, pc[r] \in Removing,
           UNCHANGED <<keys, kv, late, used, issued, doomed, erased, excused>>,
           allowed' \subseteq CID, NEW p \in {"allow", "destroy"}, Goto(r, p)
    PROVE  VInv'
<1>1. VaultStep(r)
  BY Zenon, InHand DEF VaultStep, VaultFrame, TypeOK, VStored
<1>2. undo[r] => err[r] \in {"unavailable", "err"} /\ op[r] \in {"generate", "rotate"}
  BY Zenon, InHand DEF VControl
<1>at. /\ pc'[r] = p /\ new'[r] = new[r] /\ op'[r] = op[r] /\ cid'[r] = cid[r]
       /\ undo'[r] = undo[r] /\ err'[r] = err[r]
  BY Zenon, GotoMoves, VTyped
<1>3. VControl(r)'
  BY <1>2, TargetFacts, <1>at DEF VControl, Removing
<1>4. VMaking(r)'
  BY Zenon, TargetFacts, <1>at DEF VMaking, Removing
<1>5. pc[r] \in Calls /\ p \in Calls
  BY DEF Calls, Changes, Removing
<1> QED BY Zenon, <1>1, <1>3, <1>4, <1>5, GotoKeeps

\* The key is gone.
LEMMA KeyDeletedKeeps ==
    ASSUME VInv, NEW r \in Request, pc[r] \in Removing, KeyDeleted(r),
           keys' = keys \ {Target(r)}, allowed' \subseteq CID,
           UNCHANGED <<kv, late, used, issued, doomed, erased>>
    PROVE  VInv'
<1>1. VaultFrame(r)
  BY Zenon, TargetFacts, InHand DEF VaultFrame, VStored
<1>2. UNCHANGED excused
  BY Zenon DEF KeyDeleted
<1>3. VaultStep(r)
  BY Zenon, <1>1, <1>2, InHand DEF VaultStep, TypeOK, VStored
<1>4. pc[r] \in Calls
  BY DEF Calls, Changes, Removing
<1>5. CASE undo[r]
  <2>1. PICK e \in Errors : e = err[r]
    BY InHand
  <2>2. Finish(r, e, NoCID) /\ e \in {"unavailable", "err"} /\ NoCID \in {new[r], NoCID}
    BY Zenon, <1>5, <2>1, InHand DEF KeyDeleted, VControl
  <2>at. /\ pc'[r] = "return" /\ new'[r] = NoCID /\ op'[r] = op[r] /\ cid'[r] = cid[r]
         /\ ~undo'[r] /\ err'[r] = e
    BY Zenon, <2>2, FinishMoves, VTyped
  <2>3. VControl(r)'
    BY Zenon, <2>2, TargetFacts, <2>at DEF VControl, Removing
  <2>4. VMaking(r)'
    BY Zenon, <2>2, <2>at DEF VMaking, Removing
  <2>5. new[r] \notin keys'
    BY Zenon, <1>5, TargetFacts
  <2> QED BY Zenon, <1>3, <1>4, <2>2, <2>3, <2>4, <2>5, FinishKeeps
<1>6. CASE ~undo[r]
  <2>1. PICK n \in {new[r], NoCID} : n = new[r] /\ Finish(r, "nil", n)
    BY <1>6 DEF KeyDeleted
  <2>at. /\ pc'[r] = "return" /\ new'[r] = n /\ op'[r] = op[r] /\ cid'[r] = cid[r]
         /\ ~undo'[r] /\ err'[r] = "nil"
    BY <2>1, FinishMoves, VTyped
  <2>2. VControl(r)'
    BY Zenon, <1>6, <2>1, TargetFacts, <2>at DEF VControl, Removing
  <2>3. VMaking(r)'
    BY Zenon, <1>6, <2>1, TargetFacts, <2>at DEF VMaking, Removing
  <2>4. "nil" \in Errors /\ (new[r] \in keys' /\ n = NoCID => new[r] \in excused')
    BY Zenon, <2>1, ErrTypes, InHand
  <2> QED BY Zenon, <1>3, <1>4, <1>6, <2>1, <2>2, <2>3, <2>4, FinishKeeps
<1> QED BY Zenon, <1>5, <1>6

\* The key may still be there, and a lost call may yet remove it.
LEMMA KeyNotDeletedKeeps ==
    ASSUME VInv, NEW r \in Request, pc[r] \in Removing,
           NEW e \in {"unavailable", "err"}, KeyNotDeleted(r, e),
           UNCHANGED <<keys, allowed, kv, used, issued, doomed, erased>>,
           NEW call \in {"allow", "destroy"}, NEW c \in CID, c = Target(r),
           late' = late \/ late' = late \cup {[call |-> call, cid |-> c]}
    PROVE  VInv'
<1>1. CASE undo[r]
  <2>1. PICK f \in Errors : f = err[r]
    BY Zenon, InHand
  <2>2. /\ Finish(r, f, NoCID) /\ f \in {"unavailable", "err"} /\ NoCID \in {new[r], NoCID}
        /\ excused' = excused \cup {c}
        /\ c = new[r] /\ c \in used \ issued
    BY Zenon, <1>1, <2>1, TargetFacts, InHand DEF KeyNotDeleted, VControl
  <2>3. VLate([call |-> call, cid |-> c])'
    <3>1. \A q \in Request : new'[q] # c
      BY Zenon, <2>2, InHand, VaultAssumption DEF Finish, VDistinct, TypeOK
    <3> QED BY Zenon, <2>2, <3>1 DEF VLate, GivenUp
  <2>4. /\ late' \subseteq [call : Changes, cid : CID]
        /\ \A l \in late' : l \in late \/ VLate(l)'
    <3>1. call \in Changes
      BY DEF Changes
    <3> QED BY Zenon, <2>3, <3>1, LateFacts, InHand
  <2>5. VaultStep(r)
    BY Zenon, <2>2, <2>4, InHand DEF VaultStep, VaultFrame, TypeOK, VStored
  <2>at. /\ pc'[r] = "return" /\ new'[r] = NoCID /\ op'[r] = op[r] /\ cid'[r] = cid[r]
         /\ ~undo'[r] /\ err'[r] = f
    BY Zenon, <2>2, FinishMoves, VTyped
  <2>6. VControl(r)'
    BY Zenon, <2>2, TargetFacts, <2>at DEF VControl, Removing
  <2>7. VMaking(r)'
    BY Zenon, <2>2, <2>at DEF VMaking, Removing
  <2>8. pc[r] \in Calls /\ new[r] \in excused'
    BY Zenon, <2>2 DEF Calls, Changes, Removing
  <2> QED BY Zenon, <2>2, <2>5, <2>6, <2>7, <2>8, FinishKeeps
<1>2. CASE ~undo[r]
  <2>1. DeleteFails(r, e)
    BY Zenon, <1>2 DEF KeyNotDeleted
  <2>2. VLate([call |-> call, cid |-> c])'
    BY <1>2, TargetFacts, InHand DEF VLate, VStored
  <2>3. /\ late' \subseteq [call : Changes, cid : CID]
        /\ \A l \in late' : l \in late \/ VLate(l)'
    <3>1. call \in Changes
      BY DEF Changes
    <3> QED BY Zenon, <2>2, <3>1, LateFacts, InHand
  <2> QED BY Zenon, <1>2, <2>1, <2>3, DeleteFailsKeeps
<1> QED BY Zenon, <1>1, <1>2

\* transitDeleteKey's existence check keeps the invariant.
LEMMA ProbeKeeps ==
    ASSUME VInv, NEW r \in Request, TransitProbe(r)
    PROVE  VInv'
<1>0. PICK c : c = Target(r)
  OBVIOUS
<1>1. PICK reply \in Replies :
        /\ Do(r, "probe", c, reply)
        /\ CASE reply = "ok"      -> Goto(r, "allow") /\ UNCHANGED excused
             [] reply = "missing" -> KeyDeleted(r)
             [] OTHER             -> KeyNotDeleted(r, fmtVaultErr(reply))
        /\ UNCHANGED <<used, issued, doomed, erased>>
  BY <1>0 DEF TransitProbe
<1>2. /\ pc[r] = "probe" /\ UNCHANGED <<keys, allowed, kv, late>>
      /\ reply = "missing" => c \notin keys
  <2>1. "probe" \notin Changes /\ "missing" \notin AllFaults
    BY DEF Changes, AllFaults
  <2> QED BY Zenon, <1>1, <2>1, ReadFacts, AnswerFacts
<1>3. pc[r] \in Removing /\ allowed' \subseteq CID
  BY <1>2, InHand DEF Removing, TypeOK
<1>4. CASE reply = "ok"
  BY <1>1, <1>2, <1>3, <1>4, RemovalGoes
<1>5. CASE reply = "missing"
  <2>1. KeyDeleted(r) /\ keys' = keys \ {Target(r)}
    BY <1>0, <1>1, <1>2, <1>5
  <2> QED BY <1>1, <1>2, <1>3, <2>1, KeyDeletedKeeps
<1>6. CASE reply \notin {"ok", "missing"}
  <2>1. PICK e \in {"unavailable", "err"} : KeyNotDeleted(r, e)
    BY <1>1, <1>6, ErrFacts
  <2>2. c \in CID
    BY <1>0, <1>3, TargetFacts
  <2> QED BY <1>0, <1>1, <1>2, <1>3, <2>1, <2>2, KeyNotDeletedKeeps
<1> QED BY <1>4, <1>5, <1>6

\* Its POST of deletion_allowed keeps the invariant.
LEMMA AllowKeeps ==
    ASSUME VInv, NEW r \in Request, TransitAllow(r)
    PROVE  VInv'
<1>0. PICK c : c = Target(r)
  OBVIOUS
<1>1. PICK reply \in Replies :
        /\ Do(r, "allow", c, reply)
        /\ IF reply = "ok" THEN Goto(r, "destroy") /\ UNCHANGED excused
                           ELSE KeyNotDeleted(r, fmtVaultErr(reply))
        /\ UNCHANGED <<used, issued, doomed, erased>>
  BY <1>0 DEF TransitAllow
<1>2. /\ pc[r] = "allow"
      /\ UNCHANGED <<keys, kv>>
      /\ reply = "ok" => UNCHANGED late
      /\ reply # "ok" => UNCHANGED allowed
      /\ allowed' \subseteq allowed \cup {c}
      /\ late' = late \/ late' = late \cup {[call |-> "allow", cid |-> c]}
  BY SMTT(20), <1>1, DoFacts, EffectFacts
<1>3. pc[r] \in Removing /\ c \in CID /\ allowed' \subseteq CID
  BY <1>0, <1>2, TargetFacts, InHand DEF Removing, TypeOK
<1>4. CASE reply = "ok"
  BY <1>1, <1>2, <1>3, <1>4, RemovalGoes
<1>5. CASE reply # "ok"
  <2>1. PICK e \in {"unavailable", "err"} : KeyNotDeleted(r, e)
    BY <1>1, <1>5, ErrFacts
  <2> QED BY <1>0, <1>1, <1>2, <1>3, <1>5, <2>1, KeyNotDeletedKeeps
<1> QED BY <1>4, <1>5

\* Its DELETE keeps the invariant.
LEMMA DestroyKeeps ==
    ASSUME VInv, NEW r \in Request, TransitDestroy(r)
    PROVE  VInv'
<1>0. PICK c : c = Target(r)
  OBVIOUS
<1>1. PICK reply \in Replies :
        /\ Do(r, "destroy", c, reply)
        /\ IF reply \in {"ok", "missing"} THEN KeyDeleted(r)
                                          ELSE KeyNotDeleted(r, fmtVaultErr(reply))
        /\ UNCHANGED <<used, issued, doomed, erased>>
  BY <1>0 DEF TransitDestroy
<1>2. /\ pc[r] = "destroy"
      /\ reply = "ok" => keys' = keys \ {c} /\ UNCHANGED <<kv, late>>
      /\ reply # "ok" => UNCHANGED <<keys, allowed, kv>>
      /\ reply = "missing" => UNCHANGED late /\ c \notin keys
      /\ allowed' \subseteq allowed \cup {c}
      /\ late' = late \/ late' = late \cup {[call |-> "destroy", cid |-> c]}
  <2>1. "missing" \notin AllFaults
    BY DEF AllFaults
  <2> QED BY <1>1, <2>1, DoFacts, EffectFacts, AnswerFacts
<1>3. pc[r] \in Removing /\ c \in CID /\ allowed' \subseteq CID
  BY <1>0, <1>2, TargetFacts, InHand DEF Removing, TypeOK
<1>4. CASE reply \in {"ok", "missing"}
  <2>1. KeyDeleted(r) /\ keys' = keys \ {Target(r)} /\ UNCHANGED <<kv, late>>
    BY <1>0, <1>1, <1>2, <1>4
  <2> QED BY <1>1, <1>3, <2>1, KeyDeletedKeeps
<1>5. CASE reply \notin {"ok", "missing"}
  <2>1. PICK e \in {"unavailable", "err"} : KeyNotDeleted(r, e)
    BY <1>1, <1>5, ErrFacts
  <2> QED BY <1>0, <1>1, <1>2, <1>3, <1>5, <2>1, KeyNotDeletedKeeps
<1> QED BY <1>4, <1>5

\* A call keeps the invariant: the CID it draws is new.
LEMMA CallKeeps ==
    ASSUME VInv, NEW r \in Request, Call(r)
    PROVE  VInv'
<1>0. /\ TypeOK /\ VStored /\ NoOrphanKeys /\ \A l \in late : VLate(l)
      /\ \A q \in Request : VControl(q) /\ VMaking(q) /\ VDistinct(q)
  BY DEF VInv
<1>1. PICK o \in Methods, c \in issued \cup {NoCID}, n \in (CID \ used) \cup {NoCID},
           p \in {"create", "kvdelete", "kvget"} :
        /\ (c = NoCID) <=> (o = "generate")
        /\ (n = NoCID) <=> (o \notin {"generate", "rotate"})
        /\ p = "create" <=> o = "generate"
        /\ p = "kvdelete" <=> o = "delete"
        /\ pc' = [pc EXCEPT ![r] = p]
        /\ op' = [op EXCEPT ![r] = o]
        /\ cid' = [cid EXCEPT ![r] = c]
        /\ new' = [new EXCEPT ![r] = n]
        /\ used' = used \cup ({n} \ {NoCID})
        /\ doomed' = doomed \cup {d \in {c} : o = "delete"}
  BY Zenon DEF Call
<1>2. pc[r] = "idle" /\ UNCHANGED <<keys, allowed, kv, late, undo, err, issued, erased, excused>>
  BY DEF Call, vaultVars
<1>3. /\ doomed \subseteq doomed'
      /\ o = "delete" => c \in doomed'
      /\ used \subseteq used'
      /\ n # NoCID => n \in used' /\ n \notin used /\ n \in CID
  BY <1>1
<1>4. doomed \subseteq issued /\ keys \cup kv \cup issued \subseteq used /\ NoCID \notin used
  BY Zenon, <1>0, VaultAssumption DEF VStored, TypeOK
<1>5. used \subseteq CID /\ issued \subseteq CID /\ doomed \subseteq CID
  BY <1>0 DEF TypeOK
<1>6. /\ doomed' \subseteq issued /\ used' \subseteq CID /\ doomed' \subseteq CID
      /\ n \notin keys /\ n \notin kv /\ n \notin issued
  BY <1>1, <1>3, <1>4, <1>5
<1>7. new[r] = NoCID /\ ~undo[r] /\ (err[r] = "notfound" => NoCID \in doomed)
  BY Zenon, <1>0, <1>2 DEF VControl, Removing
<1>8. TypeOK'
  <2>1. c \in CID \cup {NoCID} /\ n \in CID \cup {NoCID} /\ p \in Calls
    BY <1>1, <1>5 DEF Calls, Changes
  <2> QED BY Zenon, <1>0, <1>1, <1>2, <1>6, <2>1 DEF TypeOK
<1>9. \A q \in Request : /\ pc'[q] = IF q = r THEN p ELSE pc[q]
                         /\ op'[q] = IF q = r THEN o ELSE op[q]
                         /\ cid'[q] = IF q = r THEN c ELSE cid[q]
                         /\ new'[q] = IF q = r THEN n ELSE new[q]
  BY Zenon, <1>0, <1>1 DEF TypeOK
<1>10. VControl(r)' /\ VMaking(r)'
  <2>1. pc'[r] = p /\ op'[r] = o /\ cid'[r] = c /\ new'[r] = n
    BY Zenon, <1>9
  <2>2. err[r] # "notfound"
    BY <1>4, <1>7
  <2>3. /\ p \notin {"idle", "return", "unwrap", "encrypt", "put"} /\ p \notin Removing
        /\ p = "kvget" => o \in {"decrypt", "wrap", "rotate"}
        /\ p = "kvdelete" => n = NoCID
        /\ o # "generate" => c \in issued
    BY SMTT(20), <1>1 DEF Methods, Removing
  <2>4. VControl(r)'
    <3>1. /\ ~undo'[r] /\ err'[r] # "notfound" /\ issued' = issued
          /\ n # NoCID <=> o \in {"generate", "rotate"}
          /\ p \in {"create", "encrypt", "put"} => o \in {"generate", "rotate"}
          /\ p = "kvdelete" => o \in {"delete", "rotate"} /\ c \in doomed'
      BY <1>1, <1>2, <1>3, <1>7, <2>2, <2>3
    <3> QED BY <2>1, <2>3, <3>1 DEF VControl
  <2>5. VMaking(r)'
    BY Zenon, <1>2, <1>3, <1>6, <2>1, <2>3 DEF VMaking
  <2> QED BY <2>4, <2>5
<1>11. ASSUME NEW q \in Request, q # r PROVE VControl(q)' /\ VMaking(q)'
  <2>1. UNCHANGED <<pc[q], op[q], cid[q], new[q]>>
    BY Zenon, <1>9, <1>11
  <2>2. VControl(q) /\ VMaking(q)
    BY <1>0
  <2>3. VControl(q)'
    BY Zenon, <1>2, <1>3, <2>1, <2>2 DEF VControl
  <2>4. VMaking(q)'
    BY Zenon, <1>2, <1>3, <2>1, <2>2 DEF VMaking
  <2> QED BY <2>3, <2>4
<1>12. ASSUME NEW q \in Request PROVE VDistinct(q)'
  <2>1. \A x \in Request : new[x] # NoCID => new[x] \in used
    BY Zenon, <1>0 DEF VMaking
  <2>2. \A x \in Request \ {q} : new[q] # NoCID => new[x] # new[q]
    BY <1>0 DEF VDistinct
  <2> QED BY <1>3, <1>9, <2>1, <2>2 DEF VDistinct
<1>13. ASSUME NEW l \in late' PROVE VLate(l)'
  <2>1. VLate(l) /\ l.cid \in used /\ l.cid # n
    BY Zenon, <1>0, <1>2, <1>3, <1>4 DEF VLate
  <2>2. GivenUp(l.cid) => GivenUp(l.cid)'
    BY Zenon, <1>2, <1>9, <2>1 DEF GivenUp
  <2> QED BY Zenon, <1>2, <1>3, <2>1, <2>2 DEF VLate
<1>14. NoOrphanKeys'
  <2>1. \A q \in Request : new'[q] = new[q] \/ new[q] = NoCID
    BY Zenon, <1>7, <1>9
  <2>2. NoCID \notin keys
    BY <1>4
  <2> QED BY Zenon, <1>0, <1>2, <2>1, <2>2 DEF NoOrphanKeys
<1>15. VStored'
  BY Zenon, <1>0, <1>2, <1>3, <1>6 DEF VStored
<1> QED BY <1>8, <1>10, <1>11, <1>12, <1>13, <1>14, <1>15 DEF VInv

\* A call refused before it reaches Vault keeps the invariant.
LEMMA RejectKeeps ==
    ASSUME VInv, NEW r \in Request, Reject(r)
    PROVE  VInv'
<1>0. /\ TypeOK /\ VStored /\ NoOrphanKeys /\ \A l \in late : VLate(l)
      /\ \A q \in Request : VControl(q) /\ VMaking(q) /\ VDistinct(q)
  BY DEF VInv
<1>1. PICK o \in {"generate", "wrap"} : op' = [op EXCEPT ![r] = o]
  BY Zenon DEF Reject
<1>2. /\ pc[r] = "idle" /\ pc' = [pc EXCEPT ![r] = "return"] /\ err' = [err EXCEPT ![r] = "err"]
      /\ UNCHANGED <<keys, allowed, kv, late, cid, new, undo, used, issued, doomed, erased, excused>>
  BY DEF Reject, vaultVars, histVars
<1>3. TypeOK'
  BY Zenon, <1>0, <1>1, <1>2 DEF TypeOK, Methods, Errors
<1>4. \A q \in Request : /\ pc'[q] = IF q = r THEN "return" ELSE pc[q]
                         /\ op'[q] = IF q = r THEN o ELSE op[q]
                         /\ err'[q] = IF q = r THEN "err" ELSE err[q]
  BY Zenon, <1>0, <1>1, <1>2 DEF TypeOK
<1>5. VControl(r)' /\ VMaking(r)'
  <2>1. pc'[r] = "return" /\ op'[r] = o /\ err'[r] = "err"
    BY Zenon, <1>4
  <2>2. new[r] = NoCID /\ ~undo[r] /\ "return" \notin Removing
    BY Zenon, <1>0, <1>2 DEF VControl, Removing
  <2>3. VControl(r)'
    BY Zenon, <1>2, <2>1, <2>2 DEF VControl
  <2>4. VMaking(r)'
    BY Zenon, <1>2, <2>1, <2>2 DEF VMaking
  <2> QED BY <2>3, <2>4
<1>6. ASSUME NEW q \in Request, q # r PROVE VControl(q)' /\ VMaking(q)'
  <2>1. UNCHANGED <<pc[q], op[q], err[q]>> /\ VControl(q) /\ VMaking(q)
    BY Zenon, <1>0, <1>4, <1>6
  <2>2. VControl(q)'
    BY Zenon, <1>2, <2>1 DEF VControl
  <2>3. VMaking(q)'
    BY Zenon, <1>2, <2>1 DEF VMaking
  <2> QED BY <2>2, <2>3
<1>7. ASSUME NEW q \in Request PROVE VDistinct(q)'
  BY Zenon, <1>0, <1>2 DEF VDistinct
<1>8. ASSUME NEW l \in late' PROVE VLate(l)'
  BY Zenon, <1>0, <1>2 DEF VLate, GivenUp
<1>9. NoOrphanKeys' /\ VStored'
  BY Zenon, <1>0, <1>2 DEF NoOrphanKeys, VStored
<1> QED BY <1>3, <1>5, <1>6, <1>7, <1>8, <1>9 DEF VInv

\* The requests that leave are idle, the others go on.
LEMMA LeaveFacts ==
    ASSUME TypeOK, NEW rs \in SUBSET Request, Leave(rs)
    PROVE  /\ pc' \in [Request -> Calls \cup {"idle", "return"}]
           /\ op' \in [Request -> Methods]
           /\ cid' \in [Request -> CID \cup {NoCID}]
           /\ new' \in [Request -> CID \cup {NoCID}]
           /\ undo' \in [Request -> BOOLEAN]
           /\ err' \in [Request -> Errors]
           /\ \A q \in rs : /\ pc'[q] = "idle" /\ op'[q] = "decrypt" /\ cid'[q] = NoCID
                            /\ new'[q] = NoCID /\ ~undo'[q] /\ err'[q] = "nil"
           /\ \A q \in Request \ rs : /\ pc'[q] = pc[q] /\ op'[q] = op[q] /\ cid'[q] = cid[q]
                                      /\ new'[q] = new[q] /\ undo'[q] = undo[q]
                                      /\ err'[q] = err[q]
BY Zenon DEF Leave, TypeOK, Methods, Errors, Calls

\* A return keeps the invariant: what it issues is complete.
LEMMA ReturnKeeps ==
    ASSUME VInv, NEW r \in Request, Return(r)
    PROVE  VInv'
<1>0. /\ TypeOK /\ VStored /\ NoOrphanKeys /\ \A l \in late : VLate(l)
      /\ \A q \in Request : VControl(q) /\ VMaking(q) /\ VDistinct(q)
  BY DEF VInv
<1>1. /\ pc[r] = "return" /\ Leave({r})
      /\ issued' = issued \cup ({new[r]} \ {NoCID})
      /\ UNCHANGED <<keys, allowed, kv, late, used, doomed, excused>>
  BY Zenon DEF Return, vaultVars
<1>2. /\ \A q \in Request \ {r} : /\ pc'[q] = pc[q] /\ op'[q] = op[q] /\ cid'[q] = cid[q]
                                  /\ new'[q] = new[q] /\ undo'[q] = undo[q] /\ err'[q] = err[q]
      /\ pc'[r] = "idle" /\ op'[r] = "decrypt" /\ cid'[r] = NoCID /\ new'[r] = NoCID
      /\ ~undo'[r] /\ err'[r] = "nil"
  BY <1>0, <1>1, LeaveFacts
<1>3. /\ erased \subseteq erased'
      /\ \A c \in erased' \ erased : c \in doomed /\ c \notin keys /\ c \notin kv
  BY Zenon, <1>0, <1>1 DEF Return, VControl
<1>4. TypeOK'
  <2>1. erased' \subseteq CID /\ issued' \subseteq CID
    BY Zenon, <1>0, <1>1, <1>3 DEF TypeOK
  <2> QED BY Zenon, <1>0, <1>1, <2>1, LeaveFacts DEF TypeOK
<1>5. new[r] # NoCID => /\ new[r] \in keys /\ new[r] \in kv
                        /\ new[r] \in used \ issued /\ ~undo[r]
  BY Zenon, <1>0, <1>1 DEF VMaking, VControl, Removing
<1>6. VStored'
  BY <1>0, <1>1, <1>3, <1>5 DEF VStored
<1>7. ASSUME NEW q \in Request PROVE VControl(q)' /\ VMaking(q)' /\ VDistinct(q)'
  <2>1. CASE q = r
    BY Zenon, <1>1, <1>2, <2>1 DEF VControl, VMaking, VDistinct, Removing
  <2>2. CASE q # r
    <3>0. /\ VControl(q) /\ VMaking(q) /\ VDistinct(q) /\ issued \subseteq issued'
          /\ UNCHANGED <<pc[q], op[q], cid[q], new[q], undo[q], err[q]>>
      BY <1>0, <1>1, <1>2, <2>2
    <3>1. VControl(q)'
      BY Zenon, <1>1, <3>0 DEF VControl
    <3>2. new[q] # NoCID => new[q] # new[r]
      BY <2>2, <3>0 DEF VDistinct
    <3>3. VMaking(q)'
      BY Zenon, <1>1, <3>0, <3>2 DEF VMaking
    <3>4. VDistinct(q)'
      BY <1>2, <3>0 DEF VDistinct
    <3> QED BY <3>1, <3>3, <3>4
  <2> QED BY <2>1, <2>2
<1>8. ASSUME NEW l \in late' PROVE VLate(l)'
  <2>1. VLate(l) /\ l.cid # NoCID
    BY Zenon, <1>0, <1>1, VaultAssumption DEF TypeOK
  <2>2. GivenUp(l.cid) => GivenUp(l.cid)'
    BY Zenon, <1>1, <1>2, <1>5, <2>1 DEF GivenUp
  <2> QED BY Zenon, <1>1, <2>1, <2>2 DEF VLate
<1>9. NoOrphanKeys'
  <2>1. \A c \in keys : c # NoCID
    BY <1>0, VaultAssumption DEF TypeOK
  <2>2. \A q \in Request : new[q] # NoCID => new'[q] = new[q] \/ new[q] \in issued'
    BY Zenon, <1>1, <1>2
  <2>3. issued \subseteq issued'
    BY <1>1
  <2> QED BY Zenon, <1>0, <1>1, <2>1, <2>2, <2>3 DEF NoOrphanKeys
<1> QED BY <1>4, <1>6, <1>7, <1>8, <1>9 DEF VInv

\* What a lost call does when Vault carries it out.
LEMMA Belated ==
    ASSUME VInv, NEW l \in late, ApplyLate(l)
    PROVE  /\ l.cid \in CID /\ VLate(l)
           /\ late' = late \ {l}
           /\ UNCHANGED <<pc, op, cid, new, undo, err, used, issued, doomed, erased, excused>>
           /\ allowed' \subseteq CID
           /\ \/ UNCHANGED <<keys, kv>>
              \/ l.call = "create" /\ keys' = keys \cup {l.cid} /\ kv' = kv
              \/ l.call = "put" /\ kv' = kv \cup {l.cid} /\ keys' = keys
              \/ l.call = "kvdelete" /\ kv' = kv \ {l.cid} /\ keys' = keys
              \/ l.call = "destroy" /\ keys' = keys \ {l.cid} /\ kv' = kv
<1>1. l.cid \in CID /\ l.call \in Changes /\ VLate(l) /\ allowed \subseteq CID
  BY DEF VInv, TypeOK
<1>2. /\ late' = late \ {l}
      /\ UNCHANGED <<pc, op, cid, new, undo, err, used, issued, doomed, erased, excused>>
  BY DEF ApplyLate, callVars, histVars
<1>3. Effect(l.call, l.cid) \/ UNCHANGED <<keys, allowed, kv>>
  BY DEF ApplyLate
<1>4. CASE Effect(l.call, l.cid)
  <2>1. /\ l.call = "create" => keys' = keys \cup {l.cid}
        /\ l.call = "destroy" => keys' = keys \ {l.cid}
        /\ l.call \notin {"create", "destroy"} => keys' = keys
        /\ l.call = "put" => kv' = kv \cup {l.cid}
        /\ l.call = "kvdelete" => kv' = kv \ {l.cid}
        /\ l.call \notin {"put", "kvdelete"} => kv' = kv
        /\ allowed' \subseteq allowed \cup {l.cid}
    BY <1>4, EffectFacts
  <2> QED BY Zenon, <1>1, <1>2, <2>1 DEF Changes
<1>5. CASE UNCHANGED <<keys, allowed, kv>>
  BY <1>1, <1>2, <1>5
<1> QED BY Zenon, <1>3, <1>4, <1>5

\* A lost call keeps the invariant when it is carried out.
LEMMA ApplyLateKeeps ==
    ASSUME VInv, NEW l \in late, ApplyLate(l)
    PROVE  VInv'
<1>0. /\ TypeOK /\ VStored /\ NoOrphanKeys /\ \A m \in late : VLate(m)
      /\ \A q \in Request : VControl(q) /\ VMaking(q) /\ VDistinct(q)
  BY Zenon DEF VInv
<1>a. /\ l.cid \in CID /\ VLate(l) /\ late' = late \ {l}
      /\ UNCHANGED <<pc, op, cid, new, undo, err, used, issued, doomed, erased, excused>>
      /\ allowed' \subseteq CID
      /\ \/ UNCHANGED <<keys, kv>>
         \/ l.call = "create" /\ keys' = keys \cup {l.cid} /\ kv' = kv
         \/ l.call = "put" /\ kv' = kv \cup {l.cid} /\ keys' = keys
         \/ l.call = "kvdelete" /\ kv' = kv \ {l.cid} /\ keys' = keys
         \/ l.call = "destroy" /\ keys' = keys \ {l.cid} /\ kv' = kv
  BY Zenon, Belated
<1>1. TypeOK'
  BY Zenon, <1>0, <1>a DEF TypeOK
<1>b. /\ issued \ doomed \subseteq keys \cap kv /\ issued \cap kv \subseteq keys
      /\ doomed \subseteq issued /\ keys \cup kv \subseteq used
  BY Zenon, <1>0 DEF VStored
<1>2. /\ l.call \in {"create", "put"} => l.cid \notin issued /\ l.cid \in used
      /\ l.call = "create" => l.cid \in excused
      /\ l.call = "kvdelete" => l.cid \in doomed
      /\ l.call = "destroy" => l.cid \notin issued \/ (l.cid \in doomed /\ l.cid \notin kv)
      /\ l.call \in {"create", "put", "destroy"} /\ l.cid \notin issued =>
            \A q \in Request : new[q] = l.cid => undo[q]
  BY Zenon, <1>a, <1>b DEF VLate, GivenUp
<1>3. ASSUME NEW c \in issued
      PROVE  /\ c \in keys' => c \in keys
             /\ c \in kv' => c \in kv
             /\ c \notin doomed => (c \in keys => c \in keys') /\ (c \in kv => c \in kv')
             /\ c \in kv' => c \in keys'
  <2>1. /\ c \in keys' /\ c \notin keys => l.call = "create" /\ c = l.cid
        /\ c \in keys /\ c \notin keys' => l.call = "destroy" /\ c = l.cid
        /\ c \in kv' /\ c \notin kv => l.call = "put" /\ c = l.cid
        /\ c \in kv /\ c \notin kv' => l.call = "kvdelete" /\ c = l.cid
    BY Zenon, <1>a
  <2> QED BY Zenon, <1>b, <1>2, <2>1
<1>4. VStored'
  <2>1. keys' \cup kv' \subseteq used
    BY Zenon, <1>a, <1>b, <1>2
  <2> QED BY Zenon, <1>0, <1>a, <1>3, <2>1 DEF VStored
<1>5. ASSUME NEW q \in Request PROVE VControl(q)' /\ VMaking(q)' /\ VDistinct(q)'
  <2>0. VControl(q) /\ VMaking(q) /\ VDistinct(q)
    BY Zenon, <1>0
  <2>1. VControl(q)'
    BY Zenon, <1>a, <1>b, <1>3, <2>0 DEF VControl
  <2>2. new[q] # NoCID => new[q] \in used \ issued
    BY Zenon, <2>0 DEF VMaking
  <2>3. undo[q] => pc[q] \in Removing
    BY Zenon, <2>0 DEF VControl
  <2>4. NoCID \notin keys /\ NoCID \notin kv /\ NoCID \notin keys' /\ NoCID \notin kv'
    BY Zenon, <1>0, <1>1, VaultAssumption DEF TypeOK
  <2>5. ~undo[q] => (new[q] \in keys' <=> new[q] \in keys) /\ (new[q] \in kv' <=> new[q] \in kv)
    BY Zenon, <1>a, <1>b, <1>2, <2>2, <2>4
  <2>6. VMaking(q)'
    <3>1. UNCHANGED <<pc[q], new[q], undo[q], used, issued>>
      BY Zenon, <1>a
    <3>2. pc[q] \in {"kvget", "unwrap", "create", "encrypt", "put"} => ~undo[q]
      BY Zenon, <2>3 DEF Removing
    <3> QED BY Zenon, <2>0, <2>5, <3>1, <3>2 DEF VMaking
  <2>7. VDistinct(q)'
    BY Zenon, <1>a, <2>0 DEF VDistinct
  <2> QED BY Zenon, <2>1, <2>6, <2>7
<1>6. ASSUME NEW m \in late' PROVE VLate(m)'
  <2>1. VLate(m)
    BY Zenon, <1>0, <1>a
  <2>2. GivenUp(m.cid) => GivenUp(m.cid)'
    BY Zenon, <1>a DEF GivenUp
  <2> QED BY Zenon, <1>a, <1>b, <1>3, <2>1, <2>2 DEF VLate
<1>7. NoOrphanKeys'
  BY Zenon, <1>0, <1>a, <1>2 DEF NoOrphanKeys
<1> QED BY Zenon, <1>1, <1>4, <1>5, <1>6, <1>7 DEF VInv

\* A crash keeps the invariant.
LEMMA CrashKeeps ==
    ASSUME VInv, Crash
    PROVE  VInv'
<1>0. /\ TypeOK /\ VStored /\ NoOrphanKeys /\ \A l \in late : VLate(l)
      /\ \A q \in Request : VControl(q) /\ VMaking(q) /\ VDistinct(q)
  BY Zenon DEF VInv
<1>1. /\ Leave(Request)
      /\ excused' = excused \cup ({new[r] : r \in Request} \ {NoCID})
      /\ UNCHANGED <<keys, allowed, kv, used, issued, doomed, erased>>
  BY Zenon DEF Crash
<1>2. \A q \in Request : /\ pc'[q] = "idle" /\ op'[q] = "decrypt" /\ cid'[q] = NoCID
                         /\ new'[q] = NoCID /\ ~undo'[q] /\ err'[q] = "nil"
  BY Zenon, <1>0, <1>1, LeaveFacts
<1>3. PICK sent \in SUBSET {r \in Request : pc[r] \in Changes} :
        late' = late \cup {[call |-> pc[r], cid |-> Subject(r)] : r \in sent}
  BY Zenon DEF Crash
<1>4. ASSUME NEW l \in late', l \notin late
      PROVE  l \in [call : Changes, cid : CID] /\ VLate(l)'
  <2>1. PICK r \in sent : l = [call |-> pc[r], cid |-> Subject(r)]
    BY <1>3, <1>4
  <2>2. PICK p, c : p = pc[r] /\ c = Subject(r) /\ l = [call |-> p, cid |-> c]
    BY <2>1
  <2>3. r \in Request /\ p \in Changes
    BY <2>2
  <2>4. CASE p \in {"create", "put"}
    <3>1. c = new[r] /\ c \in CID /\ c # NoCID /\ c \in used \ issued
      BY Zenon, <1>0, <2>2, <2>3, <2>4 DEF Subject, VControl, VMaking, TypeOK
    <3>2. c \in excused'
      BY Zenon, <1>1, <2>3, <3>1
    <3>3. GivenUp(c)'
      BY <1>1, <1>2, <3>1 DEF GivenUp
    <3> QED BY Zenon, <1>1, <2>2, <2>3, <2>4, <3>1, <3>2, <3>3 DEF VLate
  <2>5. CASE p = "kvdelete"
    <3>1. c = cid[r] /\ c \in doomed /\ c \in CID /\ c \in used
      BY Zenon, <1>0, <2>2, <2>3, <2>5 DEF Subject, Target, VControl, VStored, TypeOK, Removing
    <3> QED BY Zenon, <1>1, <2>2, <2>3, <2>5, <3>1 DEF VLate
  <2>6. CASE p \in {"allow", "destroy"}
    <3>1. c = Target(r) /\ pc[r] \in Removing
      BY Zenon, <2>2, <2>6 DEF Subject, Removing
    <3>2. CASE undo[r]
      <4>1. c \in CID /\ c \in used \ issued /\ c # NoCID
        BY Zenon, <2>3, <3>1, <3>2, TargetFacts, VaultAssumption
      <4>2. GivenUp(c)'
        BY <1>1, <1>2, <4>1 DEF GivenUp
      <4> QED BY <1>1, <2>2, <2>3, <2>6, <4>1, <4>2 DEF VLate
    <3>3. CASE ~undo[r]
      <4>1. c \in CID /\ c \in used /\ c \in doomed /\ c \notin kv
        BY Zenon, <2>3, <3>1, <1>0, <3>3, TargetFacts DEF VStored
      <4> QED BY Zenon, <1>1, <2>2, <2>3, <2>6, <4>1 DEF VLate
    <3> QED BY <3>2, <3>3
  <2> QED BY <2>3, <2>4, <2>5, <2>6 DEF Changes
<1>5. ASSUME NEW l \in late PROVE VLate(l)'
  <2>1. l.cid # NoCID /\ VLate(l)
    BY <1>0, VaultAssumption DEF TypeOK
  <2>2. GivenUp(l.cid) => GivenUp(l.cid)'
    BY Zenon, <1>1, <1>2, <2>1 DEF GivenUp
  <2> QED BY Zenon, <1>1, <2>1, <2>2 DEF VLate
<1>6. late' \subseteq [call : Changes, cid : CID]
  BY <1>0, <1>4 DEF TypeOK
<1>7. excused' \subseteq CID
  BY <1>0, <1>1 DEF TypeOK
<1>8. TypeOK'
  BY Zenon, <1>0, <1>1, <1>6, <1>7, LeaveFacts DEF TypeOK
<1>9. ASSUME NEW q \in Request PROVE VControl(q)' /\ VMaking(q)' /\ VDistinct(q)'
  BY Zenon, <1>2 DEF VControl, VMaking, VDistinct, Removing
<1>10. NoOrphanKeys'
  <2>1. NoCID \notin keys
    BY Zenon, <1>0, VaultAssumption DEF TypeOK
  <2> QED BY Zenon, <1>0, <1>1, <2>1 DEF NoOrphanKeys
<1>11. VStored'
  BY Zenon, <1>0, <1>1 DEF VStored
<1> QED BY Zenon, <1>4, <1>5, <1>8, <1>9, <1>10, <1>11 DEF VInv

\* Every step keeps the invariant.
LEMMA VaultInduction ==
    ASSUME VInv, [Next]_vars
    PROVE  VInv'
<1>1. CASE Next
  BY Zenon, <1>1, CreateKeeps, EncryptKeeps, PutKeeps, GetKeeps, DecryptKeeps, KvDeleteKeeps, ProbeKeeps,
     AllowKeeps, DestroyKeeps, CallKeeps, RejectKeeps, ReturnKeeps, ApplyLateKeeps, CrashKeeps
     DEF Next, Step
<1>2. CASE UNCHANGED vars
  <2>1. UNCHANGED <<pc, op, cid, new, undo, err, keys, allowed, kv, late, used, issued, doomed,
                    erased, excused>>
    BY Zenon, <1>2 DEF vars, vaultVars, callVars, histVars
  <2>2. TypeOK' /\ VStored' /\ NoOrphanKeys'
    BY Zenon, <2>1 DEF VInv, TypeOK, VStored, NoOrphanKeys
  <2>3. ASSUME NEW q \in Request PROVE VControl(q)' /\ VMaking(q)' /\ VDistinct(q)'
    BY Zenon, <2>1 DEF VInv, VControl, VMaking, VDistinct
  <2>4. ASSUME NEW l \in late' PROVE VLate(l)'
    BY Zenon, <2>1 DEF VInv, VLate, GivenUp
  <2> QED BY Zenon, <2>2, <2>3, <2>4 DEF VInv
<1> QED BY <1>1, <1>2

\* VInv holds in every state of VaultTransit.
THEOREM VaultInvariant == Spec => []VInv
BY VaultInit, VaultInduction, PTL DEF Spec

\* The state keeps its types, whatever Vault, lost calls and crashes do.
THEOREM VaultTypeCorrect == Spec => []TypeOK
BY VTyped, VaultInvariant, PTL

\* An artifact key handed to a caller keeps its Transit key and its KV entry
\* until somebody begins to delete it.
THEOREM VaultIssuedStaysUsable == Spec => []IssuedStaysUsable
<1>1. VInv => IssuedStaysUsable
  BY DEF VInv, VStored, IssuedStaysUsable, Usable
<1> QED BY <1>1, VaultInvariant, PTL

\* A key whose deletion was reported never comes back, not even by a call that
\* was lost before it and is carried out after it.
THEOREM VaultErasureIsFinal == Spec => []ErasureIsFinal
<1>1. VInv => ErasureIsFinal
  BY DEF VInv, VStored, ErasureIsFinal
<1> QED BY <1>1, VaultInvariant, PTL

\* A creation that fails leaves no Transit key that nobody can name, unless the
\* create call, the rollback or the process failed too.
THEOREM VaultNoOrphanKeys == Spec => []NoOrphanKeys
<1>1. VInv => NoOrphanKeys
  BY Zenon DEF VInv
<1> QED BY <1>1, VaultInvariant, PTL

\* Rotate deletes the old artifact only when the new one is complete.
THEOREM VaultRotateKeepsOneCopy == Spec => []RotateKeepsOneCopy
<1>1. VInv => RotateKeepsOneCopy
  BY Zenon DEF VInv, VMaking, RotateKeepsOneCopy, Usable, Removing
<1> QED BY <1>1, VaultInvariant, PTL

\* ErrKeyNotFound is never an outage in disguise.
THEOREM VaultKeyNotFoundIsHonest == Spec => []KeyNotFoundIsHonest
<1>1. VInv => KeyNotFoundIsHonest
  BY Zenon DEF VInv, VControl, KeyNotFoundIsHonest
<1> QED BY <1>1, VaultInvariant, PTL

-----------------------------------------------------------------------------
(* VaultTransit implements KeyService.  The abstract state is read off
   Vault's (the definitions made, out, seen and usable of VaultTransit).
   Every call of a method is then one step of the abstract service or none,
   and what remains is to say which: one lemma per action.  The invariant
   supplies what an action finds in its hands. *)

\* What the abstract state shows of a request.
LEMMA Shown ==
    ASSUME NEW r \in Request
    PROVE  /\ made[r] = IF pc[r] = "return" \/ Replacing(r) THEN new[r] ELSE NoCID
           /\ out[r] = IF pc[r] = "idle" THEN "idle"
                       ELSE IF pc[r] = "return" THEN err[r] ELSE "busy"
BY DEF made, out

\* A key is usable when both its parts are there.
LEMMA UsableIs ==
    ASSUME TypeOK, TypeOK'
    PROVE  usable = keys \cap kv /\ usable' = keys' \cap kv'
BY DEF usable, Usable, TypeOK

\* A call by which r's method comes to an end.
LEMMA Concludes ==
    ASSUME TypeOK, NEW r \in Request, pc[r] \in Calls, NEW n, NEW e, Finish(r, e, n)
    PROVE  /\ out[r] = "busy" /\ UNCHANGED <<op, cid>>
           /\ out' = [out EXCEPT ![r] = e]
           /\ seen' = [seen EXCEPT ![r] = FALSE]
           /\ made' = [made EXCEPT ![r] = n]
<1>1. \A q \in Request : /\ pc'[q] = IF q = r THEN "return" ELSE pc[q]
                         /\ new'[q] = IF q = r THEN n ELSE new[q]
                         /\ err'[q] = IF q = r THEN e ELSE err[q]
                         /\ q # r => undo'[q] = undo[q]
                         /\ op'[q] = op[q]
  BY Zenon DEF TypeOK, Finish
<1>2. pc[r] \notin {"idle", "return"} /\ UNCHANGED <<op, cid>>
  BY DEF Calls, Changes, Finish
<1>3. out[r] = "busy"
  BY <1>2, Shown
<1>4. out' = [out EXCEPT ![r] = e]
  <2>1. \A q \in Request : out'[q] = IF q = r THEN e ELSE out[q]
    BY <1>1 DEF out
  <2>2. out' = [q \in Request |-> out'[q]] /\ out = [q \in Request |-> out[q]]
    BY DEF out
  <2> QED BY <2>1, <2>2
<1>5. seen' = [seen EXCEPT ![r] = FALSE]
  BY Zenon, <1>1 DEF seen
<1>6. made' = [made EXCEPT ![r] = n]
  <2>1. \A q \in Request : made'[q] = IF q = r THEN n ELSE made[q]
    BY <1>1 DEF made, Replacing
  <2>2. made' = [q \in Request |-> made'[q]] /\ made = [q \in Request |-> made[q]]
    BY DEF made
  <2> QED BY <2>1, <2>2
<1> QED BY Zenon, <1>2, <1>3, <1>4, <1>5, <1>6

\* A call after which r's method goes on with p.
LEMMA Continues ==
    ASSUME TypeOK, NEW r \in Request, pc[r] \in Calls, NEW p \in Calls, Goto(r, p)
    PROVE  /\ out[r] = "busy" /\ out' = out /\ UNCHANGED <<op, cid>>
           /\ pc[r] # "kvget" /\ p # "kvget" => seen' = seen
           /\ pc[r] = "kvget" /\ p # "kvget" /\ op[r] \in {"decrypt", "wrap", "rotate"} =>
                 seen' = [seen EXCEPT ![r] = TRUE]
           /\ made' = [made EXCEPT ![r] = IF /\ op[r] = "rotate" /\ ~undo[r]
                                             /\ p \in {"kvdelete", "probe", "allow", "destroy"}
                                          THEN new[r] ELSE NoCID]
<1>1. /\ \A q \in Request : pc'[q] = IF q = r THEN p ELSE pc[q]
      /\ UNCHANGED <<op, cid, new, undo, err>>
  BY DEF TypeOK, Goto
<1>2. pc[r] \notin {"idle", "return"} /\ p \notin {"idle", "return"}
  BY DEF Calls, Changes
<1>3. out[r] = "busy"
  BY <1>2, Shown
<1>4. out' = out
  BY <1>1, <1>2 DEF out
<1>5. pc[r] # "kvget" /\ p # "kvget" => seen' = seen
  BY <1>1, <1>2 DEF seen
<1>6. pc[r] = "kvget" /\ p # "kvget" /\ op[r] \in {"decrypt", "wrap", "rotate"} =>
        seen' = [seen EXCEPT ![r] = TRUE]
  BY Zenon, <1>1, <1>2 DEF seen
<1>7. made' = [made EXCEPT ![r] = IF /\ op[r] = "rotate" /\ ~undo[r]
                                     /\ p \in {"kvdelete", "probe", "allow", "destroy"}
                                  THEN new[r] ELSE NoCID]
  BY Zenon, <1>1, <1>2 DEF made, Replacing
<1> QED BY Zenon, <1>1, <1>3, <1>4, <1>5, <1>6, <1>7

\* A call after which r rolls back.
LEMMA RollsBack ==
    ASSUME TypeOK, NEW r \in Request, pc[r] \in {"encrypt", "put"}, NEW e, Rollback(r, e)
    PROVE  UNCHANGED <<op, cid, out, seen, made>>
<1>1. /\ \A q \in Request : /\ pc'[q] = IF q = r THEN "probe" ELSE pc[q]
                            /\ undo'[q] = IF q = r THEN TRUE ELSE undo[q]
                            /\ q # r => err'[q] = err[q]
      /\ UNCHANGED <<op, cid, new>>
  BY DEF TypeOK, Rollback
<1>2. out' = out
  BY Zenon, <1>1 DEF out
<1>3. seen' = seen
  BY Zenon, <1>1 DEF seen
<1>4. made' = made
  BY Zenon, <1>1 DEF made, Replacing
<1> QED BY Zenon, <1>1, <1>2, <1>3, <1>4

\* The artifact that is being made is nobody's yet.
LEMMA NewIsUnclaimed ==
    ASSUME VInv, NEW r \in Request, new[r] # NoCID, made[r] = NoCID
    PROVE  KS!Unclaimed(new[r])
<1>1. new[r] \notin issued /\ \A q \in Request \ {r} : new[q] # new[r]
  BY InHand DEF VDistinct
<1> QED BY <1>1, Shown DEF KS!Unclaimed

\* An artifact that was given up is nobody's.
LEMMA GivenUpIsUnclaimed ==
    ASSUME VInv, NEW c \in CID, GivenUp(c)
    PROVE  KS!Unclaimed(c)
<1>1. ASSUME NEW q \in Request, made[q] = c PROVE FALSE
  <2>1. new[q] = c /\ (pc[q] = "return" \/ Replacing(q))
    BY <1>1, Shown, VaultAssumption
  <2>2. undo[q]
    BY <2>1 DEF GivenUp
  <2>3. pc[q] # "return"
    BY Zenon, <2>2, InHand DEF VControl, Removing
  <2> QED BY <2>1, <2>2, <2>3 DEF Replacing
<1> QED BY <1>1 DEF KS!Unclaimed, GivenUp

\* The initial states are initial states of the key service.
LEMMA RefInit == Init => KS!Init
<1> SUFFICES ASSUME Init PROVE KS!Init
  OBVIOUS
<1>1. seen = [r \in Request |-> FALSE]
  BY DEF Init, seen
<1>2. made = [r \in Request |-> NoCID]
  BY DEF Init, made, Replacing
<1>3. out = [r \in Request |-> "idle"]
  BY DEF Init, out
<1>4. usable = {}
  BY DEF Init, usable, Usable
<1> QED BY <1>1, <1>2, <1>3, <1>4 DEF Init, KS!Init

\* A method that fails, and may have given up a key.
LEMMA RefFail ==
    ASSUME TypeOK, NEW r \in Request, pc[r] \in Calls,
           NEW e \in {"unavailable", "mismatch", "err"}, NEW n, n = made[r],
           Finish(r, e, n), UNCHANGED <<issued, doomed, erased>>, KS!LoseSome
    PROVE  KS!Next
<1>1. /\ out[r] = "busy"
      /\ out' = [out EXCEPT ![r] = e]
      /\ seen' = [seen EXCEPT ![r] = FALSE]
      /\ made' = [made EXCEPT ![r] = n]
      /\ UNCHANGED <<op, cid>>
  BY Concludes
<1>2. made' = made
  BY Zenon, <1>1 DEF made
<1>3. KS!Fail(r, e)
  BY <1>1, <1>2 DEF KS!Fail, KS!Conclude, KS!Errors
<1> QED BY <1>1, <1>3 DEF KS!Next, KS!Proceed, KS!Errors

\* Nothing is given up when Vault's two parts stay.
LEMMA NothingLost ==
    ASSUME TypeOK, TypeOK', UNCHANGED <<keys, kv>>
    PROVE  KS!LoseSome /\ usable' = usable
BY UsableIs DEF KS!LoseSome

\* Creating the Transit key is not seen, or fails.
LEMMA RefCreate ==
    ASSUME VInv, VInv', NEW r \in Request, TransitCreateKey(r)
    PROVE  KS!Next \/ UNCHANGED KS!vars
<1>1. PICK reply \in Replies :
        /\ Do(r, "create", new[r], reply)
        /\ IF reply = "ok" THEN Goto(r, "encrypt") ELSE Finish(r, fmtVaultErr(reply), NoCID)
        /\ UNCHANGED <<issued, doomed, erased>>
  BY DEF TransitCreateKey
<1>2. /\ pc[r] = "create"
      /\ reply = "ok" => keys' = keys \cup {new[r]} /\ UNCHANGED kv
      /\ reply # "ok" => UNCHANGED <<keys, kv>>
  <2>0. Do(r, "create", new[r], reply)
    BY <1>1, Zenon
  <2>1. /\ pc[r] = "create"
        /\ reply = "ok" => Effect("create", new[r])
        /\ reply # "ok" => UNCHANGED <<keys, allowed, kv>>
    BY <2>0, DoFacts
  <2>2. Effect("create", new[r]) => keys' = keys \cup {new[r]} /\ UNCHANGED kv
    BY EffectFacts
  <2> QED BY <2>1, <2>2
<1>3. /\ pc[r] \in Calls /\ "encrypt" \in Calls /\ new[r] \notin kv
      /\ made[r] = NoCID /\ TypeOK /\ TypeOK'
  BY Zenon, <1>2, Shown, InHand DEF Calls, Changes, VMaking, Replacing, VInv
<1>4. CASE reply = "ok"
  <2>1. usable' = usable
    BY Zenon, <1>2, <1>3, <1>4, UsableIs
  <2>2. Goto(r, "encrypt")
    BY <1>1, <1>4
  <2>3. /\ out' = out /\ seen' = seen /\ UNCHANGED <<op, cid>>
        /\ made' = [made EXCEPT ![r] = NoCID]
    BY <1>2, <1>3, <2>2, Continues
  <2>4. made' = made
    BY Zenon, <1>3, <2>3 DEF made
  <2> QED BY <1>1, <2>1, <2>3, <2>4 DEF KS!vars
<1>5. CASE reply # "ok"
  <2>1. PICK e \in {"unavailable", "err"} : Finish(r, e, NoCID)
    BY <1>1, <1>5, ErrFacts
  <2> QED BY Zenon, <1>1, <1>2, <1>3, <1>5, <2>1, RefFail, NothingLost
<1> QED BY <1>4, <1>5

\* Wrapping the data key is not seen.
LEMMA RefEncrypt ==
    ASSUME VInv, VInv', NEW r \in Request, TransitEncrypt(r)
    PROVE  UNCHANGED KS!vars
<1>1. PICK reply \in Replies :
        /\ Do(r, "encrypt", new[r], reply)
        /\ IF reply = "ok" THEN Goto(r, "put") ELSE Rollback(r, fmtVaultErr(reply))
        /\ UNCHANGED <<issued, doomed, erased>>
  BY DEF TransitEncrypt, histVars
<1>2. pc[r] = "encrypt" /\ UNCHANGED <<keys, kv>>
  <2>1. "encrypt" \notin Changes
    BY DEF Changes
  <2> QED BY Zenon, <1>1, <2>1, ReadFacts
<1>3. /\ pc[r] \in Calls /\ "put" \in Calls /\ made[r] = NoCID /\ TypeOK /\ TypeOK'
  BY <1>2, Shown DEF Calls, Changes, Replacing, VInv
<1>4. usable' = usable
  BY <1>2, <1>3, NothingLost
<1>5. CASE Goto(r, "put")
  <2>1. /\ out' = out /\ seen' = seen /\ UNCHANGED <<op, cid>>
        /\ made' = [made EXCEPT ![r] = NoCID]
    BY <1>2, <1>3, <1>5, Continues
  <2>2. made' = made
    BY Zenon, <1>3, <2>1 DEF made
  <2> QED BY <1>1, <1>4, <2>1, <2>2 DEF KS!vars
<1>6. CASE Rollback(r, fmtVaultErr(reply))
  BY <1>1, <1>2, <1>3, <1>4, <1>6, RollsBack DEF KS!vars
<1> QED BY <1>1, <1>5, <1>6

\* Storing the wrapped key completes the artifact, or is not seen.
LEMMA RefPut ==
    ASSUME VInv, VInv', NEW r \in Request, KvPutWrapped(r)
    PROVE  KS!Next \/ UNCHANGED KS!vars
<1>0. PICK c \in CID \cup {NoCID} : c = new[r]
  BY InHand
<1>1. PICK reply \in Replies :
        /\ Do(r, "put", c, reply)
        /\ IF reply # "ok"
           THEN Rollback(r, fmtVaultErr(reply)) /\ UNCHANGED doomed
           ELSE IF op[r] = "rotate"
           THEN Goto(r, "kvdelete") /\ doomed' = doomed \cup {cid[r]}
           ELSE Finish(r, "nil", c) /\ UNCHANGED doomed
        /\ UNCHANGED <<issued, erased>>
  BY <1>0 DEF KvPutWrapped
<1>2. /\ pc[r] = "put"
      /\ reply = "ok" => kv' = kv \cup {c} /\ UNCHANGED keys
      /\ reply # "ok" => UNCHANGED <<keys, kv>>
  <2>0. Do(r, "put", c, reply)
    BY <1>1, Zenon
  <2>1. /\ pc[r] = "put"
        /\ reply = "ok" => Effect("put", c)
        /\ reply # "ok" => UNCHANGED <<keys, allowed, kv>>
    BY <2>0, DoFacts
  <2>2. Effect("put", c) => kv' = kv \cup {c} /\ UNCHANGED keys
    BY EffectFacts
  <2> QED BY <2>1, <2>2
<1>3. /\ pc[r] \in Calls /\ "kvdelete" \in Calls /\ made[r] = NoCID /\ TypeOK /\ TypeOK'
  BY <1>2, Shown DEF Calls, Changes, Replacing, VInv
<1>4. op[r] \in {"generate", "rotate"} /\ c # NoCID /\ c \in CID /\ c \in keys /\ ~undo[r]
  BY Zenon, <1>0, <1>2, InHand DEF VControl, VMaking, Removing
<1>5. KS!Unclaimed(c)
  <2>1. c \notin issued /\ \A q \in Request : made[q] # c
    BY <1>0, <1>3, <1>4, NewIsUnclaimed DEF KS!Unclaimed
  <2> QED BY <2>1 DEF KS!Unclaimed
<1>6. reply = "ok" => usable' = usable \cup {c}
  BY <1>2, <1>3, <1>4, UsableIs
<1>7. CASE reply = "ok" /\ op[r] = "rotate"
  <2>1. Goto(r, "kvdelete") /\ doomed' = doomed \cup {cid[r]}
    BY <1>1, <1>7
  <2>2. /\ out[r] = "busy" /\ out' = out /\ seen' = seen /\ UNCHANGED <<op, cid>>
        /\ made' = [made EXCEPT ![r] = c]
    BY Zenon, <1>0, <1>2, <1>3, <1>4, <1>7, <2>1, Continues
  <2>3. seen[r]
    BY <1>2, <1>7 DEF seen
  <2>4. KS!Renew(r, c)
    BY <1>1, <1>3, <1>5, <1>6, <1>7, <2>1, <2>2, <2>3 DEF KS!Renew
  <2> QED BY <1>4, <2>2, <2>4 DEF KS!Next, KS!Proceed
<1>8. CASE reply = "ok" /\ op[r] = "generate"
  <2>1. Finish(r, "nil", c) /\ UNCHANGED doomed
    BY <1>1, <1>8
  <2>2. /\ out[r] = "busy" /\ UNCHANGED <<op, cid>>
        /\ out' = [out EXCEPT ![r] = "nil"]
        /\ seen' = [seen EXCEPT ![r] = FALSE]
        /\ made' = [made EXCEPT ![r] = c]
    BY Zenon, <1>3, <2>1, Concludes
  <2>3. KS!Generate(r, c)
    BY <1>1, <1>5, <1>6, <1>8, <2>1, <2>2 DEF KS!Generate, KS!Conclude
  <2> QED BY <1>4, <2>2, <2>3 DEF KS!Next, KS!Proceed
<1>9. CASE reply # "ok"
  <2>1. Rollback(r, fmtVaultErr(reply)) /\ UNCHANGED doomed
    BY Zenon, <1>1, <1>9
  <2>2. usable' = usable
    BY <1>2, <1>3, <1>9, NothingLost
  <2> QED BY Zenon, <1>1, <1>2, <1>3, <2>1, <2>2, RollsBack DEF KS!vars
<1> QED BY <1>4, <1>7, <1>8, <1>9

\* Fetching the wrapped key sees the key, or finds it gone, or fails.
LEMMA RefGet ==
    ASSUME VInv, VInv', NEW r \in Request, KvGetWrapped(r)
    PROVE  KS!Next
<1>1. PICK reply \in Replies :
        /\ Do(r, "kvget", cid[r], reply)
        /\ reply = "ok" => Goto(r, "unwrap")
        /\ reply = "missing" => Finish(r, "notfound", NoCID)
        /\ reply \notin {"ok", "missing"} => Finish(r, fmtVaultErr(reply), NoCID)
        /\ UNCHANGED <<issued, doomed, erased>>
  BY DEF KvGetWrapped, histVars
<1>2. /\ pc[r] = "kvget" /\ UNCHANGED <<keys, kv>>
      /\ reply = "missing" => cid[r] \notin kv
      /\ reply = "ok" => cid[r] \in kv
  <2>1. "kvget" \notin Changes /\ "missing" \notin AllFaults /\ "ok" \notin AllFaults
    BY DEF Changes, AllFaults
  <2>2. /\ pc[r] = "kvget" /\ UNCHANGED <<keys, kv>>
        /\ reply \in {"ok", "missing"} => reply \in Answers("kvget", cid[r])
    BY Zenon, <1>1, <2>1, ReadFacts
  <2>3. reply \in {"ok", "missing"} => reply = (IF cid[r] \in kv THEN "ok" ELSE "missing")
    BY Zenon, <2>2, AnswerFacts
  <2> QED BY <2>2, <2>3
<1>3. /\ pc[r] \in Calls /\ "unwrap" \in Calls /\ made[r] = NoCID /\ TypeOK /\ TypeOK'
  BY Zenon, <1>2, Shown DEF Calls, Changes, Replacing, VInv
<1>4. op[r] \in {"decrypt", "wrap", "rotate"} /\ cid[r] \in issued
  BY Zenon, <1>2, InHand DEF VControl
<1>5. usable' = usable /\ KS!LoseSome
  BY <1>2, <1>3, NothingLost
<1>6. CASE reply = "ok"
  <2>1. /\ out[r] = "busy" /\ out' = out /\ UNCHANGED <<op, cid>>
        /\ seen' = [seen EXCEPT ![r] = TRUE]
        /\ made' = [made EXCEPT ![r] = NoCID]
    BY Zenon, <1>1, <1>2, <1>3, <1>4, <1>6, Continues
  <2>2. made' = made
    BY Zenon, <1>3, <2>1 DEF made
  <2>3. cid[r] \in usable
    BY Zenon, <1>2, <1>3, <1>4, <1>6, UsableIs, InHand DEF VStored
  <2>4. KS!See(r)
    BY Zenon, <1>1, <1>4, <1>5, <2>1, <2>2, <2>3 DEF KS!See
  <2> QED BY <2>1, <2>4 DEF KS!Next, KS!Proceed
<1>7. CASE reply = "missing"
  <2>1. /\ out[r] = "busy" /\ UNCHANGED <<op, cid>>
        /\ out' = [out EXCEPT ![r] = "notfound"]
        /\ seen' = [seen EXCEPT ![r] = FALSE]
        /\ made' = [made EXCEPT ![r] = NoCID]
    <3>1. Finish(r, "notfound", NoCID) /\ TypeOK /\ pc[r] \in Calls
      BY Zenon, <1>1, <1>3, <1>7
    <3> QED BY Zenon, <3>1, Concludes
  <2>2. made' = made
    BY Zenon, <1>3, <2>1 DEF made
  <2>3. cid[r] \in doomed
    BY <1>2, <1>4, <1>7, InHand DEF VStored
  <2>4. KS!NotFound(r)
    BY Zenon, <1>1, <1>4, <1>5, <2>1, <2>2, <2>3 DEF KS!NotFound, KS!Conclude
  <2> QED BY <2>1, <2>4 DEF KS!Next, KS!Proceed
<1>8. CASE reply \notin {"ok", "missing"}
  BY Zenon, <1>1, <1>3, <1>5, <1>8, RefFail, ErrFacts
<1> QED BY <1>6, <1>7, <1>8

\* Unwrapping it serves the caller, finds the key gone, fails, or is not seen.
LEMMA RefDecrypt ==
    ASSUME VInv, VInv', NEW r \in Request, TransitDecrypt(r)
    PROVE  KS!Next \/ UNCHANGED KS!vars
<1>1. PICK reply \in Replies :
        /\ Do(r, "unwrap", cid[r], reply)
        /\ reply = "ok" =>
              \/ op[r] = "rotate" /\ Goto(r, "create")
              \/ op[r] # "rotate" /\ Finish(r, "nil", NoCID)
              \/ \E e \in {"mismatch", "err"} : Finish(r, e, NoCID)
        /\ reply = "missing" => Finish(r, "notfound", NoCID)
        /\ reply \notin {"ok", "missing"} => Finish(r, fmtVaultErr(reply), NoCID)
        /\ UNCHANGED <<issued, doomed, erased>>
  BY DEF TransitDecrypt, histVars
<1>2. /\ pc[r] = "unwrap" /\ UNCHANGED <<keys, kv>>
      /\ reply = "missing" => cid[r] \notin keys
  <2>1. "unwrap" \notin Changes /\ "missing" \notin AllFaults
    BY DEF Changes, AllFaults
  <2> QED BY Zenon, <1>1, <2>1, ReadFacts, AnswerFacts
<1>3. /\ pc[r] \in Calls /\ "create" \in Calls /\ made[r] = NoCID /\ TypeOK /\ TypeOK'
  BY Zenon, <1>2, Shown DEF Calls, Changes, Replacing, VInv
<1>4. op[r] \in {"decrypt", "wrap", "rotate"} /\ cid[r] \in issued
  BY Zenon, <1>2, InHand DEF VControl
<1>5. usable' = usable /\ KS!LoseSome
  BY <1>2, <1>3, NothingLost
<1>6. CASE op[r] = "rotate" /\ Goto(r, "create")
  <2>1. /\ out' = out /\ seen' = seen /\ UNCHANGED <<op, cid>>
        /\ made' = [made EXCEPT ![r] = NoCID]
    BY Zenon, <1>2, <1>3, <1>6, Continues
  <2>2. made' = made
    BY Zenon, <1>3, <2>1 DEF made
  <2> QED BY <1>1, <1>5, <2>1, <2>2 DEF KS!vars
<1>7. CASE op[r] # "rotate" /\ Finish(r, "nil", NoCID)
  <2>1. /\ out[r] = "busy" /\ UNCHANGED <<op, cid>>
        /\ out' = [out EXCEPT ![r] = "nil"]
        /\ seen' = [seen EXCEPT ![r] = FALSE]
        /\ made' = [made EXCEPT ![r] = NoCID]
    <3>1. Finish(r, "nil", NoCID) /\ TypeOK /\ pc[r] \in Calls
      BY <1>3, <1>7
    <3> QED BY Zenon, <3>1, Concludes
  <2>2. made' = made
    BY Zenon, <1>3, <2>1 DEF made
  <2>3. seen[r]
    BY <1>2, <1>4 DEF seen
  <2>4. KS!Serve(r)
    BY Zenon, <1>1, <1>4, <1>5, <1>7, <2>1, <2>2, <2>3 DEF KS!Serve, KS!Conclude
  <2> QED BY <2>1, <2>4 DEF KS!Next, KS!Proceed
<1>8. ASSUME NEW e \in {"unavailable", "mismatch", "err"}, Finish(r, e, NoCID) PROVE KS!Next
  BY Zenon, <1>1, <1>3, <1>5, <1>8, RefFail
<1>9. CASE reply = "missing"
  <2>1. /\ out[r] = "busy" /\ UNCHANGED <<op, cid>>
        /\ out' = [out EXCEPT ![r] = "notfound"]
        /\ seen' = [seen EXCEPT ![r] = FALSE]
        /\ made' = [made EXCEPT ![r] = NoCID]
    <3>1. Finish(r, "notfound", NoCID) /\ TypeOK /\ pc[r] \in Calls
      BY Zenon, <1>1, <1>3, <1>9
    <3> QED BY Zenon, <3>1, Concludes
  <2>2. made' = made
    BY Zenon, <1>3, <2>1 DEF made
  <2>3. cid[r] \in doomed
    BY <1>2, <1>4, <1>9, InHand DEF VStored
  <2>4. KS!NotFound(r)
    BY Zenon, <1>1, <1>4, <1>5, <2>1, <2>2, <2>3 DEF KS!NotFound, KS!Conclude
  <2> QED BY <2>1, <2>4 DEF KS!Next, KS!Proceed
<1>10. CASE reply \notin {"ok", "missing"}
  BY Zenon, <1>1, <1>8, <1>10, ErrFacts
<1>11. CASE reply = "ok"
  BY Zenon, <1>1, <1>6, <1>7, <1>8, <1>11
<1> QED BY <1>9, <1>10, <1>11

\* What a deletion in progress shows.
LEMMA DeletingShows ==
    ASSUME VInv, NEW r \in Request, pc[r] \in {"kvdelete"} \cup Removing
    PROVE  /\ TypeOK /\ pc[r] \in Calls
           /\ made[r] = IF undo[r] THEN NoCID ELSE new[r]
           /\ ~undo[r] => op[r] \in {"delete", "rotate"}
           /\ ~undo[r] /\ op[r] = "rotate" => new[r] # NoCID
<1>1. /\ ~undo[r] => op[r] \in {"delete", "rotate"}
      /\ new[r] # NoCID <=> op[r] \in {"generate", "rotate"}
  BY Zenon, InHand DEF VControl, Removing
<1>2. pc[r] \in Calls /\ pc[r] # "return" /\ pc[r] \in {"kvdelete", "probe", "allow", "destroy"}
  BY DEF Calls, Changes, Removing
<1> QED BY Zenon, <1>1, <1>2, Shown, InHand DEF Replacing

\* A failed deletion.
LEMMA RefDeleteFails ==
    ASSUME VInv, VInv', NEW r \in Request, pc[r] \in {"kvdelete"} \cup Removing, ~undo[r],
           NEW e \in {"unavailable", "err"}, DeleteFails(r, e),
           UNCHANGED <<keys, kv, issued, doomed, erased>>
    PROVE  KS!Next
<1>1. PICK n : n = made[r] /\ Finish(r, e, n)
  BY Zenon, DeletingShows DEF DeleteFails
<1>2. KS!LoseSome /\ TypeOK /\ pc[r] \in Calls
  BY Zenon, NothingLost, DeletingShows DEF VInv
<1> QED BY Zenon, <1>1, <1>2, RefFail

\* A deletion goes on.
LEMMA DeletionGoes ==
    ASSUME VInv, NEW r \in Request, pc[r] \in {"kvdelete"} \cup Removing,
           NEW p \in Removing, Goto(r, p)
    PROVE  UNCHANGED <<op, cid, out, seen, made>>
<1>1. p \in Calls /\ p \in {"kvdelete", "probe", "allow", "destroy"} /\ p # "kvget" /\ pc[r] # "kvget"
  BY DEF Calls, Changes, Removing
<1>2. /\ out' = out /\ seen' = seen /\ UNCHANGED <<op, cid>>
      /\ made' = [made EXCEPT ![r] = IF op[r] = "rotate" /\ ~undo[r] THEN new[r] ELSE NoCID]
  BY Zenon, <1>1, Continues, DeletingShows
<1>3. ~undo[r] /\ op[r] # "rotate" => new[r] = NoCID
  BY Zenon, InHand DEF VControl, Removing
<1>4. made' = [made EXCEPT ![r] = made[r]]
  <2>1. made[r] = IF op[r] = "rotate" /\ ~undo[r] THEN new[r] ELSE NoCID
    BY Zenon, <1>3, DeletingShows
  <2> QED BY <1>2, <2>1
<1>5. made' = made
  BY Zenon, <1>4 DEF made
<1> QED BY <1>2, <1>5

\* Deleting the wrapped key gives the artifact up, or fails.
LEMMA RefKvDelete ==
    ASSUME VInv, VInv', NEW r \in Request, KvDeleteMetadata(r)
    PROVE  KS!Next
<1>1. PICK reply \in Replies :
        /\ Do(r, "kvdelete", cid[r], reply)
        /\ IF reply \in {"ok", "missing"} THEN Goto(r, "probe")
                                          ELSE DeleteFails(r, fmtVaultErr(reply))
        /\ UNCHANGED <<issued, doomed, erased>>
  BY DEF KvDeleteMetadata
<1>2. /\ pc[r] = "kvdelete"
      /\ reply = "ok" => kv' = kv \ {cid[r]} /\ UNCHANGED keys
      /\ reply # "ok" => UNCHANGED <<keys, kv>>
  <2>0. Do(r, "kvdelete", cid[r], reply)
    BY <1>1, Zenon
  <2>1. /\ pc[r] = "kvdelete"
        /\ reply = "ok" => Effect("kvdelete", cid[r])
        /\ reply # "ok" => UNCHANGED <<keys, allowed, kv>>
    BY <2>0, DoFacts
  <2>2. Effect("kvdelete", cid[r]) => kv' = kv \ {cid[r]} /\ UNCHANGED keys
    BY EffectFacts
  <2> QED BY <2>1, <2>2
<1>3. /\ cid[r] \in doomed /\ cid[r] \in CID /\ ~undo[r] /\ TypeOK /\ TypeOK'
      /\ "probe" \in Removing
  BY Zenon, <1>2, InHand DEF VControl, TypeOK, Removing, VInv
<1>4. CASE reply \in {"ok", "missing"}
  <2>1. usable' \subseteq usable /\ usable \ usable' \subseteq {cid[r]}
    BY Zenon, <1>2, <1>3, <1>4, UsableIs
  <2>2. KS!LoseSome
    BY Zenon, <1>3, <2>1 DEF KS!LoseSome, KS!Expendable
  <2>3. UNCHANGED <<op, cid, out, seen, made>>
    BY Zenon, <1>1, <1>2, <1>3, <1>4, DeletionGoes
  <2>4. KS!Forget
    BY <1>1, <2>2, <2>3 DEF KS!Forget
  <2> QED BY <2>4 DEF KS!Next
<1>5. CASE reply \notin {"ok", "missing"}
  BY Zenon, <1>1, <1>2, <1>3, <1>5, RefDeleteFails, ErrFacts
<1> QED BY <1>4, <1>5

\* The key is gone: a deletion is complete, or a rollback.
LEMMA RefKeyDeleted ==
    ASSUME VInv, VInv', NEW r \in Request, pc[r] \in Removing, KeyDeleted(r),
           keys' = keys \ {Target(r)}, UNCHANGED <<kv, issued, doomed, erased>>
    PROVE  KS!Next
<1>1. /\ TypeOK /\ TypeOK' /\ pc[r] \in Calls
      /\ made[r] = IF undo[r] THEN NoCID ELSE new[r]
  BY Zenon, DeletingShows DEF VInv
<1>2. usable' = usable \ {Target(r)}
  BY Zenon, <1>1, UsableIs
<1>3. CASE undo[r]
  <2>1. PICK e \in {"unavailable", "err"} : Finish(r, e, NoCID)
    BY Zenon, <1>3, InHand DEF KeyDeleted, VControl
  <2>2. Target(r) = new[r] /\ new[r] \in CID
    BY Zenon, <1>3, TargetFacts
  <2>3. KS!Unclaimed(new[r])
    BY Zenon, <1>1, <1>3, <2>2, NewIsUnclaimed, VaultAssumption
  <2>4. KS!LoseSome
    BY <1>2, <2>2, <2>3 DEF KS!LoseSome, KS!Expendable
  <2> QED BY Zenon, <1>1, <1>3, <2>1, <2>4, RefFail
<1>4. CASE ~undo[r]
  <2>1. PICK n : n = new[r] /\ Finish(r, "nil", n)
    BY <1>4 DEF KeyDeleted
  <2>2. /\ out[r] = "busy" /\ UNCHANGED <<op, cid>>
        /\ out' = [out EXCEPT ![r] = "nil"]
        /\ seen' = [seen EXCEPT ![r] = FALSE]
        /\ made' = [made EXCEPT ![r] = n]
    <3>1. Finish(r, "nil", n) /\ TypeOK /\ pc[r] \in Calls
      BY <1>1, <2>1
    <3> QED BY Zenon, <3>1, Concludes
  <2>3. made' = made
    BY Zenon, <1>1, <1>4, <2>1, <2>2 DEF made
  <2>4. /\ Target(r) = cid[r] /\ op[r] \in {"delete", "rotate"}
        /\ op[r] = "rotate" => made[r] # NoCID
    BY <1>1, <1>4, TargetFacts, DeletingShows
  <2>5. KS!Erase(r)
    BY <1>2, <2>2, <2>3, <2>4 DEF KS!Erase, KS!Conclude
  <2> QED BY <2>2, <2>5 DEF KS!Next, KS!Proceed
<1> QED BY <1>3, <1>4

\* It may still be there.
LEMMA RefKeyNotDeleted ==
    ASSUME VInv, VInv', NEW r \in Request, pc[r] \in Removing,
           NEW e \in {"unavailable", "err"}, KeyNotDeleted(r, e),
           UNCHANGED <<keys, kv, issued, doomed, erased>>
    PROVE  KS!Next
<1>1. CASE undo[r]
  <2>1. PICK f \in {"unavailable", "err"} : Finish(r, f, NoCID)
    BY Zenon, <1>1, InHand DEF KeyNotDeleted, VControl
  <2>2. KS!LoseSome /\ TypeOK /\ pc[r] \in Calls /\ made[r] = NoCID
    BY Zenon, <1>1, NothingLost, DeletingShows DEF VInv
  <2> QED BY <2>1, <2>2, RefFail
<1>2. CASE ~undo[r]
  BY <1>2, RefDeleteFails DEF KeyNotDeleted
<1> QED BY <1>1, <1>2

\* transitDeleteKey goes on, which callers do not see.
LEMMA RefRemovalGoes ==
    ASSUME VInv, VInv', NEW r \in Request, pc[r] \in Removing, NEW p \in Removing, Goto(r, p),
           UNCHANGED <<keys, kv, issued, doomed, erased>>
    PROVE  UNCHANGED KS!vars
<1>1. usable' = usable
  BY NothingLost DEF VInv
<1>2. UNCHANGED <<op, cid, out, seen, made>>
  BY DeletionGoes
<1> QED BY <1>1, <1>2 DEF KS!vars

\* transitDeleteKey's existence check ends the deletion, or is not seen.
LEMMA RefProbe ==
    ASSUME VInv, VInv', NEW r \in Request, TransitProbe(r)
    PROVE  KS!Next \/ UNCHANGED KS!vars
<1>1. PICK reply \in Replies :
        /\ Do(r, "probe", Target(r), reply)
        /\ reply = "ok" => Goto(r, "allow")
        /\ reply = "missing" => KeyDeleted(r)
        /\ reply \notin {"ok", "missing"} => KeyNotDeleted(r, fmtVaultErr(reply))
        /\ UNCHANGED <<issued, doomed, erased>>
  BY DEF TransitProbe
<1>2. /\ pc[r] = "probe" /\ UNCHANGED <<keys, kv>>
      /\ reply = "missing" => Target(r) \notin keys
  <2>1. "probe" \notin Changes /\ "missing" \notin AllFaults
    BY DEF Changes, AllFaults
  <2> QED BY Zenon, <1>1, <2>1, ReadFacts, AnswerFacts
<1>3. pc[r] \in Removing /\ "allow" \in Removing
  BY <1>2 DEF Removing
<1>4. CASE reply = "ok"
  BY <1>1, <1>2, <1>3, <1>4, RefRemovalGoes
<1>5. CASE reply = "missing"
  <2>1. KeyDeleted(r) /\ keys' = keys \ {Target(r)}
    BY <1>1, <1>2, <1>5
  <2> QED BY <1>1, <1>2, <1>3, <2>1, RefKeyDeleted
<1>6. CASE reply \notin {"ok", "missing"}
  BY <1>1, <1>2, <1>3, <1>6, RefKeyNotDeleted, ErrFacts
<1> QED BY <1>4, <1>5, <1>6

\* Its POST of deletion_allowed fails, or is not seen.
LEMMA RefAllow ==
    ASSUME VInv, VInv', NEW r \in Request, TransitAllow(r)
    PROVE  KS!Next \/ UNCHANGED KS!vars
<1>1. PICK reply \in Replies :
        /\ Do(r, "allow", Target(r), reply)
        /\ IF reply = "ok" THEN Goto(r, "destroy") ELSE KeyNotDeleted(r, fmtVaultErr(reply))
        /\ UNCHANGED <<issued, doomed, erased>>
  BY DEF TransitAllow
<1>2. pc[r] = "allow" /\ UNCHANGED <<keys, kv>>
  BY <1>1, DoFacts, EffectFacts
<1>3. pc[r] \in Removing /\ "destroy" \in Removing
  BY <1>2 DEF Removing
<1>4. CASE reply = "ok"
  BY <1>1, <1>2, <1>3, <1>4, RefRemovalGoes
<1>5. CASE reply # "ok"
  BY <1>1, <1>2, <1>3, <1>5, RefKeyNotDeleted, ErrFacts
<1> QED BY <1>4, <1>5

\* Its DELETE ends the deletion.
LEMMA RefDestroy ==
    ASSUME VInv, VInv', NEW r \in Request, TransitDestroy(r)
    PROVE  KS!Next
<1>1. PICK reply \in Replies :
        /\ Do(r, "destroy", Target(r), reply)
        /\ IF reply \in {"ok", "missing"} THEN KeyDeleted(r)
                                          ELSE KeyNotDeleted(r, fmtVaultErr(reply))
        /\ UNCHANGED <<issued, doomed, erased>>
  BY DEF TransitDestroy
<1>2. /\ pc[r] = "destroy"
      /\ reply = "ok" => keys' = keys \ {Target(r)} /\ UNCHANGED kv
      /\ reply # "ok" => UNCHANGED <<keys, kv>>
      /\ reply = "missing" => Target(r) \notin keys
  <2>1. "missing" \notin AllFaults
    BY DEF AllFaults
  <2> QED BY <1>1, <2>1, DoFacts, EffectFacts, AnswerFacts
<1>3. pc[r] \in Removing
  BY <1>2 DEF Removing
<1>4. CASE reply \in {"ok", "missing"}
  <2>1. KeyDeleted(r) /\ keys' = keys \ {Target(r)} /\ UNCHANGED kv
    BY <1>1, <1>2, <1>4
  <2> QED BY <1>1, <1>3, <2>1, RefKeyDeleted
<1>5. CASE reply \notin {"ok", "missing"}
  BY <1>1, <1>2, <1>3, <1>5, RefKeyNotDeleted, ErrFacts
<1> QED BY <1>4, <1>5

\* A method begins.
LEMMA RefCall ==
    ASSUME VInv, VInv', NEW r \in Request, Call(r)
    PROVE  KS!Next
<1>1. PICK o \in Methods, c \in issued \cup {NoCID}, n \in (CID \ used) \cup {NoCID},
           p \in {"create", "kvdelete", "kvget"} :
        /\ (c = NoCID) <=> (o = "generate")
        /\ (n = NoCID) <=> (o \notin {"generate", "rotate"})
        /\ p = "create" <=> o = "generate"
        /\ p = "kvdelete" <=> o = "delete"
        /\ pc' = [pc EXCEPT ![r] = p]
        /\ op' = [op EXCEPT ![r] = o]
        /\ cid' = [cid EXCEPT ![r] = c]
        /\ new' = [new EXCEPT ![r] = n]
        /\ doomed' = doomed \cup {d \in {c} : o = "delete"}
  BY Zenon DEF Call
<1>2. pc[r] = "idle" /\ UNCHANGED <<keys, kv, undo, err, issued, erased>>
  BY DEF Call, vaultVars
<1>3. /\ \A q \in Request : /\ pc'[q] = IF q = r THEN p ELSE pc[q]
                            /\ op'[q] = IF q = r THEN o ELSE op[q]
                            /\ new'[q] = IF q = r THEN n ELSE new[q]
      /\ TypeOK /\ TypeOK'
  <2>1. TypeOK /\ TypeOK'
    BY VTyped DEF VInv
  <2> QED BY <1>1, <2>1 DEF TypeOK
<1>4. out[r] = "idle"
  BY Zenon, <1>2, Shown
<1>5. out' = [out EXCEPT ![r] = "busy"]
  BY Zenon, <1>2, <1>3 DEF out
<1>6. seen' = seen
  BY SMTT(20), <1>1, <1>2, <1>3 DEF seen
<1>7. made' = made
  <2>1. o = "rotate" => p = "kvget"
    BY <1>1
  <2> QED BY <1>2, <1>3, <2>1 DEF made, Replacing
<1>8. doomed' = (IF o = "delete" THEN doomed \cup {c} ELSE doomed) /\ usable' = usable
  BY <1>1, <1>2, <1>3, NothingLost
<1>9. KS!Begin(r, o, c)
  BY <1>1, <1>2, <1>5, <1>6, <1>7, <1>8 DEF KS!Begin
<1> QED BY <1>4, <1>9 DEF KS!Next, KS!Enter, KS!Methods, Methods

\* A call is declined.
LEMMA RefReject ==
    ASSUME VInv, VInv', NEW r \in Request, Reject(r)
    PROVE  KS!Next
<1>1. PICK o \in {"generate", "wrap"} : op' = [op EXCEPT ![r] = o]
  BY Zenon DEF Reject
<1>2. /\ pc[r] = "idle" /\ pc' = [pc EXCEPT ![r] = "return"] /\ err' = [err EXCEPT ![r] = "err"]
      /\ UNCHANGED <<keys, kv, cid, new, undo, issued, doomed, erased>>
  BY SMTT(20) DEF Reject, vaultVars, histVars
<1>3. /\ \A q \in Request : /\ pc'[q] = IF q = r THEN "return" ELSE pc[q]
                            /\ op'[q] = IF q = r THEN o ELSE op[q]
                            /\ err'[q] = IF q = r THEN "err" ELSE err[q]
      /\ TypeOK /\ TypeOK'
  <2>1. TypeOK /\ TypeOK'
    BY VTyped DEF VInv
  <2> QED BY <1>1, <1>2, <2>1 DEF TypeOK
<1>4. out[r] = "idle" /\ new[r] = NoCID /\ usable' = usable
  BY Zenon, <1>2, <1>3, Shown, NothingLost, InHand DEF VControl
<1>5. out' = [out EXCEPT ![r] = "err"]
  BY Zenon, <1>3 DEF out
<1>6. seen' = seen
  BY <1>2, <1>3 DEF seen
<1>7. made' = made
  <2>1. UNCHANGED <<new, undo>> /\ new[r] = NoCID
    BY <1>2, <1>4
  <2>2. \A q \in Request : made'[q] = made[q]
    BY <1>3, <2>1 DEF made, Replacing
  <2> QED BY <2>2, Zenon DEF made
<1>8. KS!Decline(r, o)
  BY <1>1, <1>2, <1>4, <1>5, <1>6, <1>7 DEF KS!Decline
<1> QED BY Zenon, <1>4, <1>8 DEF KS!Next, KS!Enter

\* Requests leave the key service with the methods they were in.
LEMMA RefLeave ==
    ASSUME TypeOK, NEW rs \in SUBSET Request, Leave(rs)
    PROVE  KS!Leave(rs)
<1>1. /\ op' = [r \in Request |-> IF r \in rs THEN "decrypt" ELSE op[r]]
      /\ cid' = [r \in Request |-> IF r \in rs THEN NoCID ELSE cid[r]]
      /\ pc' = [r \in Request |-> IF r \in rs THEN "idle" ELSE pc[r]]
      /\ new' = [r \in Request |-> IF r \in rs THEN NoCID ELSE new[r]]
      /\ undo' = [r \in Request |-> IF r \in rs THEN FALSE ELSE undo[r]]
      /\ err' = [r \in Request |-> IF r \in rs THEN "nil" ELSE err[r]]
  BY DEF Leave
<1>2. seen' = [r \in Request |-> IF r \in rs THEN FALSE ELSE seen[r]]
  BY <1>1 DEF seen
<1>3. made' = [r \in Request |-> IF r \in rs THEN NoCID ELSE made[r]]
  BY Zenon, <1>1 DEF made, Replacing
<1>4. out' = [r \in Request |-> IF r \in rs THEN "idle" ELSE out[r]]
  BY <1>1 DEF out
<1> QED BY Zenon, <1>1, <1>2, <1>3, <1>4 DEF KS!Leave

\* A result is taken.
LEMMA RefReturn ==
    ASSUME VInv, VInv', NEW r \in Request, Return(r)
    PROVE  KS!Next
<1>1. /\ pc[r] = "return" /\ Leave({r})
      /\ issued' = issued \cup ({new[r]} \ {NoCID})
      /\ erased' = erased \cup
           {c \in {cid[r]} : op[r] \in {"delete", "rotate"} /\ err[r] = "nil"}
      /\ UNCHANGED <<keys, kv, doomed>>
  BY DEF Return, vaultVars
<1>2. TypeOK /\ TypeOK' /\ usable' = usable
  BY Zenon, <1>1, NothingLost DEF VInv
<1>3. made[r] = new[r] /\ out[r] = err[r] /\ out[r] \in KS!Errors
  BY Zenon, <1>1, <1>2, Shown DEF TypeOK, Errors, KS!Errors
<1>4. KS!Leave({r})
  BY Zenon, <1>1, <1>2, RefLeave
<1>5. KS!Return(r)
  BY <1>1, <1>2, <1>3, <1>4 DEF KS!Return
<1> QED BY <1>5 DEF KS!Next

\* A lost call completes a key nobody returns, or gives one up.
LEMMA RefLate ==
    ASSUME VInv, VInv', NEW l \in late, ApplyLate(l)
    PROVE  KS!Next
<1>1. UNCHANGED <<pc, op, cid, new, undo, err, issued, doomed, erased>>
  BY Belated
<1>2. UNCHANGED <<seen, made, out>>
  <2>1. seen' = seen
    BY <1>1 DEF seen
  <2>2. made' = made
    BY Zenon, <1>1 DEF made, Replacing
  <2>3. out' = out
    BY <1>1 DEF out
  <2> QED BY Zenon, <2>1, <2>2, <2>3
<1>3. TypeOK /\ TypeOK' /\ l.cid \in CID /\ VLate(l)
  BY Zenon, Belated DEF VInv
<1>4. usable = keys \cap kv /\ usable' = keys' \cap kv'
  BY <1>3, UsableIs
<1>5. PICK c \in CID : c = l.cid
  BY <1>3
<1>6. GivenUp(c) => KS!Unclaimed(c)
  BY GivenUpIsUnclaimed
<1>7. CASE usable' \subseteq usable /\ usable \ usable' \subseteq {c} /\ (c \in doomed \/ GivenUp(c))
  <2>1. KS!LoseSome
    BY <1>6, <1>7 DEF KS!LoseSome, KS!Expendable
  <2>2. KS!Forget
    BY <1>1, <1>2, <2>1 DEF KS!Forget
  <2> QED BY <2>2 DEF KS!Next
<1>8. CASE usable' = usable \cup {c} /\ GivenUp(c)
  <2>1. KS!Stray(c)
    BY <1>1, <1>2, <1>6, <1>8 DEF KS!Stray
  <2> QED BY <2>1 DEF KS!Next
<1>9. CASE usable' = usable
  <2>1. KS!LoseSome
    BY <1>9 DEF KS!LoseSome
  <2>2. KS!Forget
    BY <1>1, <1>2, <2>1 DEF KS!Forget
  <2> QED BY <2>2 DEF KS!Next
<1>10. /\ l.call \in {"create", "put"} => GivenUp(c)
       /\ l.call = "kvdelete" => c \in doomed
       /\ l.call = "destroy" => GivenUp(c) \/ c \in doomed
  BY <1>3, <1>5 DEF VLate
<1>11. CASE UNCHANGED <<keys, kv>>
  BY <1>4, <1>9, <1>11
<1>12. CASE l.call = "create" /\ keys' = keys \cup {c} /\ kv' = kv
  BY <1>4, <1>8, <1>9, <1>10, <1>12
<1>13. CASE l.call = "put" /\ kv' = kv \cup {c} /\ keys' = keys
  BY <1>4, <1>8, <1>9, <1>10, <1>13
<1>14. CASE l.call = "kvdelete" /\ kv' = kv \ {c} /\ keys' = keys
  BY <1>4, <1>7, <1>10, <1>14
<1>15. CASE l.call = "destroy" /\ keys' = keys \ {c} /\ kv' = kv
  BY <1>4, <1>7, <1>10, <1>15
<1> QED BY Zenon, <1>5, <1>11, <1>12, <1>13, <1>14, <1>15, Belated

\* The calls in a process that dies are abandoned.
LEMMA RefCrash ==
    ASSUME VInv, VInv', Crash
    PROVE  KS!Next
<1>1. Leave(Request) /\ UNCHANGED <<keys, kv, issued, doomed, erased>>
  BY Zenon DEF Crash
<1>2. KS!Leave(Request) /\ usable' = usable
  BY <1>1, RefLeave, NothingLost DEF VInv
<1>3. KS!Abandon(Request)
  BY <1>1, <1>2 DEF KS!Abandon
<1> QED BY <1>3 DEF KS!Next

\* Every step is a step of the key service, or one its callers do not see.
LEMMA RefStep ==
    ASSUME VInv, VInv', [Next]_vars
    PROVE  [KS!Next]_KS!vars
<1>1. CASE Next
  BY Zenon, <1>1, RefCreate, RefEncrypt, RefPut, RefGet, RefDecrypt, RefKvDelete, RefProbe, RefAllow,
     RefDestroy, RefCall, RefReject, RefReturn, RefLate, RefCrash DEF Next, Step
<1>2. CASE UNCHANGED vars
  <2>1. seen' = seen
    BY <1>2 DEF vars, callVars, seen
  <2>2. made' = made
    BY Zenon, <1>2 DEF vars, callVars, made, Replacing
  <2>3. out' = out
    BY Zenon, <1>2 DEF vars, callVars, out
  <2>4. usable' = usable
    BY <1>2 DEF vars, vaultVars, usable, Usable
  <2> QED BY <1>2, <2>1, <2>2, <2>3, <2>4 DEF vars, vaultVars, callVars, histVars, KS!vars
<1> QED BY <1>1, <1>2

\* VaultTransit is a key service, for any number of callers, artifacts and lost
\* calls: whatever the calls of concurrent methods, lost replies and crashes do
\* between them, callers see what artifact.ArtifactKeyService promises.
THEOREM VaultImplementsKeyService == Spec => ImplementsKeyService
<1> USE DEF ImplementsKeyService
<1> QED BY VaultInvariant, RefInit, RefStep, PTL DEF Spec, KS!Spec

\* The key service again, with the theorems proved about it.
KSP == INSTANCE KeyServiceProofs WITH
    usable <- usable, seen <- seen, made <- made, out <- out

\* The two instances of the contract are one.
LEMMA SameService == KS!Spec => KSP!Spec
<1>1. KS!Init <=> KSP!Init
  BY DEF KS!Init, KSP!Init
<1>2. KS!Next <=> KSP!Next
  BY Zenon DEF KS!Next, KS!Enter, KS!Begin, KS!Decline, KS!Proceed, KS!See, KS!Serve, KS!Erase,
         KS!NotFound, KS!Renew, KS!Generate, KS!Fail, KS!Conclude, KS!LoseSome, KS!Expendable,
         KS!Unclaimed, KS!Return, KS!Stray, KS!Forget, KS!Abandon, KS!Leave, KS!Methods, KS!Errors,
         KSP!Next, KSP!Enter, KSP!Begin, KSP!Decline, KSP!Proceed, KSP!See, KSP!Serve, KSP!Erase,
         KSP!NotFound, KSP!Renew, KSP!Generate, KSP!Fail, KSP!Conclude, KSP!LoseSome,
         KSP!Expendable, KSP!Unclaimed, KSP!Return, KSP!Stray, KSP!Forget, KSP!Abandon, KSP!Leave,
         KSP!Methods, KSP!Errors
<1>3. [KS!Next]_KS!vars <=> [KSP!Next]_KSP!vars
  BY <1>2 DEF KS!vars, KSP!vars
<1> QED BY <1>1, <1>3, PTL DEF KS!Spec, KSP!Spec

\* What the contract gives, for Vault: the two halves of an artifact's key last
\* until somebody begins to delete it, never come back once its deletion was
\* reported, ErrKeyNotFound is honest and no two callers get one artifact.
THEOREM VaultKeepsPromises ==
    Spec => [](KS!KeysLast /\ KS!ErasureLasts /\ KS!NotFoundIsHonest /\ KS!ResultsAreFresh)
<1>1. KSP!Spec => [](KSP!KeysLast /\ KSP!ErasureLasts /\ KSP!NotFoundIsHonest
                     /\ KSP!ResultsAreFresh)
  BY KSP!ServicePromises
<1>2. KSP!KeysLast /\ KSP!ErasureLasts /\ KSP!NotFoundIsHonest /\ KSP!ResultsAreFresh
      => KS!KeysLast /\ KS!ErasureLasts /\ KS!NotFoundIsHonest /\ KS!ResultsAreFresh
  BY Zenon DEF KS!KeysLast, KS!ErasureLasts, KS!NotFoundIsHonest, KS!ResultsAreFresh,
         KSP!KeysLast, KSP!ErasureLasts, KSP!NotFoundIsHonest, KSP!ResultsAreFresh
<1> QED BY <1>1, <1>2, SameService, VaultImplementsKeyService, PTL DEF ImplementsKeyService
=============================================================================
