---------------------------- MODULE GCPKMSProofs ----------------------------
(***************************************************************************)
(* GCPKMS implements KeyService, for any number of callers, artifacts and  *)
(* lost calls.                                                             *)
(***************************************************************************)
EXTENDS GCPKMS, TLAPS

\* Where a request is in its method, and what it has in hand there.
GCPControl(r) ==
    /\ pc[r] = "idle" => cid[r] = NoCID /\ new[r] = NoCID
    /\ pc[r] \in {"getDoc", "kmsDecrypt"} => op[r] \in {"decrypt", "wrap", "rotate"}
    /\ pc[r] \in {"kmsEncrypt", "createDoc"} => op[r] \in {"generate", "rotate"}
    /\ pc[r] = "deleteDoc" => op[r] \in {"delete", "rotate"} /\ cid[r] \in doomed
    /\ pc[r] \notin {"idle", "return"} /\ op[r] # "generate" => cid[r] \in issued
    /\ pc[r] = "return" /\ op[r] \in {"delete", "rotate"} => cid[r] \in issued
    /\ pc[r] \notin {"idle", "return"} => (new[r] # NoCID <=> op[r] \in {"generate", "rotate"})
    /\ new[r] # NoCID => new[r] \in used /\ new[r] \notin issued

\* The artifact a request is about to make has no document yet, the one it is
\* about to return has one, and no two requests have the same one in hand.
GCPFresh(r) ==
    /\ pc[r] \in {"getDoc", "kmsDecrypt", "kmsEncrypt", "createDoc"} => new[r] \notin docs
    /\ pc[r] \in {"deleteDoc", "return"} /\ new[r] # NoCID => new[r] \in docs
    /\ new[r] # NoCID => \A q \in Request \ {r} : new[q] # new[r]

\* A lost write is for an artifact that nobody has or will get, and a lost
\* deletion is for one that somebody meant to delete.
GCPLate(l) ==
    /\ l.cid \in used
    /\ l.call = "createDoc" => /\ l.cid \in lost \ issued
                               /\ \A r \in Request : new[r] # l.cid
    /\ l.call = "deleteDoc" => l.cid \in doomed

\* The inductive invariant.
GCPInv ==
    /\ TypeOK
    /\ issued \ doomed \subseteq docs
    /\ doomed \subseteq issued
    /\ docs \cup issued \subseteq used
    /\ \A r \in Request : GCPControl(r) /\ GCPFresh(r)
    /\ \A l \in late : GCPLate(l)
    /\ NothingToRollBack
    /\ OnlyFaultsFail

\* The invariant holds initially.
LEMMA GCPInit == Init => GCPInv
BY GCPAssumption DEF Init, GCPInv, TypeOK, GCPControl, GCPFresh, GCPLate, NothingToRollBack,
       OnlyFaultsFail, Methods, Errors, Calls, Changes

-----------------------------------------------------------------------------
(* Calls *)

\* A reply that is no answer of the cloud is a fault, and then the request is
\* marked; Firestore changes only when a change is answered "ok".
LEMMA DoFacts ==
    ASSUME TypeOK, NEW r \in Request, NEW call \in Calls, NEW c, NEW reply \in Replies,
           Do(r, call, c, reply)
    PROVE  /\ pc[r] = call
           /\ reply \in Answers(call, c) \/ (r \in faulted' /\ reply \in AllFaults)
           /\ faulted' \in {faulted, faulted \cup {r}}
           /\ reply = "ok" => Effect(call, c)
           /\ reply # "ok" => docs' = docs
           /\ late' = late \/ /\ reply = "lost" /\ call \in Changes
                              /\ late' = late \cup {[call |-> call, cid |-> c]}
<1>1. /\ "lost" \in AllFaults
      /\ Faults \subseteq AllFaults
      /\ "ok" \notin AllFaults
  BY GCPAssumption DEF AllFaults
<1>2. "lost" \notin Answers(call, c)
  BY DEF Answers
<1>3. CASE reply \in Answers(call, c) /\ (IF reply = "ok" THEN Effect(call, c) ELSE UNCHANGED docs)
           /\ UNCHANGED <<late, faulted>>
  BY <1>3 DEF Do
<1>4. CASE reply \in Faults \ {"lost"} /\ faulted' = faulted \cup {r} /\ UNCHANGED cloudVars
  BY <1>1, <1>4 DEF Do, cloudVars
<1>5. CASE /\ reply = "lost" /\ call \in Changes
           /\ late' = late \cup {[call |-> call, cid |-> c]}
           /\ faulted' = faulted \cup {r}
           /\ UNCHANGED docs
  BY <1>1, <1>5 DEF Do
<1> QED BY <1>3, <1>4, <1>5 DEF Do

\* fmtGCPErr's errors.
LEMMA ErrFacts ==
    ASSUME NEW reply
    PROVE  fmtGCPErr(reply) \in {"unavailable", "err"}
BY DEF fmtGCPErr

\* A call that changes nothing in Firestore.
LEMMA ReadFacts ==
    ASSUME TypeOK, NEW r \in Request, NEW call \in Calls \ Changes, NEW c, NEW reply \in Replies,
           Do(r, call, c, reply)
    PROVE  /\ pc[r] = call
           /\ UNCHANGED cloudVars
           /\ reply \in Answers(call, c) \/ (r \in faulted' /\ reply \in AllFaults)
           /\ faulted' \in {faulted, faulted \cup {r}}
BY DoFacts DEF Effect, Changes, cloudVars

-----------------------------------------------------------------------------
(* The invariant *)

\* A step of r that reads, or that fails without having changed anything.
LEMMA QuietStepKeeps ==
    ASSUME GCPInv, NEW r \in Request, UNCHANGED <<docs, op, cid, used, issued, doomed, erased>>,
           NEW p \in Calls \cup {"return"}, pc' = [pc EXCEPT ![r] = p],
           NEW n \in {new[r], NoCID}, new' = [new EXCEPT ![r] = n],
           NEW e \in Errors, err' = [err EXCEPT ![r] = e],
           faulted' \in {faulted, faulted \cup {r}},
           pc[r] \notin {"idle", "return"},
           n # new[r] => p = "return" /\ new[r] \notin docs,
           p = "return" => n = NoCID,
           p = "return" \/ /\ p \in {"kmsDecrypt", "kmsEncrypt", "createDoc"}
                           /\ pc[r] \in {"getDoc", "kmsDecrypt", "kmsEncrypt"}
                           /\ p = "kmsDecrypt" => op[r] \in {"decrypt", "wrap", "rotate"}
                           /\ p \in {"kmsEncrypt", "createDoc"} => op[r] \in {"generate", "rotate"},
           p = "return" /\ op[r] \in {"generate", "delete"} => e = "nil" \/ r \in faulted',
           late' \subseteq [call : Changes, cid : CID],
           \A l \in late' : l \in late \/ GCPLate(l)',
           lost \subseteq lost', lost' \subseteq CID
    PROVE  GCPInv'
<1> USE DEF GCPInv
<1>1. TypeOK'
  BY DEF TypeOK
<1>2. \A q \in Request : /\ pc'[q] = IF q = r THEN p ELSE pc[q]
                         /\ new'[q] = IF q = r THEN n ELSE new[q]
                         /\ err'[q] = IF q = r THEN e ELSE err[q]
  BY DEF TypeOK
<1>3. ASSUME NEW q \in Request PROVE GCPControl(q)'
  BY <1>2 DEF GCPControl
<1>4. ASSUME NEW q \in Request PROVE GCPFresh(q)'
  BY <1>2 DEF GCPFresh
<1>5. ASSUME NEW l \in late' PROVE GCPLate(l)'
  <2>1. CASE l \in late
    <3>1. l.cid # NoCID
      BY <1>5, GCPAssumption
    <3> QED BY <1>2, <2>1, <3>1 DEF GCPLate
  <2> QED BY <2>1
<1>6. NothingToRollBack'
  BY <1>2 DEF NothingToRollBack, GCPFresh
<1>7. OnlyFaultsFail'
  BY <1>2 DEF OnlyFaultsFail
<1> QED BY <1>1, <1>3, <1>4, <1>5, <1>6, <1>7

\* kmsEncrypt keeps the invariant.
LEMMA EncryptKeeps ==
    ASSUME GCPInv, NEW r \in Request, kmsEncrypt(r)
    PROVE  GCPInv'
<1> USE DEF GCPInv
<1>1. PICK reply \in Replies :
        /\ Do(r, "kmsEncrypt", new[r], reply)
        /\ IF reply = "ok" THEN Goto(r, "createDoc") ELSE Finish(r, fmtGCPErr(reply), NoCID)
        /\ UNCHANGED <<used, issued, doomed, erased, lost>>
  BY DEF kmsEncrypt
<1>2. /\ pc[r] = "kmsEncrypt" /\ UNCHANGED <<docs, late>>
      /\ reply = "ok" \/ r \in faulted'
      /\ faulted' \in {faulted, faulted \cup {r}}
  BY <1>1, ReadFacts DEF Calls, Changes, Answers, cloudVars
<1>3. op[r] \in {"generate", "rotate"} /\ new[r] \notin docs
  BY <1>2 DEF GCPControl, GCPFresh
<1>4. CASE reply = "ok"
  <2>1. /\ pc' = [pc EXCEPT ![r] = "createDoc"] /\ UNCHANGED <<op, cid, new, err>>
        /\ new' = [new EXCEPT ![r] = new[r]] /\ err' = [err EXCEPT ![r] = err[r]]
    BY <1>1, <1>4 DEF Goto, TypeOK
  <2> QED BY Zenon, <1>1, <1>2, <1>3, <2>1, QuietStepKeeps DEF TypeOK, Calls, Changes
<1>5. CASE reply # "ok"
  BY Zenon, <1>1, <1>2, <1>3, <1>5, ErrFacts, QuietStepKeeps DEF Finish, TypeOK, Errors
<1> QED BY <1>4, <1>5

\* firestoreGetWrapped keeps the invariant.
LEMMA GetKeeps ==
    ASSUME GCPInv, NEW r \in Request, firestoreGetWrapped(r)
    PROVE  GCPInv'
<1> USE DEF GCPInv
<1>1. PICK reply \in Replies :
        /\ Do(r, "getDoc", cid[r], reply)
        /\ CASE reply = "ok"      -> Goto(r, "kmsDecrypt")
             [] reply = "missing" -> Finish(r, "notfound", NoCID)
             [] OTHER             -> Finish(r, fmtGCPErr(reply), NoCID)
        /\ UNCHANGED <<used, issued, doomed, erased, lost>>
  BY DEF firestoreGetWrapped
<1>2. /\ pc[r] = "getDoc" /\ UNCHANGED <<docs, late, used, issued, doomed, erased, lost>>
      /\ faulted' \in {faulted, faulted \cup {r}}
  BY <1>1, ReadFacts DEF Calls, Changes, cloudVars
<1>3. op[r] \in {"decrypt", "wrap", "rotate"} /\ new[r] \notin docs
  BY Zenon, <1>2 DEF GCPControl, GCPFresh
<1>4. CASE reply = "ok"
  <2>1. /\ pc' = [pc EXCEPT ![r] = "kmsDecrypt"] /\ UNCHANGED <<op, cid, new, err>>
        /\ new' = [new EXCEPT ![r] = new[r]] /\ err' = [err EXCEPT ![r] = err[r]]
    BY <1>1, <1>4 DEF Goto, TypeOK
  <2>2. PICK p \in Calls, n \in {new[r], NoCID}, e \in Errors :
          /\ p = "kmsDecrypt" /\ n = new[r]
          /\ pc' = [pc EXCEPT ![r] = p]
          /\ new' = [new EXCEPT ![r] = n]
          /\ err' = [err EXCEPT ![r] = e]
    BY Zenon, <2>1 DEF Calls, TypeOK
  <2>3. late' \subseteq [call : Changes, cid : CID] /\ lost' \subseteq CID
    BY <1>2 DEF TypeOK
  <2>4. /\ GCPInv /\ UNCHANGED <<docs, op, cid, used, issued, doomed, erased>>
        /\ faulted' \in {faulted, faulted \cup {r}}
        /\ lost \subseteq lost' /\ \A l \in late' : l \in late \/ GCPLate(l)'
    BY <1>2, <2>1
  <2>5. /\ pc[r] \in {"getDoc", "kmsDecrypt", "kmsEncrypt"} /\ pc[r] \notin {"idle", "return"}
        /\ p \in {"kmsDecrypt", "kmsEncrypt", "createDoc"} /\ p \in Calls \cup {"return"}
        /\ p \notin {"return", "kmsEncrypt", "createDoc"} /\ p # "return"
    BY <1>2, <2>2
  <2> HIDE DEF GCPInv
  <2> QED BY Zenon, <1>3, <2>2, <2>3, <2>4, <2>5, QuietStepKeeps
<1>5. CASE reply # "ok"
  <2>1. PICK e \in {"notfound", "unavailable", "err"} : Finish(r, e, NoCID)
    BY <1>1, <1>5, ErrFacts
  <2> QED BY Zenon, <1>2, <1>3, <2>1, QuietStepKeeps DEF Finish, TypeOK, Errors
<1> QED BY <1>4, <1>5

\* kmsDecrypt keeps the invariant.
LEMMA DecryptKeeps ==
    ASSUME GCPInv, NEW r \in Request, kmsDecrypt(r)
    PROVE  GCPInv'
<1> USE DEF GCPInv
<1>1. PICK reply \in Replies :
        /\ Do(r, "kmsDecrypt", cid[r], reply)
        /\ \/ Finish(r, fmtGCPErr(reply), NoCID)
           \/ op[r] = "rotate" /\ Goto(r, "kmsEncrypt")
           \/ op[r] # "rotate" /\ Finish(r, "nil", NoCID)
           \/ \E e \in {"mismatch", "err"} : Finish(r, e, NoCID)
        /\ UNCHANGED <<used, issued, doomed, erased, lost>>
  BY Zenon DEF kmsDecrypt
<1>2. /\ pc[r] = "kmsDecrypt" /\ UNCHANGED <<docs, late>>
      /\ faulted' \in {faulted, faulted \cup {r}}
  BY Zenon, <1>1, ReadFacts DEF Calls, Changes, cloudVars
<1>3. op[r] \in {"decrypt", "wrap", "rotate"} /\ new[r] \notin docs
  BY <1>2 DEF GCPControl, GCPFresh
<1>4. CASE op[r] = "rotate" /\ Goto(r, "kmsEncrypt")
  <2>1. /\ pc' = [pc EXCEPT ![r] = "kmsEncrypt"] /\ UNCHANGED <<op, cid, new, err>>
        /\ new' = [new EXCEPT ![r] = new[r]] /\ err' = [err EXCEPT ![r] = err[r]]
    BY <1>4 DEF Goto, TypeOK
  <2> QED BY Zenon, <1>1, <1>2, <1>3, <1>4, <2>1, QuietStepKeeps DEF TypeOK, Calls
<1>5. CASE \E e \in Errors : Finish(r, e, NoCID)
  BY Zenon, <1>1, <1>2, <1>3, <1>5, QuietStepKeeps DEF Finish, TypeOK
<1> QED BY Zenon, <1>1, <1>4, <1>5, ErrFacts DEF Errors

\* firestoreCreateWrapped keeps the invariant.
LEMMA CreateKeeps ==
    ASSUME GCPInv, NEW r \in Request, firestoreCreateWrapped(r)
    PROVE  GCPInv'
<1> USE DEF GCPInv
<1>1. PICK reply \in Replies :
        /\ Do(r, "createDoc", new[r], reply)
        /\ IF reply # "ok"
           THEN Finish(r, fmtGCPErr(reply), NoCID) /\ UNCHANGED doomed
           ELSE IF op[r] = "rotate"
           THEN Goto(r, "deleteDoc") /\ doomed' = doomed \cup {cid[r]}
           ELSE Finish(r, "nil", new[r]) /\ UNCHANGED doomed
        /\ lost' = IF reply = "lost" THEN lost \cup {new[r]} ELSE lost
        /\ UNCHANGED <<used, issued, erased>>
  BY Zenon DEF firestoreCreateWrapped
<1>2. /\ pc[r] = "createDoc"
      /\ reply \in Answers("createDoc", new[r]) \/ r \in faulted'
      /\ faulted' \in {faulted, faulted \cup {r}}
      /\ reply = "ok" => docs' = docs \cup {new[r]}
      /\ reply # "ok" => docs' = docs
      /\ \/ late' = late
         \/ reply = "lost" /\ late' = late \cup {[call |-> "createDoc", cid |-> new[r]]}
  BY <1>1, DoFacts DEF Calls, Changes, Effect
<1>3. /\ op[r] \in {"generate", "rotate"} /\ new[r] \notin docs /\ new[r] \in CID
      /\ new[r] # NoCID /\ new[r] \in used \ issued
      /\ op[r] = "rotate" => cid[r] \in issued
  BY Zenon, <1>2 DEF GCPControl, GCPFresh, TypeOK
<1>4. reply = "ok" \/ r \in faulted'
  BY <1>2, <1>3 DEF Answers
<1>5. CASE reply # "ok"
  <2>1. /\ UNCHANGED <<docs, op, cid, used, issued, doomed, erased>>
        /\ pc' = [pc EXCEPT ![r] = "return"] /\ new' = [new EXCEPT ![r] = NoCID]
        /\ \E e \in Errors : err' = [err EXCEPT ![r] = e]
    BY Zenon, <1>1, <1>2, <1>5, ErrFacts DEF Finish, Errors
  <2>2. lost \subseteq lost' /\ lost' \subseteq CID
    BY Zenon, <1>1, <1>3 DEF TypeOK
  <2>3. late' \subseteq [call : Changes, cid : CID]
    BY <1>2, <1>3 DEF TypeOK, Changes
  <2>4. ASSUME NEW l \in late', l \notin late PROVE GCPLate(l)'
    <3>1. reply = "lost" /\ l = [call |-> "createDoc", cid |-> new[r]]
      BY Zenon, <1>2, <2>4
    <3>2. l.call = "createDoc" /\ l.cid = new[r] /\ l.cid \in lost'
      BY Zenon, <1>1, <3>1
    <3>3. \A q \in Request : new'[q] # new[r]
      BY Zenon, <1>3, <2>1 DEF GCPFresh, TypeOK
    <3> QED BY Zenon, <1>1, <1>3, <3>2, <3>3 DEF GCPLate
  <2> QED BY Zenon, <1>2, <1>3, <1>4, <1>5, <2>1, <2>2, <2>3, <2>4, QuietStepKeeps DEF TypeOK
<1>6. CASE reply = "ok"
  <2>1. /\ docs' = docs \cup {new[r]}
        /\ UNCHANGED <<late, lost, op, cid, used, issued, erased, new>>
        /\ \/ op[r] = "rotate" /\ pc' = [pc EXCEPT ![r] = "deleteDoc"]
              /\ doomed' = doomed \cup {cid[r]} /\ err' = err
           \/ op[r] = "generate" /\ pc' = [pc EXCEPT ![r] = "return"]
              /\ doomed' = doomed /\ err' = [err EXCEPT ![r] = "nil"]
    BY <1>1, <1>2, <1>3, <1>6 DEF Goto, Finish, TypeOK
  <2>2. TypeOK'
    BY <1>2, <1>3, <2>1 DEF TypeOK, Calls, Changes, Errors
  <2>3. \A q \in Request : q # r => pc'[q] = pc[q] /\ err'[q] = err[q]
    BY Zenon, <2>1 DEF TypeOK
  <2>4. \/ pc'[r] = "deleteDoc" /\ op[r] = "rotate" /\ cid[r] \in doomed'
        \/ pc'[r] = "return" /\ err'[r] = "nil"
    BY <2>1 DEF TypeOK
  <2>5. doomed \subseteq doomed' /\ doomed' \subseteq issued
    BY <1>3, <2>1
  <2>6. ASSUME NEW q \in Request PROVE GCPControl(q)'
    BY <1>3, <2>1, <2>3, <2>4, <2>5 DEF GCPControl
  <2>7. ASSUME NEW q \in Request PROVE GCPFresh(q)'
    BY <1>3, <2>1, <2>3, <2>4 DEF GCPFresh
  <2>8. ASSUME NEW l \in late' PROVE GCPLate(l)'
    BY <2>1, <2>5 DEF GCPLate
  <2>9. NothingToRollBack'
    BY <2>1, <2>3, <2>4 DEF NothingToRollBack
  <2>10. OnlyFaultsFail'
    BY <1>2, <2>1, <2>3, <2>4 DEF OnlyFaultsFail
  <2> QED BY <1>3, <2>1, <2>2, <2>5, <2>6, <2>7, <2>8, <2>9, <2>10
<1> QED BY <1>5, <1>6

\* firestoreDeleteWrapped keeps the invariant.
LEMMA DeleteKeeps ==
    ASSUME GCPInv, NEW r \in Request, firestoreDeleteWrapped(r)
    PROVE  GCPInv'
<1> USE DEF GCPInv
<1>1. PICK reply \in Replies :
        /\ Do(r, "deleteDoc", cid[r], reply)
        /\ IF reply \in {"ok", "missing"}
           THEN Finish(r, "nil", new[r])
           ELSE Finish(r, fmtGCPErr(reply), new[r])
        /\ UNCHANGED <<used, issued, doomed, erased, lost>>
  BY DEF firestoreDeleteWrapped
<1>2. /\ pc[r] = "deleteDoc"
      /\ reply \in Answers("deleteDoc", cid[r]) \/ r \in faulted'
      /\ faulted' \in {faulted, faulted \cup {r}}
      /\ docs' \in {docs, docs \ {cid[r]}}
      /\ \/ late' = late
         \/ late' = late \cup {[call |-> "deleteDoc", cid |-> cid[r]]}
  BY <1>1, DoFacts DEF Calls, Changes, Effect
<1>3. /\ cid[r] \in doomed /\ cid[r] \in CID /\ cid[r] \in used
      /\ UNCHANGED <<op, cid, used, issued, doomed, erased, lost, new>>
      /\ pc' = [pc EXCEPT ![r] = "return"]
  BY <1>1, <1>2 DEF GCPControl, Finish, TypeOK
<1>4. PICK e \in Errors : /\ err' = [err EXCEPT ![r] = e]
                          /\ e = "nil" \/ r \in faulted'
  BY <1>1, <1>2, ErrFacts DEF Finish, Errors, Answers
<1>5. TypeOK'
  BY <1>2, <1>3, <1>4 DEF TypeOK, Changes
<1>6. \A q \in Request : /\ pc'[q] = IF q = r THEN "return" ELSE pc[q]
                         /\ err'[q] = IF q = r THEN e ELSE err[q]
  BY <1>3, <1>4 DEF TypeOK
<1>7. ASSUME NEW q \in Request PROVE GCPControl(q)' /\ GCPFresh(q)'
  BY <1>2, <1>3, <1>6 DEF GCPControl, GCPFresh
<1>8. ASSUME NEW l \in late' PROVE GCPLate(l)'
  BY <1>2, <1>3 DEF GCPLate
<1>9. NothingToRollBack' /\ issued' \ doomed' \subseteq docs'
  BY <1>2, <1>3, <1>6 DEF NothingToRollBack
<1>10. OnlyFaultsFail'
  BY <1>2, <1>3, <1>4, <1>6 DEF OnlyFaultsFail
<1> QED BY Zenon, <1>2, <1>3, <1>5, <1>7, <1>8, <1>9, <1>10

\* Call keeps the invariant.
LEMMA CallKeeps ==
    ASSUME GCPInv, NEW r \in Request, Call(r)
    PROVE  GCPInv'
<1> USE DEF GCPInv
<1>1. PICK o \in Methods, c \in issued \cup {NoCID}, n \in (CID \ used) \cup {NoCID},
           p \in {"kmsEncrypt", "deleteDoc", "getDoc"} :
        /\ (c = NoCID) <=> (o = "generate")
        /\ (n = NoCID) <=> (o \notin {"generate", "rotate"})
        /\ p = "kmsEncrypt" <=> o = "generate"
        /\ p = "deleteDoc" <=> o = "delete"
        /\ pc' = [pc EXCEPT ![r] = p]
        /\ op' = [op EXCEPT ![r] = o]
        /\ cid' = [cid EXCEPT ![r] = c]
        /\ new' = [new EXCEPT ![r] = n]
        /\ used' = used \cup ({n} \ {NoCID})
        /\ doomed' = doomed \cup {d \in {c} : o = "delete"}
  BY Zenon DEF Call
<1>2. pc[r] = "idle" /\ UNCHANGED <<docs, late, err, issued, erased, lost, faulted>>
  BY DEF Call, cloudVars
<1>3. /\ doomed \subseteq doomed' /\ doomed' \subseteq issued
      /\ o = "delete" => c \in doomed'
      /\ used \subseteq used' /\ used' \subseteq CID
      /\ n # NoCID => n \in used' /\ n \notin used
      /\ NoCID \notin docs
  BY <1>1, GCPAssumption DEF TypeOK
<1>4. TypeOK'
  BY Zenon, <1>1, <1>2, <1>3 DEF TypeOK, Calls, Changes
<1>5. \A q \in Request : /\ pc'[q] = IF q = r THEN p ELSE pc[q]
                         /\ op'[q] = IF q = r THEN o ELSE op[q]
                         /\ cid'[q] = IF q = r THEN c ELSE cid[q]
                         /\ new'[q] = IF q = r THEN n ELSE new[q]
  BY Zenon, <1>1 DEF TypeOK
<1>6. ASSUME NEW q \in Request PROVE GCPControl(q)'
  BY <1>1, <1>2, <1>3, <1>5, GCPAssumption DEF GCPControl, Methods, TypeOK
<1>7. ASSUME NEW q \in Request PROVE GCPFresh(q)'
  BY <1>1, <1>2, <1>3, <1>5 DEF GCPFresh, GCPControl
<1>8. ASSUME NEW l \in late' PROVE GCPLate(l)'
  <2>1. l.cid # NoCID
    BY <1>2, GCPAssumption DEF TypeOK
  <2> QED BY <1>2, <1>3, <1>5, <2>1 DEF GCPLate
<1>9. NothingToRollBack'
  <2>1. ASSUME NEW d \in docs, NEW q \in Request, new[q] = d, pc[q] # "getDoc" PROVE q # r
    BY Zenon, <1>2, <2>1, GCPAssumption DEF GCPControl, TypeOK
  <2> QED BY <1>2, <1>5, <2>1 DEF NothingToRollBack
<1>10. OnlyFaultsFail'
  BY Zenon, <1>2, <1>5 DEF OnlyFaultsFail
<1> QED BY <1>2, <1>3, <1>4, <1>6, <1>7, <1>8, <1>9, <1>10

\* Reject keeps the invariant.
LEMMA RejectKeeps ==
    ASSUME GCPInv, NEW r \in Request, Reject(r)
    PROVE  GCPInv'
<1> USE DEF GCPInv
<1>1. PICK o \in {"generate", "wrap"} : op' = [op EXCEPT ![r] = o]
  BY Zenon DEF Reject
<1>2. /\ pc[r] = "idle" /\ pc' = [pc EXCEPT ![r] = "return"] /\ err' = [err EXCEPT ![r] = "err"]
      /\ faulted' = faulted \cup {r}
      /\ UNCHANGED <<docs, late, cid, new, used, issued, doomed, erased, lost>>
  BY DEF Reject, cloudVars
<1>3. TypeOK'
  BY <1>1, <1>2 DEF TypeOK, Methods, Errors
<1>4. \A q \in Request : /\ pc'[q] = IF q = r THEN "return" ELSE pc[q]
                         /\ op'[q] = IF q = r THEN o ELSE op[q]
                         /\ err'[q] = IF q = r THEN "err" ELSE err[q]
  BY <1>1, <1>2 DEF TypeOK
<1>5. ASSUME NEW q \in Request PROVE GCPControl(q)' /\ GCPFresh(q)'
  BY <1>2, <1>4 DEF GCPControl, GCPFresh
<1>6. ASSUME NEW l \in late' PROVE GCPLate(l)'
  BY Zenon, <1>2 DEF GCPLate
<1>7. NothingToRollBack'
  BY <1>2, <1>4 DEF NothingToRollBack
<1>8. OnlyFaultsFail'
  BY <1>2, <1>4 DEF OnlyFaultsFail
<1> QED BY <1>2, <1>3, <1>5, <1>6, <1>7, <1>8

\* The requests that leave are idle, the others go on.
LEMMA LeaveFacts ==
    ASSUME TypeOK, NEW rs \in SUBSET Request, Leave(rs)
    PROVE  /\ pc' \in [Request -> Calls \cup {"idle", "return"}]
           /\ op' \in [Request -> Methods]
           /\ cid' \in [Request -> CID \cup {NoCID}]
           /\ new' \in [Request -> CID \cup {NoCID}]
           /\ err' \in [Request -> Errors]
           /\ \A q \in rs : /\ pc'[q] = "idle" /\ op'[q] = "decrypt" /\ cid'[q] = NoCID
                            /\ new'[q] = NoCID /\ err'[q] = "nil"
           /\ \A q \in Request \ rs : /\ pc'[q] = pc[q] /\ op'[q] = op[q] /\ cid'[q] = cid[q]
                                      /\ new'[q] = new[q] /\ err'[q] = err[q]
           /\ faulted' = faulted \ rs
BY DEF Leave, TypeOK, Methods, Errors, Calls

\* Return keeps the invariant.
LEMMA ReturnKeeps ==
    ASSUME GCPInv, NEW r \in Request, Return(r)
    PROVE  GCPInv'
<1> USE DEF GCPInv
<1>1. /\ pc[r] = "return" /\ Leave({r})
      /\ issued' = issued \cup ({new[r]} \ {NoCID})
      /\ erased' \subseteq erased \cup ({cid[r]} \ {NoCID}) \cup {NoCID}
      /\ UNCHANGED <<docs, late, used, doomed, lost>>
  BY Zenon DEF Return, cloudVars
<1>2. /\ \A q \in Request \ {r} : /\ pc'[q] = pc[q] /\ op'[q] = op[q] /\ cid'[q] = cid[q]
                                  /\ new'[q] = new[q] /\ err'[q] = err[q]
      /\ pc'[r] = "idle" /\ op'[r] = "decrypt" /\ cid'[r] = NoCID /\ new'[r] = NoCID
      /\ faulted' = faulted \ {r}
  BY <1>1, LeaveFacts
<1>3. erased' \subseteq CID
  BY Zenon DEF Return, TypeOK, GCPControl
<1>4. TypeOK'
  BY <1>1, <1>3, LeaveFacts DEF TypeOK
<1>5. new[r] # NoCID => new[r] \in docs /\ new[r] \in used /\ new[r] \in CID
  BY Zenon, <1>1 DEF GCPFresh, GCPControl, TypeOK
<1>6. ASSUME NEW q \in Request PROVE GCPControl(q)' /\ GCPFresh(q)'
  BY <1>1, <1>2 DEF GCPControl, GCPFresh
<1>7. ASSUME NEW l \in late' PROVE GCPLate(l)'
  <2>1. l.cid # NoCID
    BY <1>1, GCPAssumption DEF TypeOK
  <2> QED BY <1>1, <1>2, <2>1 DEF GCPLate
<1>8. NothingToRollBack'
  BY <1>1, <1>2, GCPAssumption DEF NothingToRollBack, TypeOK
<1>9. OnlyFaultsFail'
  BY Zenon, <1>2 DEF OnlyFaultsFail
<1> QED BY Zenon, <1>1, <1>4, <1>5, <1>6, <1>7, <1>8, <1>9

\* What a lost call does when Firestore carries it out.
LEMMA LateFacts ==
    ASSUME GCPInv, NEW l \in late, ApplyLate(l)
    PROVE  /\ l.cid \in CID
           /\ \/ l.call = "createDoc" /\ docs' \in {docs, docs \cup {l.cid}}
              \/ l.call = "deleteDoc" /\ docs' \in {docs, docs \ {l.cid}}
<1>1. l.cid \in CID /\ l.call \in Changes
  BY DEF GCPInv, TypeOK
<1>2. Effect(l.call, l.cid) \/ docs' = docs
  BY DEF ApplyLate
<1>3. CASE l.call = "createDoc"
  BY <1>1, <1>2, <1>3 DEF Effect
<1>4. CASE l.call = "deleteDoc"
  BY <1>1, <1>2, <1>4 DEF Effect
<1> QED BY <1>1, <1>3, <1>4 DEF Changes

\* A lost call keeps the invariant when it is carried out.
LEMMA ApplyLateKeeps ==
    ASSUME GCPInv, NEW l \in late, ApplyLate(l)
    PROVE  GCPInv'
<1> USE DEF GCPInv
<1>1. late' = late \ {l} /\ UNCHANGED <<pc, op, cid, new, err, used, issued, doomed, erased, lost, faulted>>
  BY DEF ApplyLate, callVars, histVars
<1>2. TypeOK'
  BY Zenon, <1>1, LateFacts DEF TypeOK
<1>3. /\ l.cid \in used
      /\ l.call = "createDoc" => l.cid \in lost \ issued /\ \A r \in Request : new[r] # l.cid
      /\ l.call = "deleteDoc" => l.cid \in doomed
  BY Zenon DEF GCPLate
<1>4. ASSUME NEW q \in Request PROVE GCPControl(q)'
  BY Zenon, <1>1 DEF GCPControl
<1>5. ASSUME NEW q \in Request PROVE GCPFresh(q)'
  BY <1>1, <1>3, LateFacts DEF GCPFresh, GCPControl
<1>6. ASSUME NEW m \in late' PROVE GCPLate(m)'
  BY Zenon, <1>1 DEF GCPLate
<1>7. NothingToRollBack' /\ issued' \ doomed' \subseteq docs' /\ docs' \cup issued' \subseteq used'
  BY <1>1, <1>3, LateFacts DEF NothingToRollBack
<1>8. OnlyFaultsFail'
  BY Zenon, <1>1 DEF OnlyFaultsFail
<1> QED BY Zenon, <1>1, <1>2, <1>4, <1>5, <1>6, <1>7, <1>8

\* A crash keeps the invariant.
LEMMA CrashKeeps ==
    ASSUME GCPInv, Crash
    PROVE  GCPInv'
<1> USE DEF GCPInv
<1>1. /\ Leave(Request)
      /\ lost' = lost \cup ({new[r] : r \in Request} \ {NoCID})
      /\ UNCHANGED <<docs, used, issued, doomed, erased>>
  BY Zenon DEF Crash
<1>2. \A q \in Request : /\ pc'[q] = "idle" /\ op'[q] = "decrypt" /\ cid'[q] = NoCID
                         /\ new'[q] = NoCID /\ err'[q] = "nil"
  BY Zenon, <1>1, LeaveFacts
<1>3. PICK sent \in SUBSET {r \in Request : pc[r] \in Changes} :
        late' = late \cup
            {[call |-> pc[r], cid |-> IF pc[r] = "createDoc" THEN new[r] ELSE cid[r]] :
               r \in sent}
  BY Zenon DEF Crash
<1>4. ASSUME NEW l \in late', l \notin late
      PROVE  l \in [call : Changes, cid : CID] /\ GCPLate(l)'
  <2>1. PICK r \in sent :
          l = [call |-> pc[r], cid |-> IF pc[r] = "createDoc" THEN new[r] ELSE cid[r]]
    BY Zenon, <1>3, <1>4
  <2>2. r \in Request /\ pc[r] \in Changes
    OBVIOUS
  <2>3. CASE pc[r] = "createDoc"
    <3>1. l = [call |-> "createDoc", cid |-> new[r]]
      BY Zenon, <2>1, <2>3
    <3>2. new[r] \in CID /\ new[r] # NoCID /\ new[r] \in used \ issued
      BY Zenon, <2>2, <2>3 DEF GCPControl, TypeOK
    <3>3. new[r] \in lost'
      BY Zenon, <1>1, <2>2, <3>2
    <3> QED BY Zenon, <1>1, <1>2, <3>1, <3>2, <3>3 DEF GCPLate, Changes
  <2>4. CASE pc[r] = "deleteDoc"
    <3>1. l = [call |-> "deleteDoc", cid |-> cid[r]]
      BY Zenon, <2>1, <2>4
    <3>2. cid[r] \in doomed /\ cid[r] \in CID /\ cid[r] \in used
      BY Zenon, <2>2, <2>4 DEF GCPControl, TypeOK
    <3> QED BY Zenon, <1>1, <3>1, <3>2 DEF GCPLate, Changes
  <2> QED BY <2>2, <2>3, <2>4 DEF Changes
<1>5. ASSUME NEW l \in late PROVE GCPLate(l)'
  <2>1. l.cid # NoCID
    BY Zenon, GCPAssumption DEF TypeOK
  <2> QED BY Zenon, <1>1, <1>2, <2>1 DEF GCPLate
<1>6. late' \subseteq [call : Changes, cid : CID]
  BY Zenon, <1>4 DEF TypeOK
<1>7. lost' \subseteq CID
  BY Zenon, <1>1 DEF TypeOK
<1>8. TypeOK'
  BY <1>1, <1>6, <1>7, LeaveFacts DEF TypeOK
<1>9. ASSUME NEW q \in Request PROVE GCPControl(q)' /\ GCPFresh(q)'
  BY Zenon, <1>2 DEF GCPControl, GCPFresh
<1>10. NothingToRollBack'
  BY <1>1, GCPAssumption DEF NothingToRollBack, TypeOK
<1>11. OnlyFaultsFail'
  BY Zenon, <1>2 DEF OnlyFaultsFail
<1> QED BY Zenon, <1>1, <1>4, <1>5, <1>8, <1>9, <1>10, <1>11

\* Every step keeps the invariant.
LEMMA GCPStep ==
    ASSUME GCPInv, [Next]_vars
    PROVE  GCPInv'
<1>1. CASE Next
  BY Zenon, <1>1, EncryptKeeps, GetKeeps, DecryptKeeps, CreateKeeps, DeleteKeeps, CallKeeps, RejectKeeps,
     ReturnKeeps, ApplyLateKeeps, CrashKeeps DEF Next, Step
<1>2. CASE UNCHANGED vars
  BY <1>2 DEF vars, cloudVars, callVars, histVars, GCPInv, TypeOK, GCPControl, GCPFresh, GCPLate,
      NothingToRollBack, OnlyFaultsFail
<1> QED BY <1>1, <1>2

\* GCPInv holds in every state of GCPKMS.
THEOREM GCPInvariant == Spec => []GCPInv
BY GCPInit, GCPStep, PTL DEF Spec

\* The Cloud KMS service, the store of wrapped DEKs and the callers keep their
\* types.
THEOREM GCPKMSTypeCorrect == Spec => []TypeOK
<1>1. GCPInv => TypeOK
  BY DEF GCPInv
<1> QED BY <1>1, GCPInvariant, PTL

\* "Nothing to roll back" is true of a failed GenerateAndEncrypt or Rotate, for
\* any number of callers and lost calls.
THEOREM GCPKMSNothingToRollBack == Spec => []NothingToRollBack
<1>1. GCPInv => NothingToRollBack
  BY DEF GCPInv
<1> QED BY <1>1, GCPInvariant, PTL

\* Delete and GenerateAndEncrypt fail only because a call they made failed.
THEOREM GCPKMSOnlyFaultsFail == Spec => []OnlyFaultsFail
<1>1. GCPInv => OnlyFaultsFail
  BY DEF GCPInv
<1> QED BY <1>1, GCPInvariant, PTL

-----------------------------------------------------------------------------
(* The refinement *)

\* What the abstract state shows of a request.
LEMMA Shown ==
    ASSUME TypeOK, NEW r \in Request
    PROVE  /\ made[r] = IF pc[r] = "return" \/ (op[r] = "rotate" /\ pc[r] = "deleteDoc")
                        THEN new[r] ELSE NoCID
           /\ out[r] = IF pc[r] = "idle" THEN "idle"
                       ELSE IF pc[r] = "return" THEN err[r] ELSE "busy"
BY DEF made, out

\* A call by which r's method comes to an end.
LEMMA Concludes ==
    ASSUME TypeOK, NEW r \in Request, pc[r] \in Calls,
           NEW n, NEW e, Finish(r, e, n)
    PROVE  /\ out[r] = "busy" /\ UNCHANGED <<op, cid>>
           /\ out' = [out EXCEPT ![r] = e]
           /\ seen' = [seen EXCEPT ![r] = FALSE]
           /\ made' = [made EXCEPT ![r] = n]
<1>1. \A q \in Request : /\ pc'[q] = IF q = r THEN "return" ELSE pc[q]
                         /\ new'[q] = IF q = r THEN n ELSE new[q]
                         /\ err'[q] = IF q = r THEN e ELSE err[q]
                         /\ op'[q] = op[q]
  BY DEF TypeOK, Finish
<1>2. pc[r] \notin {"idle", "return"} /\ UNCHANGED <<op, cid>>
  BY DEF Calls, Changes, Finish
<1>3. out[r] = "busy"
  BY <1>2, Shown
<1>4. out' = [out EXCEPT ![r] = e]
  <2>1. \A q \in Request : out'[q] = IF q = r THEN e ELSE out[q]
    BY <1>1 DEF out
  <2>2. out' = [q \in Request |-> out'[q]] /\ out = [q \in Request |-> out[q]]
    BY DEF out
  <2> QED BY <2>1, <2>2
<1>5. seen' = [seen EXCEPT ![r] = FALSE]
  BY Zenon, <1>1 DEF seen
<1>6. made' = [made EXCEPT ![r] = n]
  <2>1. \A q \in Request : made'[q] = IF q = r THEN n ELSE made[q]
    BY <1>1 DEF made
  <2>2. made' = [q \in Request |-> made'[q]] /\ made = [q \in Request |-> made[q]]
    BY DEF made
  <2> QED BY <2>1, <2>2
<1> QED BY Zenon, <1>2, <1>3, <1>4, <1>5, <1>6

\* A call after which r's method goes on with call p.
LEMMA Continues ==
    ASSUME TypeOK, NEW r \in Request, pc[r] \in Calls, NEW p \in Calls,
           Goto(r, p)
    PROVE  /\ out[r] = "busy" /\ out' = out /\ UNCHANGED <<op, cid>>
           /\ seen' = [seen EXCEPT ![r] = op[r] \in {"decrypt", "wrap", "rotate"} /\ p # "getDoc"]
           /\ made' = [made EXCEPT ![r] = IF op[r] = "rotate" /\ p = "deleteDoc"
                                          THEN new[r] ELSE NoCID]
<1>1. /\ \A q \in Request : pc'[q] = IF q = r THEN p ELSE pc[q]
      /\ UNCHANGED <<op, cid, new, err>>
  BY DEF TypeOK, Goto
<1>2. pc[r] \notin {"idle", "return"} /\ p \notin {"idle", "return"}
  BY DEF Calls, Changes
<1>3. out[r] = "busy"
  BY <1>2, Shown
<1>4. out' = out
  BY <1>1, <1>2 DEF out
<1>5. seen' = [seen EXCEPT ![r] = op[r] \in {"decrypt", "wrap", "rotate"} /\ p # "getDoc"]
  BY Zenon, <1>1, <1>2 DEF seen
<1>6. made' = [made EXCEPT ![r] = IF op[r] = "rotate" /\ p = "deleteDoc" THEN new[r] ELSE NoCID]
  BY Zenon, <1>1, <1>2 DEF made
<1> QED BY Zenon, <1>1, <1>3, <1>4, <1>5, <1>6

\* The initial states are initial states of the key service.
LEMMA RefInit == Init => KS!Init
<1> SUFFICES ASSUME Init PROVE KS!Init
  OBVIOUS
<1>1. seen = [r \in Request |-> FALSE]
  BY DEF Init, seen
<1>2. made = [r \in Request |-> NoCID]
  BY DEF Init, made
<1>3. out = [r \in Request |-> "idle"]
  BY DEF Init, out
<1> QED BY <1>1, <1>2, <1>3 DEF Init, KS!Init

\* A method that fails without having changed Firestore.
LEMMA RefFail ==
    ASSUME TypeOK, NEW r \in Request, pc[r] \in Calls,
           NEW e \in {"unavailable", "mismatch", "err"}, NEW n, n = made[r],
           Finish(r, e, n), UNCHANGED <<docs, issued, doomed, erased>>
    PROVE  KS!Next
<1>1. /\ out[r] = "busy"
      /\ out' = [out EXCEPT ![r] = e]
      /\ seen' = [seen EXCEPT ![r] = FALSE]
      /\ made' = [made EXCEPT ![r] = n]
      /\ UNCHANGED <<op, cid>>
  BY Concludes
<1>2. made' = made
  BY Zenon, <1>1 DEF made
<1>3. KS!Fail(r, e)
  BY <1>1, <1>2 DEF KS!Fail, KS!Conclude, KS!LoseSome, KS!Errors
<1> QED BY <1>1, <1>3 DEF KS!Next, KS!Proceed, KS!Errors

\* kmsEncrypt goes on, which callers do not see, or fails.
LEMMA RefEncrypt ==
    ASSUME GCPInv, NEW r \in Request, kmsEncrypt(r)
    PROVE  KS!Next \/ UNCHANGED KS!vars
<1> USE DEF GCPInv
<1>1. PICK reply \in Replies :
        /\ Do(r, "kmsEncrypt", new[r], reply)
        /\ IF reply = "ok" THEN Goto(r, "createDoc") ELSE Finish(r, fmtGCPErr(reply), NoCID)
        /\ UNCHANGED <<issued, doomed, erased>>
  BY DEF kmsEncrypt
<1>2. pc[r] = "kmsEncrypt" /\ pc[r] \in Calls /\ "createDoc" \in Calls /\ docs' = docs
  BY Zenon, <1>1, ReadFacts DEF Calls, Changes, cloudVars
<1>3. made[r] = NoCID
  BY <1>2, Shown
<1>4. CASE reply = "ok"
  <2>1. /\ Goto(r, "createDoc") /\ UNCHANGED <<op, cid, new, err>>
        /\ \A q \in Request : pc'[q] = IF q = r THEN "createDoc" ELSE pc[q]
    BY <1>1, <1>4 DEF Goto, TypeOK
  <2>2. out' = out
    BY Zenon, <1>2, <2>1 DEF out
  <2>4. seen' = seen
    BY <1>2, <2>1 DEF seen
  <2>5. made' = made
    BY <1>2, <2>1 DEF made
  <2> QED BY <1>1, <1>2, <2>1, <2>2, <2>4, <2>5 DEF KS!vars
<1>5. CASE reply # "ok"
  BY <1>1, <1>2, <1>3, <1>5, RefFail, ErrFacts
<1> QED BY <1>4, <1>5

\* firestoreGetWrapped gets hold of the key, or finds it gone, or fails.
LEMMA RefGet ==
    ASSUME GCPInv, NEW r \in Request, firestoreGetWrapped(r)
    PROVE  KS!Next
<1> USE DEF GCPInv
<1>1. PICK reply \in Replies :
        /\ Do(r, "getDoc", cid[r], reply)
        /\ reply = "ok" => Goto(r, "kmsDecrypt")
        /\ reply = "missing" => Finish(r, "notfound", NoCID)
        /\ reply \notin {"ok", "missing"} => Finish(r, fmtGCPErr(reply), NoCID)
        /\ UNCHANGED <<issued, doomed, erased>>
  BY DEF firestoreGetWrapped
<1>2. /\ pc[r] = "getDoc" /\ pc[r] \in Calls /\ "kmsDecrypt" \in Calls /\ docs' = docs
      /\ reply \in Answers("getDoc", cid[r]) \/ reply \in AllFaults
  BY <1>1, ReadFacts DEF Calls, Changes, cloudVars
<1>3. /\ reply = "ok" => cid[r] \in docs
      /\ reply = "missing" => cid[r] \notin docs
  BY <1>2 DEF Answers, AllFaults
<1>4. op[r] \in {"decrypt", "wrap", "rotate"} /\ cid[r] \in issued
  BY Zenon, <1>2 DEF GCPControl
<1>5. made[r] = NoCID
  BY <1>2, Shown
<1>6. CASE reply = "ok"
  <2>1. /\ out' = out /\ out[r] = "busy" /\ UNCHANGED <<op, cid>>
        /\ seen' = [seen EXCEPT ![r] = op[r] \in {"decrypt", "wrap", "rotate"} /\ "kmsDecrypt" # "getDoc"]
        /\ made' = [made EXCEPT ![r] = NoCID]
    BY <1>1, <1>2, <1>6, Continues DEF Goto
  <2>2. seen' = [seen EXCEPT ![r] = TRUE]
    BY Zenon, <1>4, <2>1
  <2>3. made' = made
    BY Zenon, <1>5, <2>1 DEF made
  <2>4. KS!See(r)
    BY Zenon, <1>1, <1>2, <1>3, <1>4, <1>6, <2>1, <2>2, <2>3 DEF KS!See
  <2> QED BY Zenon, <2>1, <2>4 DEF KS!Next, KS!Proceed
<1>7. CASE reply = "missing"
  <2>1. /\ out[r] = "busy" /\ out' = [out EXCEPT ![r] = "notfound"] /\ UNCHANGED <<op, cid>>
        /\ seen' = [seen EXCEPT ![r] = FALSE]
        /\ made' = [made EXCEPT ![r] = NoCID]
    BY Zenon, <1>1, <1>2, <1>7, Concludes
  <2>2. made' = made
    BY Zenon, <1>5, <2>1 DEF made
  <2>3. cid[r] \in doomed
    BY <1>3, <1>4, <1>7
  <2>4. KS!NotFound(r)
    BY Zenon, <1>1, <1>2, <1>4, <2>1, <2>2, <2>3 DEF KS!NotFound, KS!Conclude
  <2> QED BY <2>1, <2>4 DEF KS!Next, KS!Proceed
<1>8. CASE reply \notin {"ok", "missing"}
  BY Zenon, <1>1, <1>2, <1>5, <1>8, RefFail, ErrFacts
<1> QED BY <1>6, <1>7, <1>8

\* kmsDecrypt serves the caller, or fails, or lets Rotate go on unseen.
LEMMA RefDecrypt ==
    ASSUME GCPInv, NEW r \in Request, kmsDecrypt(r)
    PROVE  KS!Next \/ UNCHANGED KS!vars
<1> USE DEF GCPInv
<1>1. PICK reply \in Replies :
        /\ Do(r, "kmsDecrypt", cid[r], reply)
        /\ \/ Finish(r, fmtGCPErr(reply), NoCID)
           \/ op[r] = "rotate" /\ Goto(r, "kmsEncrypt")
           \/ op[r] # "rotate" /\ Finish(r, "nil", NoCID)
           \/ \E e \in {"mismatch", "err"} : Finish(r, e, NoCID)
        /\ UNCHANGED <<issued, doomed, erased>>
  BY Zenon DEF kmsDecrypt
<1>2. pc[r] = "kmsDecrypt" /\ pc[r] \in Calls /\ docs' = docs
  BY Zenon, <1>1, ReadFacts DEF Calls, Changes, cloudVars
<1>3. made[r] = NoCID
  BY <1>2, Shown
<1>4. op[r] \in {"decrypt", "wrap", "rotate"}
  BY Zenon, <1>2 DEF GCPControl
<1>5. CASE op[r] = "rotate" /\ Goto(r, "kmsEncrypt")
  <2>1. /\ UNCHANGED <<op, cid, new, err>>
        /\ \A q \in Request : pc'[q] = IF q = r THEN "kmsEncrypt" ELSE pc[q]
    BY <1>5 DEF Goto, TypeOK
  <2>2. out' = out
    BY Zenon, <1>2, <2>1 DEF out
  <2>3. seen' = seen
    BY <1>2, <2>1 DEF seen
  <2>4. made' = made
    BY Zenon, <1>2, <2>1 DEF made
  <2> QED BY Zenon, <1>1, <1>2, <2>1, <2>2, <2>3, <2>4 DEF KS!vars
<1>6. CASE op[r] # "rotate" /\ Finish(r, "nil", NoCID)
  <2>1. /\ out[r] = "busy" /\ out' = [out EXCEPT ![r] = "nil"] /\ UNCHANGED <<op, cid>>
        /\ seen' = [seen EXCEPT ![r] = FALSE]
        /\ made' = [made EXCEPT ![r] = NoCID]
    BY Zenon, <1>2, <1>6, Concludes
  <2>2. made' = made
    BY Zenon, <1>3, <2>1 DEF made
  <2>3. seen[r]
    BY <1>2, <1>4 DEF seen
  <2>4. KS!Serve(r)
    BY Zenon, <1>1, <1>2, <1>4, <1>6, <2>1, <2>2, <2>3 DEF KS!Serve, KS!Conclude
  <2> QED BY <2>1, <2>4 DEF KS!Next, KS!Proceed
<1>7. CASE \E e \in {"unavailable", "mismatch", "err"} : Finish(r, e, NoCID)
  BY Zenon, <1>1, <1>2, <1>3, <1>7, RefFail
<1> QED BY Zenon, <1>1, <1>5, <1>6, <1>7, ErrFacts

\* firestoreCreateWrapped makes the artifact, or fails.
LEMMA RefCreate ==
    ASSUME GCPInv, NEW r \in Request, firestoreCreateWrapped(r)
    PROVE  KS!Next
<1> USE DEF GCPInv
<1>1. PICK reply \in Replies :
        /\ Do(r, "createDoc", new[r], reply)
        /\ IF reply # "ok"
           THEN Finish(r, fmtGCPErr(reply), NoCID) /\ UNCHANGED doomed
           ELSE IF op[r] = "rotate"
           THEN Goto(r, "deleteDoc") /\ doomed' = doomed \cup {cid[r]}
           ELSE Finish(r, "nil", new[r]) /\ UNCHANGED doomed
        /\ UNCHANGED <<issued, erased>>
  BY Zenon DEF firestoreCreateWrapped
<1>2. /\ pc[r] = "createDoc" /\ pc[r] \in Calls /\ "deleteDoc" \in Calls
      /\ reply = "ok" => docs' = docs \cup {new[r]}
      /\ reply # "ok" => docs' = docs
  BY <1>1, DoFacts DEF Calls, Changes, Effect
<1>3. made[r] = NoCID
  BY Zenon, <1>2, Shown
<1>4. /\ op[r] \in {"generate", "rotate"}
      /\ new[r] # NoCID /\ new[r] \in CID /\ new[r] \notin issued
      /\ \A q \in Request \ {r} : new[q] # new[r]
  BY Zenon, <1>2 DEF GCPControl, GCPFresh, TypeOK
<1>5. PICK n \in CID : n = new[r]
  BY Zenon, <1>4
<1>6. KS!Unclaimed(n)
  <2>1. ASSUME NEW q \in Request PROVE made[q] # n
    <3>1. CASE q = r
      BY <1>3, <1>4, <1>5, <3>1
    <3>2. CASE q # r
      BY <1>4, <1>5, <3>2, Shown
    <3> QED BY <3>1, <3>2
  <2> QED BY <1>4, <1>5, <2>1 DEF KS!Unclaimed
<1>7. CASE reply = "ok" /\ op[r] = "rotate"
  <2>1. /\ Goto(r, "deleteDoc") /\ doomed' = doomed \cup {cid[r]}
        /\ UNCHANGED <<op, cid, new, err>>
        /\ \A q \in Request : pc'[q] = IF q = r THEN "deleteDoc" ELSE pc[q]
    BY Zenon, <1>1, <1>7 DEF Goto, TypeOK
  <2>2. out' = out /\ out[r] = "busy"
    BY Zenon, <1>2, <2>1 DEF out
  <2>3. seen' = seen
    BY Zenon, <1>2, <2>1 DEF seen
  <2>4. seen[r]
    BY Zenon, <1>2, <1>7 DEF seen
  <2>5. made' = [made EXCEPT ![r] = n]
    BY Zenon, <1>5, <1>7, <2>1 DEF made
  <2>6. KS!Renew(r, n)
    BY Zenon, <1>1, <1>2, <1>3, <1>5, <1>6, <1>7, <2>1, <2>2, <2>3, <2>4, <2>5 DEF KS!Renew
  <2> QED BY <2>2, <2>6 DEF KS!Next, KS!Proceed
<1>8. CASE reply = "ok" /\ op[r] = "generate"
  <2>1. Finish(r, "nil", n) /\ doomed' = doomed
    BY Zenon, <1>1, <1>5, <1>8
  <2>2. /\ out[r] = "busy" /\ out' = [out EXCEPT ![r] = "nil"] /\ UNCHANGED <<op, cid>>
        /\ seen' = [seen EXCEPT ![r] = FALSE]
        /\ made' = [made EXCEPT ![r] = n]
    BY Zenon, <1>2, <2>1, Concludes
  <2>3. KS!Generate(r, n)
    BY Zenon, <1>1, <1>2, <1>5, <1>6, <1>8, <2>1, <2>2 DEF KS!Generate, KS!Conclude
  <2> QED BY <2>2, <2>3 DEF KS!Next, KS!Proceed
<1>9. CASE reply # "ok"
  BY Zenon, <1>1, <1>2, <1>3, <1>9, RefFail, ErrFacts
<1> QED BY Zenon, <1>4, <1>7, <1>8, <1>9

\* firestoreDeleteWrapped ends with the key gone, or fails.
LEMMA RefDelete ==
    ASSUME GCPInv, NEW r \in Request, firestoreDeleteWrapped(r)
    PROVE  KS!Next
<1> USE DEF GCPInv
<1>1. PICK reply \in Replies :
        /\ Do(r, "deleteDoc", cid[r], reply)
        /\ IF reply \in {"ok", "missing"}
           THEN Finish(r, "nil", new[r])
           ELSE Finish(r, fmtGCPErr(reply), new[r])
        /\ UNCHANGED <<issued, doomed, erased>>
  BY DEF firestoreDeleteWrapped
<1>2. /\ pc[r] = "deleteDoc" /\ pc[r] \in Calls
      /\ reply \in Answers("deleteDoc", cid[r]) \/ reply \in AllFaults
      /\ reply = "ok" => docs' = docs \ {cid[r]}
      /\ reply # "ok" => docs' = docs
  BY <1>1, DoFacts DEF Calls, Changes, Effect
<1>3. reply = "missing" => cid[r] \notin docs
  BY <1>2 DEF Answers, AllFaults
<1>4. op[r] \in {"delete", "rotate"} /\ (new[r] # NoCID <=> op[r] = "rotate")
  BY <1>2 DEF GCPControl
<1>5. made[r] = new[r]
  BY <1>2, <1>4, Shown
<1>6. PICK n : n = new[r]
  OBVIOUS
<1>7. CASE reply \in {"ok", "missing"}
  <2>1. Finish(r, "nil", n) /\ docs' = docs \ {cid[r]}
    BY <1>1, <1>2, <1>3, <1>6, <1>7
  <2>2. /\ out[r] = "busy" /\ out' = [out EXCEPT ![r] = "nil"] /\ UNCHANGED <<op, cid>>
        /\ seen' = [seen EXCEPT ![r] = FALSE]
        /\ made' = [made EXCEPT ![r] = n]
    BY Zenon, <1>2, <2>1, Concludes
  <2>3. made' = made
    BY Zenon, <1>5, <1>6, <2>2 DEF made
  <2>4. KS!Erase(r)
    BY Zenon, <1>1, <1>4, <1>5, <2>1, <2>2, <2>3 DEF KS!Erase, KS!Conclude
  <2> QED BY <2>2, <2>4 DEF KS!Next, KS!Proceed
<1>8. CASE reply \notin {"ok", "missing"}
  BY <1>1, <1>2, <1>5, <1>6, <1>8, RefFail, ErrFacts
<1> QED BY <1>7, <1>8

\* A call begins, in the key service too.
LEMMA RefCall ==
    ASSUME GCPInv, NEW r \in Request, Call(r)
    PROVE  KS!Next
<1> USE DEF GCPInv
<1>1. PICK o \in Methods, c \in issued \cup {NoCID}, n \in (CID \ used) \cup {NoCID},
           p \in {"kmsEncrypt", "deleteDoc", "getDoc"} :
        /\ (c = NoCID) <=> (o = "generate")
        /\ p = "kmsEncrypt" <=> o = "generate"
        /\ p = "deleteDoc" <=> o = "delete"
        /\ pc' = [pc EXCEPT ![r] = p]
        /\ op' = [op EXCEPT ![r] = o]
        /\ cid' = [cid EXCEPT ![r] = c]
        /\ new' = [new EXCEPT ![r] = n]
        /\ doomed' = doomed \cup {d \in {c} : o = "delete"}
  BY Zenon DEF Call
<1>2. pc[r] = "idle" /\ UNCHANGED <<docs, err, issued, erased>>
  BY DEF Call, cloudVars
<1>3. \A q \in Request : /\ pc'[q] = IF q = r THEN p ELSE pc[q]
                         /\ op'[q] = IF q = r THEN o ELSE op[q]
                         /\ new'[q] = IF q = r THEN n ELSE new[q]
  BY <1>1 DEF TypeOK
<1>4. out[r] = "idle"
  BY <1>2, Shown
<1>5. out' = [out EXCEPT ![r] = "busy"]
  BY Zenon, <1>2, <1>3 DEF out
<1>6. seen' = seen
  BY <1>1, <1>2, <1>3 DEF seen
<1>7. made' = made
  BY <1>1, <1>2, <1>3 DEF made
<1>8. doomed' = IF o = "delete" THEN doomed \cup {c} ELSE doomed
  BY <1>1
<1>9. KS!Begin(r, o, c)
  BY Zenon, <1>1, <1>2, <1>5, <1>6, <1>7, <1>8 DEF KS!Begin
<1> QED BY <1>4, <1>9 DEF KS!Next, KS!Enter, KS!Methods, Methods

\* A call is declined.
LEMMA RefReject ==
    ASSUME GCPInv, NEW r \in Request, Reject(r)
    PROVE  KS!Next
<1> USE DEF GCPInv
<1>1. PICK o \in {"generate", "wrap"} : op' = [op EXCEPT ![r] = o]
  BY Zenon DEF Reject
<1>2. /\ pc[r] = "idle" /\ pc' = [pc EXCEPT ![r] = "return"] /\ err' = [err EXCEPT ![r] = "err"]
      /\ UNCHANGED <<docs, cid, new, issued, doomed, erased>>
  BY DEF Reject, cloudVars
<1>3. \A q \in Request : /\ pc'[q] = IF q = r THEN "return" ELSE pc[q]
                         /\ op'[q] = IF q = r THEN o ELSE op[q]
                         /\ err'[q] = IF q = r THEN "err" ELSE err[q]
  BY <1>1, <1>2 DEF TypeOK
<1>4. out[r] = "idle" /\ new[r] = NoCID
  BY Zenon, <1>2, Shown DEF GCPControl
<1>5. out' = [out EXCEPT ![r] = "err"]
  BY Zenon, <1>3 DEF out
<1>6. seen' = seen
  BY SMTT(20), <1>2, <1>3 DEF seen
<1>7. made' = made
  BY <1>2, <1>3, <1>4 DEF made
<1>8. KS!Decline(r, o)
  BY SMTT(20), <1>1, <1>2, <1>5, <1>6, <1>7 DEF KS!Decline
<1> QED BY <1>4, <1>8 DEF KS!Next, KS!Enter

\* Requests leave the key service with the methods they were in.
LEMMA RefLeave ==
    ASSUME TypeOK, NEW rs \in SUBSET Request, Leave(rs)
    PROVE  KS!Leave(rs)
<1>1. /\ op' = [r \in Request |-> IF r \in rs THEN "decrypt" ELSE op[r]]
      /\ cid' = [r \in Request |-> IF r \in rs THEN NoCID ELSE cid[r]]
      /\ pc' = [r \in Request |-> IF r \in rs THEN "idle" ELSE pc[r]]
      /\ new' = [r \in Request |-> IF r \in rs THEN NoCID ELSE new[r]]
      /\ err' = [r \in Request |-> IF r \in rs THEN "nil" ELSE err[r]]
  BY DEF Leave
<1>2. seen' = [r \in Request |-> IF r \in rs THEN FALSE ELSE seen[r]]
  BY <1>1 DEF seen
<1>3. made' = [r \in Request |-> IF r \in rs THEN NoCID ELSE made[r]]
  BY <1>1 DEF made
<1>4. out' = [r \in Request |-> IF r \in rs THEN "idle" ELSE out[r]]
  BY <1>1 DEF out
<1> QED BY <1>1, <1>2, <1>3, <1>4 DEF KS!Leave

\* A result is taken.
LEMMA RefReturn ==
    ASSUME GCPInv, NEW r \in Request, Return(r)
    PROVE  KS!Next
<1> USE DEF GCPInv
<1>1. /\ pc[r] = "return" /\ Leave({r})
      /\ issued' = issued \cup ({new[r]} \ {NoCID})
      /\ erased' = erased \cup
           {c \in {cid[r]} : op[r] \in {"delete", "rotate"} /\ err[r] = "nil"}
      /\ UNCHANGED <<docs, doomed>>
  BY DEF Return, cloudVars
<1>2. made[r] = new[r] /\ out[r] = err[r] /\ out[r] \in KS!Errors
  BY Zenon, <1>1, Shown DEF TypeOK, Errors, KS!Errors
<1>3. KS!Leave({r})
  BY Zenon, <1>1, RefLeave
<1>4. KS!Return(r)
  BY <1>1, <1>2, <1>3 DEF KS!Return
<1> QED BY <1>4 DEF KS!Next

\* A lost write makes a key nobody returns, a lost deletion gives one up.
LEMMA RefLate ==
    ASSUME GCPInv, NEW l \in late, ApplyLate(l)
    PROVE  KS!Next
<1> USE DEF GCPInv
<1>1. UNCHANGED <<pc, op, cid, new, err, issued, doomed, erased>>
  BY DEF ApplyLate, callVars, histVars
<1>2. seen' = seen
  BY <1>1 DEF seen
<1>3. made' = made
  BY <1>1 DEF made
<1>4. out' = out
  BY <1>1 DEF out
<1>5. CASE docs' \subseteq docs /\ docs \ docs' \subseteq doomed
  <2>1. KS!LoseSome
    BY <1>5 DEF KS!LoseSome, KS!Expendable, TypeOK
  <2>2. KS!Forget
    BY <1>1, <1>2, <1>3, <1>4, <2>1 DEF KS!Forget
  <2> QED BY <2>2 DEF KS!Next
<1>6. CASE l.call = "createDoc" /\ docs' = docs \cup {l.cid}
  <2>1. l.cid \notin issued /\ \A r \in Request : new[r] # l.cid
    BY <1>6 DEF GCPLate
  <2>2. l.cid \in CID /\ l.cid # NoCID
    BY LateFacts, GCPAssumption
  <2>3. \A r \in Request : made[r] # l.cid
    BY <2>1, <2>2, Shown
  <2>4. KS!Stray(l.cid)
    BY <1>1, <1>2, <1>3, <1>4, <1>6, <2>1, <2>3 DEF KS!Stray, KS!Unclaimed
  <2> QED BY <2>2, <2>4 DEF KS!Next
<1>7. l.call = "deleteDoc" => l.cid \in doomed
  BY DEF GCPLate
<1> QED BY <1>5, <1>6, <1>7, LateFacts

\* The calls in a process that dies are abandoned.
LEMMA RefCrash ==
    ASSUME GCPInv, Crash
    PROVE  KS!Next
<1>1. Leave(Request) /\ UNCHANGED <<docs, issued, doomed, erased>>
  BY DEF Crash
<1>2. KS!Leave(Request)
  BY <1>1, RefLeave DEF GCPInv
<1>3. KS!Abandon(Request)
  BY <1>1, <1>2 DEF KS!Abandon
<1> QED BY <1>3 DEF KS!Next

\* Every step is a step of the key service, or one its callers do not see.
LEMMA RefStep ==
    ASSUME GCPInv, [Next]_vars
    PROVE  [KS!Next]_KS!vars
<1>1. CASE Next
  BY <1>1, RefEncrypt, RefGet, RefDecrypt, RefCreate, RefDelete, RefCall, RefReject, RefReturn,
     RefLate, RefCrash DEF Next, Step
<1>2. CASE UNCHANGED vars
  <2>1. seen' = seen
    BY <1>2 DEF vars, callVars, seen
  <2>2. made' = made
    BY <1>2 DEF vars, callVars, made
  <2>3. out' = out
    BY <1>2 DEF vars, callVars, out
  <2> QED BY <1>2, <2>1, <2>2, <2>3 DEF vars, cloudVars, callVars, histVars, KS!vars
<1> QED BY <1>1, <1>2

\* The Cloud KMS service is a key service, for any number of callers,
\* artifacts and lost calls: whatever its calls, lost replies and crashes do
\* between them, callers see what artifact.ArtifactKeyService promises.
THEOREM GCPKMSImplementsKeyService == Spec => ImplementsKeyService
<1> USE DEF ImplementsKeyService
<1> QED BY GCPInvariant, RefInit, RefStep, PTL DEF Spec, KS!Spec

\* The key service again, with the theorems proved about it.
KSP == INSTANCE KeyServiceProofs WITH
    usable <- docs, seen <- seen, made <- made, out <- out

\* The two instances of the contract are one.
LEMMA SameService == KS!Spec => KSP!Spec
<1>1. KS!Init <=> KSP!Init
  BY DEF KS!Init, KSP!Init
<1>2. KS!Next <=> KSP!Next
  BY Zenon DEF KS!Next, KS!Enter, KS!Begin, KS!Decline, KS!Proceed, KS!See, KS!Serve, KS!Erase,
         KS!NotFound, KS!Renew, KS!Generate, KS!Fail, KS!Conclude, KS!LoseSome, KS!Expendable,
         KS!Unclaimed, KS!Return, KS!Stray, KS!Forget, KS!Abandon, KS!Leave, KS!Methods, KS!Errors,
         KSP!Next, KSP!Enter, KSP!Begin, KSP!Decline, KSP!Proceed, KSP!See, KSP!Serve, KSP!Erase,
         KSP!NotFound, KSP!Renew, KSP!Generate, KSP!Fail, KSP!Conclude, KSP!LoseSome,
         KSP!Expendable, KSP!Unclaimed, KSP!Return, KSP!Stray, KSP!Forget, KSP!Abandon, KSP!Leave,
         KSP!Methods, KSP!Errors
<1>3. [KS!Next]_KS!vars <=> [KSP!Next]_KSP!vars
  BY <1>2 DEF KS!vars, KSP!vars
<1> QED BY <1>1, <1>3, PTL DEF KS!Spec, KSP!Spec

\* What the contract gives, for Cloud KMS: an artifact's document lasts until
\* somebody begins to delete it, never comes back once its deletion was
\* reported, ErrKeyNotFound is honest and no two callers get one artifact.
THEOREM GCPKMSKeepsPromises ==
    Spec => [](KS!KeysLast /\ KS!ErasureLasts /\ KS!NotFoundIsHonest /\ KS!ResultsAreFresh)
<1>1. KSP!Spec => [](KSP!KeysLast /\ KSP!ErasureLasts /\ KSP!NotFoundIsHonest
                     /\ KSP!ResultsAreFresh)
  BY KSP!ServicePromises
<1>2. KSP!KeysLast /\ KSP!ErasureLasts /\ KSP!NotFoundIsHonest /\ KSP!ResultsAreFresh
      => KS!KeysLast /\ KS!ErasureLasts /\ KS!NotFoundIsHonest /\ KS!ResultsAreFresh
  BY Zenon DEF KS!KeysLast, KS!ErasureLasts, KS!NotFoundIsHonest, KS!ResultsAreFresh,
         KSP!KeysLast, KSP!ErasureLasts, KSP!NotFoundIsHonest, KSP!ResultsAreFresh
<1> QED BY <1>1, <1>2, SameService, GCPKMSImplementsKeyService, PTL DEF ImplementsKeyService
=============================================================================
