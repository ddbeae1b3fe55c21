-------------------------- MODULE KeyServiceProofs --------------------------
(***************************************************************************)
(* What callers may rely on follows from the contract, for any number of   *)
(* callers and artifacts.  Every implementation inherits it.               *)
(***************************************************************************)
EXTENDS KeyService, TLAPS

\* The invariant.  Only what was issued is ever deleted, a method in progress
\* works on something that was issued, and a deletion that is complete but not
\* yet reported has removed its key.
ServiceInv ==
    /\ TypeOK
    /\ KeysLast
    /\ ErasureLasts
    /\ ResultsAreFresh
    /\ NotFoundIsHonest
    /\ doomed \subseteq issued
    /\ erased \subseteq doomed
    /\ \A r \in Request :
          /\ out[r] = "busy" /\ op[r] # "generate" => cid[r] \in issued
          /\ out[r] = "idle" => cid[r] = NoCID /\ made[r] = NoCID
          /\ out[r] \in {"busy", "nil"} /\ op[r] = "delete" => cid[r] \in doomed
          /\ out[r] \in {"busy", "nil"} /\ op[r] = "rotate" /\ made[r] # NoCID => cid[r] \in doomed
          /\ out[r] = "nil" /\ op[r] = "rotate" => made[r] # NoCID
          /\ out[r] = "nil" /\ op[r] \in {"delete", "rotate"} => cid[r] \notin usable
          /\ op[r] = "delete" => made[r] = NoCID

\* The invariant holds initially.
LEMMA ServiceInit == Init => ServiceInv
BY DEF Init, ServiceInv, TypeOK, KeysLast, ErasureLasts, ResultsAreFresh, NotFoundIsHonest,
       Methods, Errors

\* A step that only takes keys away, and only such that may be given up.
LEMMA LoseSomeKeeps ==
    ASSUME ServiceInv, LoseSome, UNCHANGED <<issued, doomed, erased, op, cid, made>>,
           seen' \in [Request -> BOOLEAN],
           out' \in [Request -> Errors \cup {"idle", "busy"}],
           \A r \in Request : out'[r] = out[r] \/ out'[r] \in Errors \ {"nil", "notfound"}
    PROVE  ServiceInv'
<1> USE DEF ServiceInv
<1>1. TypeOK'
  BY DEF TypeOK, LoseSome
<1>2. KeysLast' /\ ErasureLasts'
  BY DEF KeysLast, ErasureLasts, LoseSome, Expendable, Unclaimed
<1>3. ResultsAreFresh'
  BY DEF ResultsAreFresh, LoseSome, Expendable, Unclaimed
<1>4. NotFoundIsHonest'
  BY DEF NotFoundIsHonest, Errors
<1> QED BY <1>1, <1>2, <1>3, <1>4 DEF LoseSome, Errors

\* Callers that leave take their calls with them.
LEMMA LeaveKeeps ==
    ASSUME ServiceInv, NEW rs \in SUBSET Request, Leave(rs), UNCHANGED usable,
           issued \subseteq issued', doomed' = doomed,
           issued' \ issued \subseteq usable, issued' \subseteq CID,
           \A r \in Request \ rs : made[r] # NoCID => made[r] \notin issued',
           erased' \subseteq doomed, erased' \cap usable = {}
    PROVE  ServiceInv'
<1> USE DEF ServiceInv
<1>1. TypeOK'
  BY DEF TypeOK, Leave, Methods, Errors
<1>2. \A r \in Request :
        /\ op'[r] = IF r \in rs THEN "decrypt" ELSE op[r]
        /\ cid'[r] = IF r \in rs THEN NoCID ELSE cid[r]
        /\ made'[r] = IF r \in rs THEN NoCID ELSE made[r]
        /\ out'[r] = IF r \in rs THEN "idle" ELSE out[r]
  BY DEF Leave
<1>3. KeysLast' /\ ErasureLasts'
  BY DEF KeysLast, ErasureLasts
<1>4. ResultsAreFresh'
  BY <1>2 DEF ResultsAreFresh
<1>5. NotFoundIsHonest'
  BY <1>2 DEF NotFoundIsHonest
<1> QED BY <1>1, <1>2, <1>3, <1>4, <1>5

\* Every step of the contract keeps the invariant.
LEMMA ServiceStep == ServiceInv /\ [Next]_vars => ServiceInv'
<1> SUFFICES ASSUME ServiceInv, [Next]_vars PROVE ServiceInv'
  OBVIOUS
<1> USE DEF ServiceInv
<1>1. ASSUME NEW r \in Request, out[r] = "idle",
             NEW o \in Methods, NEW c \in issued \cup {NoCID}, Begin(r, o, c)
      PROVE  ServiceInv'
  <2>1. TypeOK'
    BY <1>1 DEF TypeOK, Begin, Errors
  <2>2. \A q \in Request : /\ out'[q] = IF q = r THEN "busy" ELSE out[q]
                           /\ op'[q] = IF q = r THEN o ELSE op[q]
                           /\ cid'[q] = IF q = r THEN c ELSE cid[q]
    BY <1>1 DEF TypeOK, Begin
  <2>3. KeysLast' /\ ErasureLasts' /\ doomed \subseteq doomed' /\ doomed' \subseteq issued'
    BY <1>1 DEF KeysLast, ErasureLasts, Begin
  <2>4. ResultsAreFresh' /\ NotFoundIsHonest'
    BY <1>1, <2>2, <2>3 DEF ResultsAreFresh, NotFoundIsHonest, Begin
  <2>5. o = "delete" => c \in doomed'
    BY <1>1 DEF Begin
  <2> QED BY <1>1, <2>1, <2>2, <2>3, <2>4, <2>5 DEF Begin
<1>2. ASSUME NEW r \in Request, out[r] = "idle", NEW o \in {"generate", "wrap"}, Decline(r, o)
      PROVE  ServiceInv'
  <2>1. TypeOK'
    BY <1>2 DEF TypeOK, Decline, Errors, Methods
  <2>2. \A q \in Request : /\ out'[q] = IF q = r THEN "err" ELSE out[q]
                           /\ op'[q] = IF q = r THEN o ELSE op[q]
    BY <1>2 DEF TypeOK, Decline
  <2>3. KeysLast' /\ ErasureLasts' /\ ResultsAreFresh' /\ NotFoundIsHonest'
    BY <1>2, <2>2 DEF KeysLast, ErasureLasts, ResultsAreFresh, NotFoundIsHonest, Decline
  <2> QED BY <1>2, <2>1, <2>2, <2>3 DEF Decline
<1>3. ASSUME NEW r \in Request, See(r) PROVE ServiceInv'
  <2>1. LoseSome
    BY <1>3 DEF See, LoseSome
  <2>2. seen' \in [Request -> BOOLEAN]
    BY <1>3 DEF See, TypeOK
  <2> QED BY <1>3, <2>1, <2>2, LoseSomeKeeps DEF See, TypeOK
<1>4. ASSUME NEW r \in Request, out[r] = "busy", Serve(r) PROVE ServiceInv'
  <2>1. TypeOK'
    BY <1>4 DEF TypeOK, Serve, Conclude, Errors
  <2>2. \A q \in Request : out'[q] = IF q = r THEN "nil" ELSE out[q]
    BY <1>4 DEF TypeOK, Serve, Conclude
  <2>3. KeysLast' /\ ErasureLasts' /\ ResultsAreFresh' /\ NotFoundIsHonest'
    BY <1>4, <2>2 DEF KeysLast, ErasureLasts, ResultsAreFresh, NotFoundIsHonest, Serve, Conclude
  <2> QED BY <1>4, <2>1, <2>2, <2>3 DEF Serve, Conclude
<1>5. ASSUME NEW r \in Request, out[r] = "busy", Erase(r) PROVE ServiceInv'
  <2>1. TypeOK'
    BY <1>5 DEF TypeOK, Erase, Conclude, Errors
  <2>2. \A q \in Request : out'[q] = IF q = r THEN "nil" ELSE out[q]
    BY <1>5 DEF TypeOK, Erase, Conclude
  <2>3. cid[r] \in doomed /\ (op[r] = "rotate" => made[r] # NoCID)
    BY <1>5 DEF Erase
  <2>4. KeysLast' /\ ErasureLasts'
    BY <1>5, <2>3 DEF KeysLast, ErasureLasts, Erase, Conclude
  <2>5. ResultsAreFresh' /\ NotFoundIsHonest'
    BY <1>5, <2>2, <2>3 DEF ResultsAreFresh, NotFoundIsHonest, Erase, Conclude
  <2> QED BY <1>5, <2>1, <2>2, <2>3, <2>4, <2>5 DEF Erase, Conclude
<1>6. ASSUME NEW r \in Request, out[r] = "busy", NotFound(r) PROVE ServiceInv'
  <2>1. TypeOK'
    BY <1>6 DEF TypeOK, NotFound, Conclude, Errors
  <2>2. \A q \in Request : out'[q] = IF q = r THEN "notfound" ELSE out[q]
    BY <1>6 DEF TypeOK, NotFound, Conclude
  <2>3. KeysLast' /\ ErasureLasts' /\ ResultsAreFresh' /\ NotFoundIsHonest'
    BY <1>6, <2>2 DEF KeysLast, ErasureLasts, ResultsAreFresh, NotFoundIsHonest, NotFound, Conclude
  <2> QED BY <1>6, <2>1, <2>2, <2>3 DEF NotFound, Conclude
<1>7. ASSUME NEW r \in Request, out[r] = "busy", NEW n \in CID, Renew(r, n) PROVE ServiceInv'
  <2>1. TypeOK'
    BY <1>7 DEF TypeOK, Renew
  <2>2. \A q \in Request : made'[q] = IF q = r THEN n ELSE made[q]
    BY <1>7 DEF TypeOK, Renew
  <2>3. n \notin issued /\ (\A q \in Request : made[q] # n) /\ cid[r] \in issued
    BY <1>7 DEF Renew, Unclaimed
  <2>4. KeysLast' /\ ErasureLasts'
    BY <1>7, <2>3 DEF KeysLast, ErasureLasts, Renew
  <2>5. ResultsAreFresh' /\ NotFoundIsHonest'
    BY <1>7, <2>2, <2>3 DEF ResultsAreFresh, NotFoundIsHonest, Renew
  <2> QED BY <1>7, <2>1, <2>2, <2>3, <2>4, <2>5 DEF Renew
<1>8. ASSUME NEW r \in Request, out[r] = "busy", NEW n \in CID, Generate(r, n) PROVE ServiceInv'
  <2>1. TypeOK'
    BY <1>8 DEF TypeOK, Generate, Conclude, Errors
  <2>2. \A q \in Request : /\ made'[q] = IF q = r THEN n ELSE made[q]
                           /\ out'[q] = IF q = r THEN "nil" ELSE out[q]
    BY <1>8 DEF TypeOK, Generate, Conclude
  <2>3. n \notin issued /\ \A q \in Request : made[q] # n
    BY <1>8 DEF Generate, Unclaimed
  <2>4. KeysLast' /\ ErasureLasts'
    BY <1>8, <2>3 DEF KeysLast, ErasureLasts, Generate, Conclude
  <2>5. ResultsAreFresh' /\ NotFoundIsHonest'
    BY <1>8, <2>2, <2>3 DEF ResultsAreFresh, NotFoundIsHonest, Generate, Conclude
  <2> QED BY <1>8, <2>1, <2>2, <2>3, <2>4, <2>5 DEF Generate, Conclude
<1>9. ASSUME NEW r \in Request, NEW e \in Errors, Fail(r, e) PROVE ServiceInv'
  <2>1. /\ seen' \in [Request -> BOOLEAN]
        /\ out' \in [Request -> Errors \cup {"idle", "busy"}]
        /\ \A q \in Request : out'[q] = out[q] \/ out'[q] \in Errors \ {"nil", "notfound"}
    BY <1>9 DEF Fail, Conclude, TypeOK
  <2> QED BY <1>9, <2>1, LoseSomeKeeps DEF Fail, Conclude
<1>10. ASSUME NEW r \in Request, Return(r) PROVE ServiceInv'
  <2>1. erased' \subseteq doomed /\ erased' \cap usable = {}
    BY <1>10 DEF Return, ErasureLasts
  <2>2. issued' \ issued \subseteq usable /\ issued' \subseteq CID
    BY <1>10 DEF Return, ResultsAreFresh, TypeOK
  <2>3. \A q \in Request \ {r} : made[q] # NoCID => made[q] \notin issued'
    BY <1>10 DEF Return, ResultsAreFresh
  <2> QED BY <1>10, <2>1, <2>2, <2>3, LeaveKeeps DEF Return
<1>11. ASSUME NEW rs \in SUBSET Request, Abandon(rs) PROVE ServiceInv'
  <2>1. \A q \in Request \ rs : made[q] # NoCID => made[q] \notin issued'
    BY <1>11 DEF Abandon, ResultsAreFresh
  <2> QED BY <1>11, <2>1, LeaveKeeps DEF Abandon, ErasureLasts, TypeOK
<1>12. ASSUME NEW c \in CID, Stray(c) PROVE ServiceInv'
  <2>1. TypeOK'
    BY <1>12 DEF Stray, TypeOK
  <2>2. c \notin issued
    BY <1>12 DEF Stray, Unclaimed
  <2>3. KeysLast' /\ ErasureLasts' /\ ResultsAreFresh' /\ NotFoundIsHonest'
    BY <1>12, <2>2 DEF KeysLast, ErasureLasts, ResultsAreFresh, NotFoundIsHonest, Stray
  <2> QED BY <1>12, <2>1, <2>2, <2>3 DEF Stray
<1>13. CASE Forget
  BY <1>13, LoseSomeKeeps DEF Forget, TypeOK
<1>14. CASE UNCHANGED vars
  BY <1>14, LoseSomeKeeps DEF vars, TypeOK, LoseSome
<1> QED
  BY <1>1, <1>2, <1>3, <1>4, <1>5, <1>6, <1>7, <1>8, <1>9, <1>10, <1>11, <1>12, <1>13, <1>14
  DEF Next, Enter, Proceed

\* The contract of a key service gives its callers all four promises: keys
\* last, erasure lasts, ErrKeyNotFound is honest and results are fresh.
THEOREM ServicePromises ==
    Spec => [](KeysLast /\ ErasureLasts /\ NotFoundIsHonest /\ ResultsAreFresh)
<1>1. ServiceInv => KeysLast /\ ErasureLasts /\ NotFoundIsHonest /\ ResultsAreFresh
  BY DEF ServiceInv
<1> QED BY <1>1, ServiceInit, ServiceStep, PTL DEF Spec
=============================================================================
