---------------------------- MODULE PKCS11Proofs ----------------------------
(***************************************************************************)
(* PKCS11 keeps track of its sessions and objects and implements           *)
(* KeyService, for any number of processes, goroutines, artifacts and      *)
(* sessions.                                                               *)
(***************************************************************************)
EXTENDS PKCS11, TLAPS

\* Where a goroutine holds its service's mutex.
Holding == InSession \cup {"open", "reopen"}

\* The mutex is held by the one goroutine of the process that is inside.
MutexHeld ==
    /\ \A r \in Request : pc[r] \in Holding <=> mu[Home[r]] = r
    /\ \A p \in Process : mu[p] # Nobody => Home[mu[p]] = p

\* Whether a goroutine of p has a session.
Busy(p) == mu[p] # Nobody /\ pc[mu[p]] \in InSession

\* A process has the sessions that were left behind and that of the goroutine
\* at work.  It is logged in on account of one or the other.
SessionsCounted(p) ==
    /\ opened[p] = leaked[p] + (IF Busy(p) THEN 1 ELSE 0)
    /\ login[p] => \/ leaked[p] > 0
                   \/ Busy(p) /\ pc[mu[p]] \in Work \cup {"drop", "close"}

\* A goroutine that works, or is about to without a login of its own, is
\* logged in.
LoggedIn(r) == pc[r] \in Work \cup {"retry", "reopen"} => login[Home[r]]

\* Where a goroutine is in its method, and what it has in hand there.
PControl(r) ==
    /\ pc[r] = "idle" => cid[r] = NoCID /\ new[r] = NoCID /\ stage[r] = "read"
                         /\ op[r] = "decrypt"
    /\ stage[r] = "read" => op[r] \in {"decrypt", "wrap", "rotate"}
    /\ stage[r] = "gen" => op[r] \in {"generate", "rotate"}
    /\ stage[r] = "del" => op[r] \in {"delete", "rotate"} /\ cid[r] \in doomed
    /\ pc[r] \in {"generate", "encrypt", "label", "undo"} => stage[r] = "gen"
    /\ pc[r] = "find" => stage[r] # "gen"
    /\ pc[r] \in {"attrs", "gcm"} => stage[r] = "read"
    /\ pc[r] = "gcm" => op[r] # "wrap"
    /\ pc[r] = "destroy" => stage[r] = "del"
    /\ pc[r] \notin {"close", "return"} => err[r] = "nil"
    /\ pc[r] \notin {"idle", "return"} /\ op[r] # "generate" => cid[r] \in issued
    /\ pc[r] = "return" => Final(r)
    /\ pc[r] # "idle" /\ (err[r] = "nil" \/ stage[r] = "del")
       => (new[r] # NoCID <=> op[r] \in {"generate", "rotate"})
    /\ err[r] # "nil" /\ stage[r] # "del" => new[r] = NoCID
    /\ err[r] = "notfound" => cid[r] \in doomed

\* Whether the artifact that r makes is complete, or begun.
Complete(r) == stage[r] = "del" \/ (stage[r] = "gen" /\ pc[r] \in {"close", "return"})

Begun(r) == Complete(r) \/ pc[r] \in {"encrypt", "label", "undo"}

\* The artifact a goroutine makes is nobody else's yet.
PFresh(r) ==
    new[r] # NoCID => /\ new[r] \in used \ issued
                      /\ \A q \in Request \ {r} : new[q] # new[r]

\* It has come as far as the goroutine has.
PProgress(r) ==
    new[r] # NoCID => /\ Complete(r) => new[r] \in keys
                      /\ ~Begun(r) => new[r] \notin keys \cup tmp
                      /\ pc[r] \in {"encrypt", "label"} => new[r] \notin keys

\* The token's objects, against what callers were told.
PStored ==
    /\ issued \ doomed \subseteq keys
    /\ doomed \subseteq issued
    /\ keys \cup tmp \cup issued \subseteq used

\* The inductive invariant.
PInv ==
    /\ TypeOK
    /\ MutexHeld
    /\ \A p \in Process : SessionsCounted(p)
    /\ \A r \in Request : LoggedIn(r) /\ PControl(r) /\ PFresh(r) /\ PProgress(r)
    /\ PStored
    /\ NoOrphanObjects

\* Its part about sessions.
SInv ==
    /\ TypeOK
    /\ MutexHeld
    /\ \A p \in Process : SessionsCounted(p)
    /\ \A r \in Request : LoggedIn(r)

\* The invariant holds initially.
LEMMA PInit == Init => PInv
<1> SUFFICES ASSUME Init PROVE PInv
  OBVIOUS
<1> USE PKCS11Assumption DEF Init
<1>1. TypeOK
  BY DEF TypeOK, InSession, Work, Methods, Stages, Errors
<1>2. MutexHeld
  BY DEF MutexHeld, Holding, InSession, Work
<1>3. ASSUME NEW p \in Process PROVE SessionsCounted(p)
  <2>1. mu[p] = Nobody /\ opened[p] = 0 /\ leaked[p] = 0
    BY Zenon
  <2>2. ~Busy(p)
    BY Zenon, <2>1 DEF Busy
  <2>3. opened[p] = leaked[p] + 0
    BY SMT, <2>1
  <2> QED BY SMTT(20), <2>1, <2>2, <2>3 DEF SessionsCounted
<1>4. \A r \in Request : LoggedIn(r) /\ PControl(r) /\ PFresh(r) /\ PProgress(r)
  BY DEF LoggedIn, PControl, PFresh, PProgress, Work
<1> QED BY <1>1, <1>2, <1>3, <1>4 DEF PInv, PStored, NoOrphanObjects

-----------------------------------------------------------------------------
(* Sessions *)

\* What a step of a goroutine leaves alone.
OthersStay(r) ==
    \A q \in Request \ {r} :
        UNCHANGED <<pc[q], op[q], stage[q], cid[q], new[q], err[q]>>

\* What it leaves alone of the other processes.
HomeOnly(p) ==
    \A x \in Process \ {p} : UNCHANGED <<opened[x], leaked[x], login[x], mu[x]>>

\* A step of r that holds, takes or releases the mutex.
LEMMA InsideStep ==
    ASSUME SInv, NEW r \in Request, OthersStay(r), HomeOnly(Home[r]),
           mu[Home[r]] \in {r, Nobody},
           mu'[Home[r]] = IF pc'[r] \in Holding THEN r ELSE Nobody,
           opened'[Home[r]] = leaked'[Home[r]] + (IF pc'[r] \in InSession THEN 1 ELSE 0),
           login'[Home[r]] => leaked'[Home[r]] > 0 \/ pc'[r] \in Work \cup {"drop", "close"},
           pc'[r] \in Work \cup {"retry", "reopen"} => login'[Home[r]]
    PROVE  /\ MutexHeld'
           /\ \A p \in Process : SessionsCounted(p)'
           /\ \A q \in Request : LoggedIn(q)'
<1> DEFINE h == Home[r]
<1>1. /\ TypeOK /\ MutexHeld
      /\ \A p \in Process : SessionsCounted(p)
      /\ \A q \in Request : LoggedIn(q)
  BY DEF SInv
<1>2. h \in Process /\ Nobody \notin Request /\ \A q \in Request : Home[q] \in Process
  BY PKCS11Assumption
<1>3. \A x \in Process \ {h} : UNCHANGED <<opened[x], leaked[x], login[x], mu[x]>>
  BY DEF HomeOnly
<1>4. \A q \in Request \ {r} : pc'[q] = pc[q]
  BY DEF OthersStay
<1>5. ASSUME NEW q \in Request \ {r}, Home[q] = h PROVE pc[q] \notin Holding
  BY <1>1, <1>2, <1>5 DEF MutexHeld
<1>6. Work \cup {"retry", "reopen"} \subseteq Holding /\ InSession \subseteq Holding
  BY DEF Holding, InSession
<1>7. MutexHeld'
  <2>1. ASSUME NEW q \in Request PROVE pc'[q] \in Holding <=> mu'[Home[q]] = q
    <3>1. CASE q = r
      BY <1>2, <1>3, <3>1
    <3>2. CASE q # r /\ Home[q] = h
      BY <1>2, <1>3, <1>4, <1>5, <3>2
    <3>3. CASE q # r /\ Home[q] # h
      BY <1>1, <1>2, <1>3, <1>4, <3>3 DEF MutexHeld
    <3> QED BY <3>1, <3>2, <3>3
  <2>2. ASSUME NEW p \in Process, mu'[p] # Nobody PROVE Home[mu'[p]] = p
    BY <1>1, <1>3, <2>2 DEF MutexHeld
  <2> QED BY <2>1, <2>2 DEF MutexHeld
<1>8. ASSUME NEW p \in Process PROVE SessionsCounted(p)'
  <2>1. CASE p = h
    <3>1. Busy(p)' <=> pc'[r] \in InSession
      BY <1>2, <1>3, <1>6, <2>1 DEF Busy
    <3>2. Busy(p)' => mu'[p] = r
      BY <1>3, <2>1 DEF Busy
    <3>3. Work \cup {"drop", "close"} \subseteq InSession
      BY DEF InSession
    <3> QED BY <1>3, <2>1, <3>1, <3>2, <3>3 DEF SessionsCounted
  <2>2. CASE p # h
    <3>1. mu'[p] = mu[p] /\ (mu[p] # Nobody => mu[p] \in Request \ {r})
      BY <1>1, <1>2, <1>3, <2>2 DEF MutexHeld, TypeOK
    <3>2. Busy(p)' <=> Busy(p)
      BY <1>4, <3>1 DEF Busy
    <3>3. Busy(p) => pc'[mu'[p]] = pc[mu[p]]
      BY <1>4, <3>1 DEF Busy
    <3> QED BY <1>1, <1>3, <2>2, <3>1, <3>2, <3>3 DEF SessionsCounted
  <2> QED BY <2>1, <2>2
<1>9. ASSUME NEW q \in Request PROVE LoggedIn(q)'
  <2>1. CASE q = r
    BY <1>2, <1>3, <2>1 DEF LoggedIn
  <2>2. CASE q # r /\ Home[q] = h
    BY <1>4, <1>5, <1>6, <2>2 DEF LoggedIn
  <2>3. CASE q # r /\ Home[q] # h
    BY <1>1, <1>2, <1>3, <1>4, <2>3 DEF LoggedIn
  <2> QED BY <2>1, <2>2, <2>3
<1> QED BY <1>7, <1>8, <1>9

\* A step of r outside of the mutex.
LEMMA OutsideStep ==
    ASSUME SInv, NEW r \in Request, OthersStay(r), UNCHANGED <<opened, leaked, login, mu>>,
           pc[r] \notin Holding, pc'[r] \notin Holding
    PROVE  /\ MutexHeld'
           /\ \A p \in Process : SessionsCounted(p)'
           /\ \A q \in Request : LoggedIn(q)'
<1>1. /\ TypeOK /\ MutexHeld
      /\ \A p \in Process : SessionsCounted(p)
      /\ \A q \in Request : LoggedIn(q)
  BY DEF SInv
<1>2. \A q \in Request \ {r} : pc'[q] = pc[q]
  BY DEF OthersStay
<1>3. MutexHeld'
  BY <1>1, <1>2 DEF MutexHeld
<1>4. \A p \in Process : mu[p] # Nobody => mu[p] \in Request \ {r}
  BY <1>1 DEF MutexHeld, TypeOK
<1>5. ASSUME NEW p \in Process PROVE SessionsCounted(p)'
  BY <1>1, <1>2, <1>4 DEF SessionsCounted, Busy
<1>6. ASSUME NEW q \in Request PROVE LoggedIn(q)'
  <2>1. Work \cup {"retry", "reopen"} \subseteq Holding
    BY DEF Holding, InSession
  <2> QED BY <1>1, <1>2, <2>1 DEF LoggedIn
<1> QED BY <1>3, <1>5, <1>6

\* A method that goes on.
LEMMA GotoFacts ==
    ASSUME TypeOK, NEW r \in Request, NEW l, Goto(r, l)
    PROVE  /\ OthersStay(r)
           /\ pc'[r] = l
           /\ UNCHANGED <<op, stage, cid, new, err>>
BY DEF TypeOK, Goto, OthersStay

\* A stage that is over.
LEMMA EndFacts ==
    ASSUME TypeOK, NEW r \in Request, NEW e, NEW l, End(r, e, l)
    PROVE  /\ OthersStay(r)
           /\ pc'[r] = l
           /\ err'[r] = e
           /\ new'[r] = IF e = "nil" \/ stage[r] = "del" THEN new[r] ELSE NoCID
           /\ UNCHANGED <<op, stage, cid>>
BY DEF TypeOK, End, OthersStay

\* Goroutines that leave.
LEMMA LeaveFacts ==
    ASSUME TypeOK, NEW rs \in SUBSET Request, Leave(rs)
    PROVE  \A q \in Request :
              /\ pc'[q] = IF q \in rs THEN "idle" ELSE pc[q]
              /\ op'[q] = IF q \in rs THEN "decrypt" ELSE op[q]
              /\ stage'[q] = IF q \in rs THEN "read" ELSE stage[q]
              /\ cid'[q] = IF q \in rs THEN NoCID ELSE cid[q]
              /\ new'[q] = IF q \in rs THEN NoCID ELSE new[q]
              /\ err'[q] = IF q \in rs THEN "nil" ELSE err[q]
BY DEF Leave

\* The control points a method can be at.
PCs == InSession \cup {"idle", "lock", "open", "reopen", "return"}

\* Where goroutines are is well-typed, and stays it.
ControlTyped ==
    /\ pc \in [Request -> PCs]
    /\ op \in [Request -> Methods]
    /\ stage \in [Request -> Stages]
    /\ cid \in [Request -> CID \cup {NoCID}]
    /\ new \in [Request -> CID \cup {NoCID}]
    /\ err \in [Request -> Errors]

\* A method that goes on keeps its types.
LEMMA GotoType ==
    ASSUME TypeOK, NEW r \in Request, NEW l \in PCs, Goto(r, l)
    PROVE  ControlTyped'
BY DEF TypeOK, Goto, PCs, ControlTyped

\* So does one whose stage is over.
LEMMA EndType ==
    ASSUME TypeOK, NEW r \in Request, NEW e \in Errors, NEW l \in PCs, End(r, e, l)
    PROVE  ControlTyped'
BY DEF TypeOK, End, PCs, ControlTyped

\* So do goroutines that leave.
LEMMA LeaveType ==
    ASSUME TypeOK, NEW rs \in SUBSET Request, Leave(rs)
    PROVE  ControlTyped'
BY DEF ControlTyped, TypeOK, Leave, PCs, Methods, Stages, Errors

\* The mutex changes hands.
LEMMA MutexType ==
    ASSUME TypeOK, NEW p \in Process, NEW m \in Request \cup {Nobody},
           mu' = [mu EXCEPT ![p] = m]
    PROVE  mu' \in [Process -> Request \cup {Nobody}]
BY DEF TypeOK

\* The call that follows the login.
LEMMA StartFacts ==
    ASSUME NEW r \in Request, Start(r)
    PROVE  \E l \in {"generate", "find"} :
              /\ Goto(r, l)
              /\ l = "generate" <=> stage[r] = "gen"
BY DEF Start

\* A method that gives up.
LEMMA GiveUpFacts ==
    ASSUME NEW r \in Request, GiveUp(r)
    PROVE  End(r, "err", "return") /\ mu' = [mu EXCEPT ![Home[r]] = Nobody]
BY DEF GiveUp

\* Counts of sessions and logins are well-typed.
SessionsTyped ==
    /\ opened \in [Process -> 0..MaxSessions]
    /\ leaked \in [Process -> 0..MaxSessions]
    /\ login \in [Process -> BOOLEAN]

\* A session is opened.
LEMMA NewSessionFacts ==
    ASSUME TypeOK, NEW p \in Process, NEW reply \in {"ok", "failed", "torn"},
           NewSession(p, reply), leaked[p] <= opened[p]
    PROVE  /\ SessionsTyped'
           /\ login' = login
           /\ \A x \in Process \ {p} : UNCHANGED <<opened[x], leaked[x]>>
           /\ IF reply = "ok"
              THEN opened'[p] = opened[p] + 1 /\ leaked'[p] = leaked[p]
              ELSE \E n \in {0, 1} : opened'[p] = opened[p] + n /\ leaked'[p] = leaked[p] + n
<1>1. /\ opened[p] \in 0..MaxSessions /\ leaked[p] \in 0..MaxSessions /\ MaxSessions \in Nat
      /\ SessionsTyped
  BY PKCS11Assumption DEF TypeOK, SessionsTyped
<1>2. CASE reply = "ok"
  <2>1. /\ opened[p] < MaxSessions /\ login' = login /\ leaked' = leaked
        /\ opened' = [opened EXCEPT ![p] = opened[p] + 1]
    BY <1>2 DEF NewSession
  <2>2. opened[p] + 1 \in 0..MaxSessions
    BY <1>1, <2>1
  <2> QED BY <1>1, <1>2, <2>1, <2>2 DEF SessionsTyped
<1>3. CASE reply = "torn"
  <2>1. /\ opened[p] < MaxSessions /\ login' = login
        /\ leaked' = [leaked EXCEPT ![p] = leaked[p] + 1]
        /\ opened' = [opened EXCEPT ![p] = opened[p] + 1]
    BY <1>3 DEF NewSession
  <2>2. opened[p] + 1 \in 0..MaxSessions /\ leaked[p] + 1 \in 0..MaxSessions
    BY <1>1, <2>1
  <2> QED BY <1>1, <1>3, <2>1, <2>2 DEF SessionsTyped
<1>4. CASE reply = "failed"
  <2>1. opened' = opened /\ login' = login /\ leaked' = leaked
    BY <1>4 DEF NewSession, sessionVars
  <2>2. opened[p] = opened[p] + 0 /\ leaked[p] = leaked[p] + 0
    BY <1>1
  <2> QED BY <1>1, <1>4, <2>1, <2>2 DEF SessionsTyped
<1> QED BY <1>2, <1>3, <1>4

\* The session of a goroutine at work is closed or left behind.
LEMMA DropSessionFacts ==
    ASSUME TypeOK, NEW p \in Process, NEW in \in BOOLEAN, DropSession(p, in),
           opened[p] = leaked[p] + 1
    PROVE  /\ SessionsTyped'
           /\ \A x \in Process \ {p} : UNCHANGED <<opened[x], leaked[x], login[x]>>
           /\ opened'[p] = leaked'[p]
           /\ leaked'[p] >= leaked[p]
           /\ login'[p] => in /\ leaked'[p] > 0
           /\ in /\ leaked[p] > 0 => login'[p]
<1>1. /\ opened[p] \in 0..MaxSessions /\ leaked[p] \in 0..MaxSessions /\ MaxSessions \in Nat
      /\ SessionsTyped
  BY PKCS11Assumption DEF TypeOK, SessionsTyped
<1>2. opened[p] - 1 = leaked[p] /\ (opened[p] > 1 <=> leaked[p] > 0) /\ opened[p] > 0
  BY <1>1
<1>3. CASE /\ opened' = [opened EXCEPT ![p] = @ - 1]
           /\ login' = [login EXCEPT ![p] = in /\ opened[p] > 1]
           /\ UNCHANGED leaked
  <2>1. opened' = [opened EXCEPT ![p] = leaked[p]]
    BY <1>2, <1>3
  <2>2. /\ login'[p] <=> in /\ opened[p] > 1
        /\ login' \in [Process -> BOOLEAN]
        /\ \A x \in Process \ {p} : login'[x] = login[x]
    BY <1>1, <1>3 DEF SessionsTyped
  <2>3. /\ opened'[p] = leaked[p] /\ leaked'[p] = leaked[p]
        /\ opened' \in [Process -> 0..MaxSessions]
        /\ leaked' \in [Process -> 0..MaxSessions]
        /\ \A x \in Process \ {p} : UNCHANGED <<opened[x], leaked[x]>>
    BY <1>1, <1>3, <2>1 DEF SessionsTyped
  <2> QED BY <1>1, <1>2, <2>2, <2>3 DEF SessionsTyped
<1>4. CASE /\ leaked' = [leaked EXCEPT ![p] = @ + 1]
           /\ login' = [login EXCEPT ![p] = in]
           /\ UNCHANGED opened
  <2>1. leaked' = [leaked EXCEPT ![p] = opened[p]]
    BY <1>4
  <2>2. /\ login'[p] <=> in
        /\ login' \in [Process -> BOOLEAN]
        /\ \A x \in Process \ {p} : login'[x] = login[x]
    BY <1>1, <1>4 DEF SessionsTyped
  <2>3. /\ opened'[p] = opened[p] /\ leaked'[p] = opened[p]
        /\ opened' \in [Process -> 0..MaxSessions]
        /\ leaked' \in [Process -> 0..MaxSessions]
        /\ \A x \in Process \ {p} : UNCHANGED <<opened[x], leaked[x]>>
    BY <1>1, <1>4, <2>1 DEF SessionsTyped
  <2> QED BY <1>1, <1>2, <2>2, <2>3 DEF SessionsTyped
<1> QED BY <1>3, <1>4 DEF DropSession

\* A goroutine inside, and what is known of its process.
LEMMA Inside ==
    ASSUME SInv, NEW r \in Request, pc[r] \in Holding
    PROVE  /\ Home[r] \in Process
           /\ mu[Home[r]] = r
           /\ opened[Home[r]] \in 0..MaxSessions
           /\ leaked[Home[r]] \in 0..MaxSessions
           /\ login[Home[r]] \in BOOLEAN
           /\ opened[Home[r]] = leaked[Home[r]] + (IF pc[r] \in InSession THEN 1 ELSE 0)
           /\ login[Home[r]] => leaked[Home[r]] > 0 \/ pc[r] \in Work \cup {"drop", "close"}
           /\ pc[r] \in Work \cup {"retry", "reopen"} => login[Home[r]]
<1>1. Home[r] \in Process /\ r # Nobody
  BY PKCS11Assumption
<1>2. mu[Home[r]] = r
  BY DEF SInv, MutexHeld
<1>3. SessionsCounted(Home[r]) /\ LoggedIn(r) /\ TypeOK
  BY <1>1 DEF SInv
<1>4. Busy(Home[r]) <=> pc[r] \in InSession
  BY <1>1, <1>2 DEF Busy
<1>5. Work \cup {"drop", "close"} \subseteq InSession
  BY DEF InSession
<1>6. opened[Home[r]] \in 0..MaxSessions /\ leaked[Home[r]] \in 0..MaxSessions
      /\ login[Home[r]] \in BOOLEAN
  BY <1>1, <1>3 DEF TypeOK
<1> QED BY <1>1, <1>2, <1>3, <1>4, <1>5, <1>6 DEF SessionsCounted, LoggedIn

\* A call on the session.
LEMMA WorkStep ==
    ASSUME SInv, NEW r \in Request, OthersStay(r), UNCHANGED <<opened, leaked, login, mu>>,
           pc[r] \in Work, pc'[r] \in Work \cup {"close"}
    PROVE  /\ MutexHeld'
           /\ \A p \in Process : SessionsCounted(p)'
           /\ \A q \in Request : LoggedIn(q)'
<1> DEFINE h == Home[r]
<1>1. /\ pc[r] \in Holding /\ pc[r] \in InSession
      /\ pc'[r] \in Holding /\ pc'[r] \in InSession
      /\ pc'[r] \in Work \cup {"drop", "close"}
      /\ pc'[r] \notin {"retry", "reopen"}
  BY DEF Holding, InSession, Work
<1>2. /\ h \in Process /\ mu[h] = r /\ login[h] /\ opened[h] = leaked[h] + 1
  BY <1>1, Inside
<1> QED BY <1>1, <1>2, InsideStep DEF HomeOnly

\* The holder of the mutex goes on.
LEMMA GoInside ==
    ASSUME SInv, NEW r \in Request, pc[r] \in Holding, NEW l \in Holding, Goto(r, l), mu' = mu,
           SessionsTyped',
           \A x \in Process \ {Home[r]} : UNCHANGED <<opened[x], leaked[x], login[x]>>,
           opened'[Home[r]] = leaked'[Home[r]] + (IF l \in InSession THEN 1 ELSE 0),
           login'[Home[r]] => leaked'[Home[r]] > 0 \/ l \in Work \cup {"drop", "close"},
           l \in Work \cup {"retry", "reopen"} => login'[Home[r]],
           UNCHANGED <<keys, tmp, ctx, used, issued, doomed, erased, excused>>
    PROVE  SInv'
<1>1. TypeOK
  BY Zenon DEF SInv
<1>2. OthersStay(r) /\ pc'[r] = l
  BY Zenon, <1>1, GotoFacts
<1>3. mu[Home[r]] = r /\ mu'[Home[r]] = r /\ HomeOnly(Home[r])
  BY Zenon, Inside DEF HomeOnly
<1>4. /\ MutexHeld'
      /\ \A p \in Process : SessionsCounted(p)'
      /\ \A q \in Request : LoggedIn(q)'
  BY Zenon, <1>2, <1>3, InsideStep
<1>5. l \in PCs
  BY Zenon DEF Holding, PCs
<1>6. ControlTyped'
  BY Zenon, <1>1, <1>5, GotoType
<1>7. TypeOK'
  BY Zenon, <1>1, <1>6 DEF ControlTyped, SessionsTyped, TypeOK, PCs
<1> QED BY Zenon, <1>4, <1>7 DEF SInv

\* The holder of the mutex lets go of it, without a session.
LEMMA LetsGo ==
    ASSUME SInv, NEW r \in Request, pc[r] \in Holding, OthersStay(r), ControlTyped',
           pc'[r] \in {"lock", "return"}, mu' = [mu EXCEPT ![Home[r]] = Nobody],
           SessionsTyped',
           \A x \in Process \ {Home[r]} : UNCHANGED <<opened[x], leaked[x], login[x]>>,
           opened'[Home[r]] = leaked'[Home[r]],
           login'[Home[r]] => leaked'[Home[r]] > 0,
           UNCHANGED <<keys, tmp, ctx, used, issued, erased, excused>>, doomed' \subseteq CID
    PROVE  SInv'
<1>1. TypeOK /\ Home[r] \in Process
  BY Zenon, Inside DEF SInv
<1>2. pc'[r] \notin Holding /\ pc'[r] \notin InSession /\ pc'[r] \notin Work \cup {"retry", "reopen"}
  BY Zenon DEF Holding, InSession, Work
<1>3. mu[Home[r]] = r /\ mu'[Home[r]] = Nobody /\ HomeOnly(Home[r])
  BY ZenonT(30), <1>1, Inside DEF HomeOnly, TypeOK
<1>4. opened'[Home[r]] = leaked'[Home[r]] + 0
  BY <1>1 DEF SessionsTyped
<1>5. /\ MutexHeld'
      /\ \A p \in Process : SessionsCounted(p)'
      /\ \A q \in Request : LoggedIn(q)'
  BY Zenon, <1>2, <1>3, <1>4, InsideStep
<1>6. mu' \in [Process -> Request \cup {Nobody}]
  BY Zenon, <1>1, MutexType
<1>7. TypeOK'
  BY Zenon, <1>1, <1>6 DEF ControlTyped, SessionsTyped, TypeOK, PCs
<1> QED BY Zenon, <1>5, <1>7 DEF SInv

\* The method gives up.
LEMMA GivesUpInside ==
    ASSUME SInv, NEW r \in Request, pc[r] \in Holding, GiveUp(r),
           SessionsTyped',
           \A x \in Process \ {Home[r]} : UNCHANGED <<opened[x], leaked[x], login[x]>>,
           opened'[Home[r]] = leaked'[Home[r]],
           login'[Home[r]] => leaked'[Home[r]] > 0,
           UNCHANGED <<keys, tmp, ctx, used, issued, doomed, erased, excused>>
    PROVE  SInv'
<1>1. TypeOK /\ doomed' \subseteq CID
  BY Zenon DEF SInv, TypeOK
<1>2. End(r, "err", "return") /\ mu' = [mu EXCEPT ![Home[r]] = Nobody]
  BY Zenon, GiveUpFacts
<1>3. "return" \in PCs /\ "err" \in Errors
  BY Zenon DEF PCs, Errors
<1>4. OthersStay(r) /\ pc'[r] = "return" /\ ControlTyped'
  BY Zenon, <1>1, <1>2, <1>3, EndFacts, EndType
<1> QED BY Zenon, <1>1, <1>2, <1>4, LetsGo

-----------------------------------------------------------------------------
(* What each action does to the sessions *)

\* The mutex is taken, or the method gives up.
LEMMA LockSessions ==
    ASSUME SInv, NEW r \in Request, Lock(r)
    PROVE  SInv'
<1> DEFINE h == Home[r]
<1>1. /\ TypeOK /\ h \in Process /\ pc[r] = "lock" /\ mu[h] = Nobody /\ r # Nobody
      /\ UNCHANGED <<tokenVars, sessionVars, ctx, histVars, leaked>>
  BY PKCS11Assumption DEF SInv, Lock
<1>2. SessionsCounted(h) /\ ~Busy(h)
  BY <1>1 DEF SInv, Busy
<1>3. opened[h] = leaked[h] + 0 /\ (login[h] => leaked[h] > 0)
  BY <1>1, <1>2 DEF SessionsCounted
<1>4. CASE mu' = [mu EXCEPT ![h] = r] /\ Goto(r, "open")
  <2>1. OthersStay(r) /\ pc'[r] = "open"
    BY <1>1, <1>4, GotoFacts
  <2>2. "open" \in Holding /\ "open" \notin InSession /\ "open" \in PCs
        /\ "open" \notin Work \cup {"retry", "reopen"}
    BY DEF Holding, InSession, Work, PCs
  <2>3. mu'[h] = r /\ HomeOnly(h)
    BY <1>1, <1>4 DEF HomeOnly, TypeOK, sessionVars
  <2>4. /\ opened'[h] = leaked'[h] + 0
        /\ login'[h] => leaked'[h] > 0
    BY <1>1, <1>3 DEF sessionVars
  <2>5. /\ MutexHeld'
        /\ \A p \in Process : SessionsCounted(p)'
        /\ \A q \in Request : LoggedIn(q)'
    BY <1>1, <2>1, <2>2, <2>3, <2>4, InsideStep
  <2>6. TypeOK'
    BY <1>1, <1>4, <2>2, GotoType, MutexType
    DEF ControlTyped, TypeOK, PCs, tokenVars, sessionVars, histVars
  <2> QED BY <2>5, <2>6 DEF SInv
<1>5. CASE GiveUp(r)
  <2>1. End(r, "err", "return") /\ mu' = mu
    BY SMTT(20), <1>1, <1>5, GiveUpFacts DEF TypeOK
  <2>2. OthersStay(r) /\ pc'[r] = "return"
    BY <1>1, <2>1, EndFacts
  <2>3. "lock" \notin Holding /\ "return" \notin Holding /\ "return" \in PCs /\ "err" \in Errors
    BY DEF Holding, InSession, Work, PCs, Errors
  <2>4. /\ MutexHeld'
        /\ \A p \in Process : SessionsCounted(p)'
        /\ \A q \in Request : LoggedIn(q)'
    BY <1>1, <2>1, <2>2, <2>3, OutsideStep DEF sessionVars
  <2>5. TypeOK'
    BY <1>1, <2>1, <2>3, EndType DEF ControlTyped, TypeOK, PCs, tokenVars, sessionVars, histVars
  <2> QED BY <2>4, <2>5 DEF SInv
<1> QED BY <1>4, <1>5 DEF Lock

\* A session is opened, or the method gives up.
LEMMA OpenSessionSessions ==
    ASSUME SInv, NEW r \in Request, OpenSession(r)
    PROVE  SInv'
<1> DEFINE h == Home[r]
<1>1. /\ TypeOK /\ pc[r] \in {"open", "reopen"}
      /\ UNCHANGED <<keys, tmp, ctx, used, issued, doomed, erased, excused>>
  BY Zenon DEF SInv, OpenSession, tokenVars, histVars
<1>2. pc[r] \in Holding /\ pc[r] \notin InSession /\ pc[r] \notin Work
  BY <1>1 DEF Holding, InSession, Work
<1>3. /\ h \in Process /\ mu[h] = r /\ opened[h] = leaked[h] + 0
      /\ opened[h] \in 0..MaxSessions /\ leaked[h] \in 0..MaxSessions
      /\ login[h] => leaked[h] > 0
      /\ pc[r] = "reopen" => login[h]
  BY <1>1, <1>2, Inside
<1>4. PICK reply \in {"ok", "failed", "torn"} :
        /\ NewSession(h, reply)
        /\ \/ reply # "ok" /\ GiveUp(r)
           \/ /\ reply = "ok"
              /\ IF pc[r] = "open" THEN Goto(r, "login") ELSE Start(r)
              /\ UNCHANGED mu
  BY Zenon DEF OpenSession
<1>5. leaked[h] <= opened[h]
  BY <1>3
<1>6. /\ SessionsTyped'
      /\ login' = login
      /\ \A x \in Process \ {h} : UNCHANGED <<opened[x], leaked[x]>>
      /\ IF reply = "ok"
         THEN opened'[h] = opened[h] + 1 /\ leaked'[h] = leaked[h]
         ELSE \E n \in {0, 1} : opened'[h] = opened[h] + n /\ leaked'[h] = leaked[h] + n
  BY Zenon, <1>1, <1>3, <1>4, <1>5, NewSessionFacts
<1>7. CASE reply # "ok"
  <2>1. opened'[h] = leaked'[h] /\ (login'[h] => leaked'[h] > 0)
    BY <1>3, <1>6, <1>7
  <2> QED BY Zenon, <1>1, <1>2, <1>4, <1>6, <1>7, <2>1, GivesUpInside
<1>8. CASE reply = "ok"
  <2>1. PICK l \in {"login", "generate", "find"} : /\ Goto(r, l)
                                                   /\ l # "login" => pc[r] = "reopen"
    BY Zenon, <1>1, <1>4, <1>8, StartFacts
  <2>2. /\ l \in Holding /\ l \in InSession /\ l \notin {"retry", "reopen"}
        /\ l \in Work <=> l # "login"
    BY <2>1 DEF Holding, InSession, Work
  <2>3. /\ opened'[h] = leaked'[h] + 1
        /\ login'[h] => leaked'[h] > 0
        /\ l \in Work => login'[h]
    BY <1>3, <1>6, <1>8, <2>1, <2>2
  <2> QED BY Zenon, <1>1, <1>2, <1>4, <1>6, <1>8, <2>1, <2>2, <2>3, GoInside
<1> QED BY Zenon, <1>4, <1>7, <1>8

\* The process is logged in, or the session is to be closed.
LEMMA LoginSessions ==
    ASSUME SInv, NEW r \in Request, Login(r)
    PROVE  SInv'
<1> DEFINE h == Home[r]
<1>1. /\ TypeOK /\ pc[r] = "login" /\ mu' = mu /\ UNCHANGED <<opened, leaked>>
      /\ UNCHANGED <<keys, tmp, ctx, used, issued, doomed, erased, excused>>
  BY Zenon DEF SInv, Login, tokenVars, histVars
<1>2. pc[r] \in Holding /\ pc[r] \in InSession /\ pc[r] \notin Work
  BY <1>1 DEF Holding, InSession, Work
<1>3. /\ h \in Process /\ opened[h] = leaked[h] + 1
      /\ login[h] => leaked[h] > 0
  BY <1>1, <1>2, Inside
<1>4. PICK l \in {"generate", "find", "retry", "drop"}, b \in BOOLEAN :
        /\ Goto(r, l)
        /\ login' = [login EXCEPT ![h] = b]
        /\ l = "retry" => login[h] /\ b
        /\ l \in {"generate", "find"} => b
        /\ b => login[h] \/ l # "retry"
  <2>1. CASE ~login[h] /\ login' = [login EXCEPT ![h] = TRUE] /\ Start(r)
    BY Zenon, <2>1, StartFacts
  <2>2. CASE login[h] /\ Goto(r, "retry") /\ UNCHANGED login
    <3>1. login' = [login EXCEPT ![h] = TRUE]
      BY <1>1, <1>3, <2>2 DEF TypeOK
    <3> QED BY Zenon, <2>2, <3>1
  <2>3. ASSUME NEW fault \in Faults, login' = [login EXCEPT ![h] = @ \/ fault = "torn"],
               Goto(r, "drop")
        PROVE  \E b \in BOOLEAN : login' = [login EXCEPT ![h] = b] /\ Goto(r, "drop")
    BY <2>3
  <2> QED BY Zenon, <2>1, <2>2, <2>3 DEF Login
<1>5. /\ l \in Holding /\ l \in InSession /\ l # "reopen"
      /\ l \in Work \cup {"retry", "reopen"} <=> l # "drop"
      /\ l \in Work \cup {"drop", "close"} <=> l # "retry"
  BY <1>4 DEF Holding, InSession, Work
<1>6. /\ login' \in [Process -> BOOLEAN] /\ login'[h] = b
      /\ \A x \in Process \ {h} : login'[x] = login[x]
  BY <1>1, <1>3, <1>4 DEF TypeOK
<1>7. SessionsTyped'
  BY Zenon, <1>1, <1>6 DEF SessionsTyped, TypeOK
<1>8. opened'[h] = leaked'[h] + 1 /\ (login'[h] => leaked'[h] > 0 \/ l # "retry")
  BY <1>1, <1>3, <1>4, <1>6
<1>9. l # "drop" => login'[h]
  BY Zenon, <1>4, <1>6
<1> QED BY Zenon, <1>1, <1>2, <1>4, <1>5, <1>6, <1>7, <1>8, <1>9, GoInside

\* The session is closed and another one is to be opened, or the method gives
\* up.
LEMMA CloseAfterLoginSessions ==
    ASSUME SInv, NEW r \in Request, CloseAfterLogin(r)
    PROVE  SInv'
<1> DEFINE h == Home[r]
<1>1. /\ TypeOK /\ pc[r] \in {"retry", "drop"} /\ DropSession(h, login[h])
      /\ UNCHANGED <<keys, tmp, ctx, used, issued, doomed, erased, excused>>
      /\ IF pc[r] = "retry" THEN Goto(r, "reopen") /\ UNCHANGED mu ELSE GiveUp(r)
  BY Zenon DEF SInv, CloseAfterLogin, tokenVars, histVars
<1>2. pc[r] \in Holding /\ pc[r] \in InSession /\ pc[r] \notin Work
  BY SMTT(20), <1>1 DEF Holding, InSession, Work
<1>3. /\ h \in Process /\ opened[h] = leaked[h] + 1 /\ login[h] \in BOOLEAN
      /\ login[h] /\ pc[r] = "retry" => leaked[h] > 0
      /\ pc[r] = "retry" => login[h]
  BY <1>1, <1>2, Inside
<1>4. /\ SessionsTyped'
      /\ \A x \in Process \ {h} : UNCHANGED <<opened[x], leaked[x], login[x]>>
      /\ opened'[h] = leaked'[h]
      /\ login'[h] => leaked'[h] > 0
      /\ login[h] /\ leaked[h] > 0 => login'[h]
  BY Zenon, <1>1, <1>3, DropSessionFacts
<1>5. CASE pc[r] = "retry"
  <2>1. "reopen" \in Holding /\ "reopen" \notin InSession /\ "reopen" \notin Work
    BY DEF Holding, InSession, Work
  <2>2. opened'[h] = leaked'[h] + 0 /\ login'[h]
    BY <1>3, <1>4, <1>5 DEF SessionsTyped
  <2> QED BY Zenon, <1>1, <1>2, <1>4, <1>5, <2>1, <2>2, GoInside
<1>6. CASE pc[r] = "drop"
  BY Zenon, <1>1, <1>2, <1>4, <1>6, GivesUpInside
<1> QED BY Zenon, <1>1, <1>5, <1>6

\* What p11Session.Close does to its caller.
LEMMA CloseSessionFacts ==
    ASSUME TypeOK, NEW r \in Request, CloseSession(r)
    PROVE  /\ OthersStay(r) /\ ControlTyped'
           /\ UNCHANGED <<keys, tmp, ctx, used, issued, erased, excused, op, cid, new, err>>
           /\ mu' = [mu EXCEPT ![Home[r]] = Nobody]
           /\ IF Final(r)
              THEN pc'[r] = "return" /\ stage' = stage /\ doomed' = doomed
              ELSE /\ pc'[r] = "lock" /\ stage'[r] = NextStage(r)
                   /\ doomed' = IF stage'[r] = "del" THEN doomed \cup {cid[r]} ELSE doomed
<1>1. /\ UNCHANGED <<keys, tmp, ctx, used, issued, erased, excused>>
      /\ mu' = [mu EXCEPT ![Home[r]] = Nobody]
  BY Zenon DEF CloseSession, tokenVars
<1>2. "return" \in PCs /\ "lock" \in PCs /\ NextStage(r) \in Stages
  BY Zenon DEF PCs, NextStage, Stages
<1>3. CASE Final(r)
  <2>1. Goto(r, "return") /\ doomed' = doomed
    BY Zenon, <1>3 DEF CloseSession
  <2> QED BY Zenon, <1>1, <1>2, <1>3, <2>1, GotoFacts, GotoType
<1>4. CASE ~Final(r)
  <2>1. /\ pc' = [pc EXCEPT ![r] = "lock"]
        /\ stage' = [stage EXCEPT ![r] = NextStage(r)]
        /\ doomed' = IF NextStage(r) = "del" THEN doomed \cup {cid[r]} ELSE doomed
        /\ UNCHANGED <<op, cid, new, err>>
    BY Zenon, <1>4 DEF CloseSession
  <2>2. pc'[r] = "lock" /\ stage'[r] = NextStage(r) /\ OthersStay(r)
    BY Zenon, <2>1 DEF TypeOK, OthersStay
  <2>3. ControlTyped'
    BY <1>2, <2>1 DEF TypeOK, ControlTyped, PCs
  <2> QED BY Zenon, <1>1, <1>4, <2>1, <2>2, <2>3
<1> QED BY Zenon, <1>3, <1>4

\* The session and the mutex are given back.
LEMMA CloseSessionSessions ==
    ASSUME SInv, NEW r \in Request, CloseSession(r), doomed' \subseteq CID
    PROVE  SInv'
<1> DEFINE h == Home[r]
<1>1. TypeOK /\ pc[r] = "close"
  BY Zenon DEF SInv, CloseSession
<1>2. pc[r] \in Holding /\ pc[r] \in InSession
  BY <1>1 DEF Holding, InSession
<1>3. h \in Process /\ opened[h] = leaked[h] + 1 /\ login[h] \in BOOLEAN
  BY <1>2, Inside
<1>4. PICK b \in BOOLEAN : DropSession(h, b)
  BY Zenon, <1>3 DEF CloseSession
<1>5. /\ SessionsTyped'
      /\ \A x \in Process \ {h} : UNCHANGED <<opened[x], leaked[x], login[x]>>
      /\ opened'[h] = leaked'[h]
      /\ login'[h] => leaked'[h] > 0
  BY Zenon, <1>1, <1>3, <1>4, DropSessionFacts
<1>6. pc'[r] \in {"lock", "return"}
  BY Zenon, <1>1, CloseSessionFacts
<1> QED BY Zenon, <1>1, <1>2, <1>5, <1>6, CloseSessionFacts, LetsGo

\* A step that begins or ends a method, outside of the mutex.
LEMMA OutsideSessions ==
    ASSUME SInv, NEW r \in Request, OthersStay(r), UNCHANGED <<opened, leaked, login, mu, ctx>>,
           pc[r] \in {"idle", "return"}, pc'[r] \in {"idle", "lock", "return"},
           ControlTyped', keys' \subseteq CID, tmp' \subseteq CID, used' \subseteq CID,
           issued' \subseteq CID, doomed' \subseteq CID, erased' \subseteq CID, excused' \subseteq CID
    PROVE  SInv'
<1>1. pc[r] \notin Holding /\ pc'[r] \notin Holding
  BY DEF Holding, InSession, Work
<1>2. /\ MutexHeld'
      /\ \A p \in Process : SessionsCounted(p)'
      /\ \A q \in Request : LoggedIn(q)'
  BY Zenon, <1>1, OutsideStep
<1>3. TypeOK'
  BY Zenon DEF SInv, TypeOK, ControlTyped, PCs
<1> QED BY Zenon, <1>2, <1>3 DEF SInv

\* What the end of a process's sessions does.
LEMMA EndSessionsFacts ==
    ASSUME TypeOK, NEW p \in Process, EndSessions(p)
    PROVE  /\ SessionsTyped'
           /\ opened'[p] = 0 /\ leaked'[p] = 0 /\ ~login'[p]
           /\ \A x \in Process \ {p} : UNCHANGED <<opened[x], leaked[x], login[x]>>
BY PKCS11Assumption DEF TypeOK, SessionsTyped, EndSessions

\* PKCS11.Close ends sessions that nobody is at work in.
LEMMA CloseSessions ==
    ASSUME SInv, NEW p \in Process, Close(p)
    PROVE  SInv'
<1>1. /\ TypeOK /\ mu[p] = Nobody /\ EndSessions(p) /\ mu' = mu /\ pc' = pc
      /\ ctx' = [ctx EXCEPT ![p] = FALSE]
      /\ UNCHANGED <<keys, tmp, op, stage, cid, new, err, used, issued, doomed, erased, excused>>
  BY Zenon DEF SInv, Close, tokenVars, callVars, histVars
<1>2. /\ SessionsTyped'
      /\ opened'[p] = 0 /\ leaked'[p] = 0 /\ ~login'[p]
      /\ \A x \in Process \ {p} : UNCHANGED <<opened[x], leaked[x], login[x]>>
  BY Zenon, <1>1, EndSessionsFacts
<1>3. ctx' \in [Process -> BOOLEAN]
  BY Zenon, <1>1 DEF TypeOK
<1>4. TypeOK'
  BY Zenon, <1>1, <1>2, <1>3 DEF TypeOK, SessionsTyped
<1>5. MutexHeld'
  BY Zenon, <1>1 DEF SInv, MutexHeld
<1>6. ASSUME NEW x \in Process PROVE SessionsCounted(x)'
  <2>1. CASE x = p
    <3>1. ~Busy(x)'
      BY Zenon, <1>1, <2>1 DEF Busy
    <3> QED BY <1>2, <2>1, <3>1 DEF SessionsCounted
  <2>2. CASE x # p
    <3>1. SessionsCounted(x) /\ (Busy(x)' <=> Busy(x)) /\ UNCHANGED <<opened[x], leaked[x], login[x]>>
      BY Zenon, <1>1, <1>2, <2>2 DEF SInv, Busy
    <3> QED BY Zenon, <1>1, <3>1 DEF SessionsCounted
  <2> QED BY Zenon, <2>1, <2>2
<1>7. ASSUME NEW q \in Request PROVE LoggedIn(q)'
  <2>1. Home[q] \in Process /\ q # Nobody
    BY Zenon, PKCS11Assumption
  <2>2. CASE Home[q] = p
    <3>1. pc[q] \notin Holding
      BY Zenon, <1>1, <2>1, <2>2 DEF SInv, MutexHeld
    <3>2. pc[q] \notin Work \cup {"retry", "reopen"}
      BY Zenon, <3>1 DEF Holding, InSession
    <3> QED BY Zenon, <1>1, <3>2 DEF LoggedIn
  <2>3. CASE Home[q] # p
    BY Zenon, <1>1, <1>2, <2>1, <2>3 DEF SInv, LoggedIn
  <2> QED BY Zenon, <2>2, <2>3
<1> QED BY Zenon, <1>4, <1>5, <1>6, <1>7 DEF SInv

\* A process dies with its goroutines and its sessions.
LEMMA RestartSessions ==
    ASSUME SInv, NEW p \in Process, Restart(p), excused' \subseteq CID
    PROVE  SInv'
<1> DEFINE here == {r \in Request : Home[r] = p}
<1>1. /\ TypeOK /\ EndSessions(p) /\ Leave(here) /\ here \in SUBSET Request
      /\ mu' = [mu EXCEPT ![p] = Nobody]
      /\ ctx' = [ctx EXCEPT ![p] = TRUE]
      /\ UNCHANGED <<keys, tmp, used, issued, doomed, erased>>
  BY Zenon DEF SInv, Restart, tokenVars
<1>2. /\ SessionsTyped'
      /\ opened'[p] = 0 /\ leaked'[p] = 0 /\ ~login'[p]
      /\ \A x \in Process \ {p} : UNCHANGED <<opened[x], leaked[x], login[x]>>
  BY Zenon, <1>1, EndSessionsFacts
<1>3. ctx' \in [Process -> BOOLEAN] /\ mu' \in [Process -> Request \cup {Nobody}] /\ ControlTyped'
  BY Zenon, <1>1, LeaveType DEF TypeOK
<1>4. TypeOK'
  BY Zenon, <1>1, <1>2, <1>3 DEF TypeOK, SessionsTyped, ControlTyped, PCs
<1>5. mu'[p] = Nobody /\ \A x \in Process \ {p} : mu'[x] = mu[x]
  BY Zenon, <1>1 DEF TypeOK
<1>6. \A q \in Request : pc'[q] = IF Home[q] = p THEN "idle" ELSE pc[q]
  <2>1. \A q \in Request : pc'[q] = IF q \in here THEN "idle" ELSE pc[q]
    BY <1>1, LeaveFacts
  <2> QED BY <2>1
<1>7. /\ Nobody \notin Request /\ \A q \in Request : Home[q] \in Process
      /\ "idle" \notin Holding /\ "idle" \notin Work \cup {"retry", "reopen"}
  BY PKCS11Assumption DEF Holding, InSession, Work
<1>8. /\ \A q \in Request : pc[q] \in Holding <=> mu[Home[q]] = q
      /\ \A x \in Process : mu[x] # Nobody => Home[mu[x]] = x /\ mu[x] \in Request
  <2>1. MutexHeld /\ mu \in [Process -> Request \cup {Nobody}]
    BY Zenon, <1>1 DEF SInv, TypeOK
  <2> QED BY <2>1 DEF MutexHeld
<1>9. MutexHeld'
  <2>1. ASSUME NEW q \in Request PROVE pc'[q] \in Holding <=> mu'[Home[q]] = q
    <3>1. CASE Home[q] = p
      BY Zenon, <1>5, <1>6, <1>7, <3>1
    <3>2. CASE Home[q] # p
      BY Zenon, <1>5, <1>6, <1>7, <1>8, <3>2
    <3> QED BY Zenon, <3>1, <3>2
  <2>2. ASSUME NEW x \in Process, mu'[x] # Nobody PROVE Home[mu'[x]] = x
    BY Zenon, <1>5, <1>8, <2>2
  <2> QED BY Zenon, <2>1, <2>2 DEF MutexHeld
<1>10. ASSUME NEW x \in Process PROVE SessionsCounted(x)'
  <2>1. CASE x = p
    <3>1. ~Busy(x)'
      BY Zenon, <1>5, <2>1 DEF Busy
    <3> QED BY <1>2, <2>1, <3>1 DEF SessionsCounted
  <2>2. CASE x # p
    <3>1. SessionsCounted(x) /\ UNCHANGED <<opened[x], leaked[x], login[x]>> /\ mu'[x] = mu[x]
      BY Zenon, <1>2, <1>5, <2>2 DEF SInv
    <3>2. mu[x] # Nobody => pc'[mu[x]] = pc[mu[x]]
      BY Zenon, <1>6, <1>8, <2>2
    <3> QED BY Zenon, <3>1, <3>2 DEF SessionsCounted, Busy
  <2> QED BY Zenon, <2>1, <2>2
<1>11. ASSUME NEW q \in Request PROVE LoggedIn(q)'
  <2>1. CASE Home[q] = p
    BY Zenon, <1>6, <1>7, <2>1 DEF LoggedIn
  <2>2. CASE Home[q] # p
    BY Zenon, <1>2, <1>6, <1>7, <2>2 DEF SInv, LoggedIn
  <2> QED BY Zenon, <2>1, <2>2
<1> QED BY Zenon, <1>4, <1>9, <1>10, <1>11 DEF SInv

-----------------------------------------------------------------------------
(* Objects *)

\* The invariant's parts.
LEMMA Parts ==
    ASSUME PInv
    PROVE  /\ SInv /\ TypeOK /\ PStored /\ NoOrphanObjects
           /\ \A r \in Request : LoggedIn(r) /\ PControl(r) /\ PFresh(r) /\ PProgress(r)
           /\ NoCID \notin keys /\ NoCID \notin tmp /\ NoCID \notin issued
           /\ NoCID \notin CID
BY Zenon, PKCS11Assumption DEF PInv, SInv, TypeOK

\* What a step of r may do to the objects on the token, and to the history.
ObjectFrame(r) ==
    /\ keys' \subseteq CID /\ tmp' \subseteq CID
    /\ keys' \ keys \subseteq {new[r]} /\ keys \ keys' \subseteq {new[r]} \cup doomed
    /\ tmp' \ tmp \subseteq {new[r]} /\ tmp \ tmp' \subseteq {new[r]}
    /\ excused \subseteq excused' /\ excused' \subseteq CID
    /\ doomed \subseteq doomed' /\ doomed' \subseteq issued
    /\ UNCHANGED <<used, issued, erased>>

\* A step of r that changes no object but its own or a doomed one.
LEMMA ObjectStep ==
    ASSUME PInv, NEW r \in Request, OthersStay(r), ObjectFrame(r), SInv',
           new'[r] \in {new[r], NoCID},
           new'[r] = NoCID /\ new[r] \in keys' \cup tmp' => new[r] \in excused',
           PControl(r)', PProgress(r)'
    PROVE  PInv'
<1>0. /\ TypeOK /\ PStored /\ NoOrphanObjects
      /\ \A q \in Request : PControl(q) /\ PFresh(q) /\ PProgress(q)
      /\ NoCID \notin issued /\ NoCID \notin CID
  BY Zenon, Parts
<1>1. /\ issued \ doomed \subseteq keys /\ doomed \subseteq issued
      /\ keys \cup tmp \cup issued \subseteq used
  BY Zenon, <1>0 DEF PStored
<1>2. /\ keys' \subseteq CID /\ tmp' \subseteq CID
      /\ keys' \ keys \subseteq {new[r]} /\ keys \ keys' \subseteq {new[r]} \cup doomed
      /\ tmp' \ tmp \subseteq {new[r]} /\ tmp \ tmp' \subseteq {new[r]}
      /\ excused \subseteq excused' /\ doomed \subseteq doomed' /\ doomed' \subseteq issued
      /\ UNCHANGED <<used, issued, erased>>
  BY Zenon DEF ObjectFrame
<1>3. new[r] \notin issued /\ (new[r] # NoCID => new[r] \in used)
  BY Zenon, <1>0 DEF PFresh
<1>4. PStored'
  <2>1. keys' \cup tmp' \subseteq used
    BY Zenon, <1>0, <1>1, <1>2, <1>3
  <2>2. issued \ doomed' \subseteq keys'
    BY Zenon, <1>1, <1>2, <1>3
  <2> QED BY Zenon, <1>1, <1>2, <2>1, <2>2 DEF PStored
<1>5. ASSUME NEW q \in Request, q # r PROVE PControl(q)' /\ PFresh(q)' /\ PProgress(q)'
  <2>0. PControl(q) /\ PFresh(q) /\ PProgress(q)
    BY Zenon, <1>0
  <2>1. UNCHANGED <<pc[q], op[q], stage[q], cid[q], new[q], err[q]>>
    BY Zenon, <1>5 DEF OthersStay
  <2>2. PControl(q)'
    BY ZenonT(30), <1>2, <2>0, <2>1 DEF PControl, Final
  <2>3. CASE new[q] # NoCID
    <3>1. new[q] # new[r] /\ new[q] \in used \ issued /\ \A x \in Request \ {q} : new[x] # new[q]
      BY Zenon, <1>5, <2>0, <2>3 DEF PFresh
    <3>2. ASSUME NEW x \in Request \ {q} PROVE new'[x] # new'[q]
      <4>1. CASE x = r
        BY Zenon, <2>1, <2>3, <3>1, <4>1
      <4>2. CASE x # r
        BY Zenon, <2>1, <3>1, <4>2 DEF OthersStay
      <4> QED BY Zenon, <4>1, <4>2
    <3>3. /\ new[q] \in keys' <=> new[q] \in keys
          /\ new[q] \in tmp' <=> new[q] \in tmp
      BY Zenon, <1>1, <1>2, <3>1
    <3>4. PFresh(q)'
      BY Zenon, <1>2, <2>1, <3>1, <3>2 DEF PFresh
    <3>5. (Complete(q)' <=> Complete(q)) /\ (Begun(q)' <=> Begun(q))
      BY Zenon, <2>1 DEF Complete, Begun
    <3>6. PProgress(q)'
      BY Zenon, <2>0, <2>1, <3>3, <3>5 DEF PProgress
    <3> QED BY Zenon, <2>2, <3>4, <3>6
  <2>4. CASE new[q] = NoCID
    BY Zenon, <2>1, <2>2, <2>4 DEF PFresh, PProgress
  <2> QED BY Zenon, <2>3, <2>4
<1>6. PFresh(r)'
  <2>1. ASSUME new'[r] # NoCID, NEW x \in Request \ {r} PROVE new'[x] # new'[r]
    <3>1. new'[r] = new[r] /\ new'[x] = new[x] /\ PFresh(r)
      BY Zenon, <1>0, <2>1 DEF OthersStay
    <3> QED BY Zenon, <2>1, <3>1 DEF PFresh
  <2> QED BY Zenon, <1>2, <1>3, <2>1 DEF PFresh
<1>7. NoOrphanObjects'
  <2>1. ASSUME NEW c \in keys' \cup tmp'
        PROVE  c \in issued' \cup excused' \/ \E q \in Request : new'[q] = c
    <3>1. c # NoCID
      BY Zenon, <1>0, <1>2
    <3>2. CASE c = new[r]
      BY Zenon, <3>1, <3>2
    <3>3. CASE c # new[r]
      <4>1. c \in keys \cup tmp
        BY <1>2, <2>1, <3>3
      <4>2. CASE c \in issued \cup excused
        BY Zenon, <1>2, <4>2
      <4>3. ASSUME NEW q \in Request, new[q] = c PROVE q # r /\ new'[q] = c
        <5>1. q # r
          BY <3>3, <4>3
        <5> QED BY Zenon, <4>3, <5>1 DEF OthersStay
      <4> QED BY ZenonT(30), <1>0, <4>1, <4>2, <4>3 DEF NoOrphanObjects
    <3> QED BY Zenon, <3>2, <3>3
  <2> QED BY Zenon, <2>1 DEF NoOrphanObjects
<1> QED BY Zenon, <1>4, <1>5, <1>6, <1>7 DEF PInv, SInv

\* Control point l belongs to the stage r is in.
Fits(r, l) ==
    /\ l \in {"generate", "encrypt", "label", "undo"} => stage[r] = "gen"
    /\ l = "find" => stage[r] # "gen"
    /\ l \in {"attrs", "gcm"} => stage[r] = "read"
    /\ l = "gcm" => op[r] # "wrap"
    /\ l = "destroy" => stage[r] = "del"

\* Control of a method that goes on.
LEMMA GotoControl ==
    ASSUME PInv, NEW r \in Request, NEW l, Goto(r, l), Fits(r, l),
           UNCHANGED <<issued, doomed>>,
           pc[r] \notin {"idle", "close", "return"}, l \notin {"idle", "close", "return"}
    PROVE  PControl(r)'
<1>1. PControl(r) /\ TypeOK
  BY Zenon, Parts
<1>2. pc'[r] = l /\ UNCHANGED <<op, stage, cid, new, err>>
  BY Zenon, <1>1, GotoFacts
<1> QED BY Zenon, <1>1, <1>2 DEF PControl, Fits, Final

\* Control of a method whose stage ends.
LEMMA EndControl ==
    ASSUME PInv, NEW r \in Request, NEW e, NEW l \in {"close", "return"}, End(r, e, l),
           UNCHANGED <<issued, doomed>>,
           pc[r] \notin {"idle", "close", "return"},
           l = "return" => e # "nil",
           e = "notfound" => cid[r] \in doomed
    PROVE  PControl(r)'
<1>1. PControl(r) /\ TypeOK
  BY Zenon, Parts
<1>2. /\ pc'[r] = l /\ err'[r] = e /\ UNCHANGED <<op, stage, cid>>
      /\ new'[r] = IF e = "nil" \/ stage[r] = "del" THEN new[r] ELSE NoCID
  BY Zenon, <1>1, EndFacts
<1>3. err[r] = "nil" /\ (new[r] # NoCID <=> op[r] \in {"generate", "rotate"})
  BY Zenon, <1>1 DEF PControl
<1>4. l = "return" => Final(r)'
  BY Zenon, <1>2 DEF Final
<1> QED BY Zenon, <1>1, <1>2, <1>3, <1>4 DEF PControl

\* A method goes on and leaves the token alone.
LEMMA GoesOn ==
    ASSUME PInv, NEW r \in Request, NEW l, Goto(r, l), Fits(r, l), SInv',
           UNCHANGED <<keys, tmp, used, issued, doomed, erased, excused>>,
           pc[r] \notin {"idle", "close", "return"}, l \notin {"idle", "close", "return"},
           l \in {"encrypt", "label", "undo"} <=> pc[r] \in {"encrypt", "label", "undo"},
           l \in {"encrypt", "label"} => pc[r] \in {"encrypt", "label"}
    PROVE  PInv'
<1>1. TypeOK /\ PStored /\ PProgress(r)
  BY Zenon, Parts
<1>2. OthersStay(r) /\ pc'[r] = l /\ UNCHANGED <<op, stage, cid, new, err>>
  BY Zenon, <1>1, GotoFacts
<1>3. ObjectFrame(r)
  BY Zenon, <1>1 DEF ObjectFrame, TypeOK, PStored
<1>4. PControl(r)'
  BY Zenon, GotoControl
<1>5. (Complete(r)' <=> Complete(r)) /\ (Begun(r)' <=> Begun(r))
  BY Zenon, <1>2 DEF Complete, Begun
<1>6. PProgress(r)'
  BY Zenon, <1>1, <1>2, <1>5 DEF PProgress
<1>7. new[r] = NoCID => new[r] \notin keys' \cup tmp'
  BY Zenon, Parts
<1> QED BY Zenon, <1>2, <1>3, <1>4, <1>6, <1>7, ObjectStep

\* A stage ends and leaves the token alone.
LEMMA Ends ==
    ASSUME PInv, NEW r \in Request, NEW e, NEW l \in {"close", "return"}, End(r, e, l), SInv',
           UNCHANGED <<keys, tmp, used, issued, doomed, erased, excused>>,
           pc[r] \notin {"idle", "close", "return", "encrypt", "label", "undo"},
           l = "return" => e # "nil",
           e = "nil" => stage[r] # "gen",
           e = "notfound" => cid[r] \in doomed
    PROVE  PInv'
<1>1. TypeOK /\ PStored /\ PProgress(r)
  BY Zenon, Parts
<1>2. /\ OthersStay(r) /\ pc'[r] = l /\ UNCHANGED <<op, stage, cid>>
      /\ new'[r] = IF e = "nil" \/ stage[r] = "del" THEN new[r] ELSE NoCID
  BY Zenon, <1>1, EndFacts
<1>3. ObjectFrame(r)
  BY Zenon, <1>1 DEF ObjectFrame, TypeOK, PStored
<1>4. PControl(r)'
  BY Zenon, EndControl
<1>5. (Complete(r) <=> stage[r] = "del") /\ (Begun(r) <=> stage[r] = "del")
  BY Zenon DEF Complete, Begun
<1>6. stage[r] # "gen" => (Complete(r)' <=> stage[r] = "del") /\ (Begun(r)' <=> stage[r] = "del")
  BY Zenon, <1>2 DEF Complete, Begun
<1>7. PProgress(r)'
  BY Zenon, <1>1, <1>2, <1>5, <1>6 DEF PProgress
<1>8. new'[r] = NoCID => new[r] \notin keys' \cup tmp'
  BY Zenon, <1>1, <1>2, <1>5, Parts DEF PProgress
<1> QED BY Zenon, <1>2, <1>3, <1>4, <1>7, <1>8, ObjectStep

-----------------------------------------------------------------------------
(* Every action keeps the invariant *)

\* p.mu.Lock.
LEMMA LockKeeps ==
    ASSUME PInv, NEW r \in Request, Lock(r)
    PROVE  PInv'
<1>1. /\ SInv' /\ pc[r] = "lock"
      /\ UNCHANGED <<keys, tmp, used, issued, doomed, erased, excused>>
  BY Zenon, Parts, LockSessions DEF Lock, tokenVars, histVars
<1>2. CASE Goto(r, "open")
  <2>1. Fits(r, "open")
    BY Zenon DEF Fits
  <2> QED BY Zenon, <1>1, <1>2, <2>1, GoesOn
<1>3. CASE GiveUp(r)
  BY Zenon, <1>1, <1>3, GiveUpFacts, Ends
<1> QED BY Zenon, <1>2, <1>3 DEF Lock

\* OpenSession of openSession.
LEMMA OpenSessionKeeps ==
    ASSUME PInv, NEW r \in Request, OpenSession(r)
    PROVE  PInv'
<1>1. /\ SInv' /\ pc[r] \in {"open", "reopen"}
      /\ UNCHANGED <<keys, tmp, used, issued, doomed, erased, excused>>
  BY Zenon, Parts, OpenSessionSessions DEF OpenSession, tokenVars, histVars
<1>2. CASE GiveUp(r)
  BY Zenon, <1>1, <1>2, GiveUpFacts, Ends
<1>3. CASE Goto(r, "login")
  <2>1. Fits(r, "login")
    BY Zenon DEF Fits
  <2> QED BY Zenon, <1>1, <1>3, <2>1, GoesOn
<1>4. CASE Start(r)
  <2>1. PICK l \in {"generate", "find"} : Goto(r, l) /\ (l = "generate" <=> stage[r] = "gen")
    BY Zenon, <1>4, StartFacts
  <2>2. Fits(r, l)
    BY Zenon, <2>1 DEF Fits
  <2> QED BY Zenon, <1>1, <2>1, <2>2, GoesOn
<1> QED BY Zenon, <1>2, <1>3, <1>4 DEF OpenSession

\* Login of openSession.
LEMMA LoginKeeps ==
    ASSUME PInv, NEW r \in Request, Login(r)
    PROVE  PInv'
<1>1. /\ SInv' /\ pc[r] = "login"
      /\ UNCHANGED <<keys, tmp, used, issued, doomed, erased, excused>>
  BY Zenon, Parts, LoginSessions DEF Login, tokenVars, histVars
<1>2. PICK l \in {"generate", "find", "retry", "drop"} :
        Goto(r, l) /\ (l = "generate" => stage[r] = "gen") /\ (l = "find" => stage[r] # "gen")
  BY Zenon, StartFacts DEF Login
<1>3. Fits(r, l)
  BY Zenon, <1>2 DEF Fits
<1> QED BY Zenon, <1>1, <1>2, <1>3, GoesOn

\* CloseSession of openSession.
LEMMA CloseAfterLoginKeeps ==
    ASSUME PInv, NEW r \in Request, CloseAfterLogin(r)
    PROVE  PInv'
<1>1. /\ SInv' /\ pc[r] \in {"retry", "drop"}
      /\ UNCHANGED <<keys, tmp, used, issued, doomed, erased, excused>>
  BY Zenon, Parts, CloseAfterLoginSessions DEF CloseAfterLogin, tokenVars, histVars
<1>2. CASE Goto(r, "reopen")
  <2>1. Fits(r, "reopen")
    BY Zenon DEF Fits
  <2> QED BY Zenon, <1>1, <1>2, <2>1, GoesOn
<1>3. CASE GiveUp(r)
  BY Zenon, <1>1, <1>3, GiveUpFacts, Ends
<1> QED BY Zenon, <1>2, <1>3 DEF CloseAfterLogin

\* p11Session.Close: when Rotate goes on to Delete, its new artifact is
\* complete.
LEMMA CloseSessionKeeps ==
    ASSUME PInv, NEW r \in Request, CloseSession(r)
    PROVE  PInv'
<1>1. TypeOK /\ PControl(r) /\ PProgress(r) /\ PStored /\ pc[r] = "close" /\ SInv
  BY Zenon, Parts DEF CloseSession
<1>2. /\ OthersStay(r) /\ UNCHANGED <<keys, tmp, used, issued, erased, excused, op, cid, new, err>>
      /\ IF Final(r)
         THEN pc'[r] = "return" /\ stage' = stage /\ doomed' = doomed
         ELSE /\ pc'[r] = "lock" /\ stage'[r] = NextStage(r)
              /\ doomed' = IF stage'[r] = "del" THEN doomed \cup {cid[r]} ELSE doomed
  BY Zenon, <1>1, CloseSessionFacts
<1>3. doomed \subseteq doomed' /\ doomed' \subseteq issued
  <2>1. ~Final(r) => cid[r] \in issued
    BY Zenon, <1>1 DEF Final, PControl
  <2> QED BY Zenon, <1>1, <1>2, <2>1 DEF PStored
<1>4. ObjectFrame(r) /\ doomed' \subseteq CID
  BY Zenon, <1>1, <1>2, <1>3 DEF ObjectFrame, TypeOK
<1>5. SInv'
  BY Zenon, <1>1, <1>4, CloseSessionSessions
<1>6. new[r] = NoCID => new[r] \notin keys' \cup tmp'
  BY Zenon, <1>2, Parts
<1>7. CASE Final(r)
  <2>1. Final(r)'
    BY Zenon, <1>2, <1>7 DEF Final
  <2>2. PControl(r)'
    BY Zenon, <1>1, <1>2, <1>7, <2>1 DEF PControl
  <2>3. (Complete(r)' <=> Complete(r)) /\ (Begun(r)' <=> Begun(r))
    BY Zenon, <1>1, <1>2, <1>7 DEF Complete, Begun
  <2>4. PProgress(r)'
    BY Zenon, <1>1, <1>2, <1>7, <2>3 DEF PProgress
  <2> QED BY Zenon, <1>2, <1>4, <1>5, <1>6, <2>2, <2>4, ObjectStep
<1>8. CASE ~Final(r)
  <2>1. /\ err[r] = "nil" /\ op[r] = "rotate" /\ stage[r] # "del"
        /\ stage[r] = "read" => stage'[r] = "gen"
        /\ stage[r] # "read" => stage'[r] = "del"
        /\ pc'[r] = "lock"
    BY Zenon, <1>2, <1>8 DEF Final, NextStage
  <2>2. stage'[r] = "del" => cid[r] \in doomed'
    BY Zenon, <1>2, <1>8
  <2>3. PControl(r)'
    BY Zenon, <1>1, <1>2, <1>3, <2>1, <2>2 DEF PControl
  <2>4. stage[r] \in Stages
    BY Zenon, <1>1 DEF TypeOK
  <2>5. ASSUME stage[r] = "read" PROVE PProgress(r)'
    <3>1. ~Begun(r) /\ ~Complete(r)'
      BY Zenon, <1>1, <2>1, <2>5 DEF Begun, Complete
    <3> QED BY Zenon, <1>1, <1>2, <2>1, <3>1 DEF PProgress
  <2>6. ASSUME stage[r] = "gen" PROVE PProgress(r)'
    <3>1. Complete(r) /\ Begun(r)'
      BY Zenon, <1>1, <2>1, <2>6 DEF Begun, Complete
    <3> QED BY Zenon, <1>1, <1>2, <2>1, <3>1 DEF PProgress
  <2>7. PProgress(r)'
    BY Zenon, <2>1, <2>4, <2>5, <2>6 DEF Stages
  <2> QED BY Zenon, <1>2, <1>4, <1>5, <1>6, <2>3, <2>7, ObjectStep
<1> QED BY Zenon, <1>7, <1>8

\* A call on the session that leaves the history's types alone.
LEMMA WorkSessions ==
    ASSUME PInv, NEW r \in Request, pc[r] \in Work, pc'[r] \in Work \cup {"close"},
           OthersStay(r), ControlTyped', ObjectFrame(r),
           UNCHANGED <<opened, leaked, login, ctx, mu>>
    PROVE  SInv'
<1>1. SInv /\ TypeOK /\ PStored
  BY Zenon, Parts
<1>2. /\ MutexHeld'
      /\ \A p \in Process : SessionsCounted(p)'
      /\ \A q \in Request : LoggedIn(q)'
  BY Zenon, <1>1, WorkStep
<1>3. TypeOK'
  BY Zenon, <1>1 DEF TypeOK, ControlTyped, PCs, ObjectFrame
<1> QED BY Zenon, <1>2, <1>3 DEF SInv

\* A call on the session after which the method goes on.
LEMMA WorkGoes ==
    ASSUME PInv, NEW r \in Request, pc[r] \in Work, NEW l \in Work, Goto(r, l), ObjectFrame(r),
           UNCHANGED <<opened, leaked, login, ctx, mu>>
    PROVE  SInv' /\ OthersStay(r) /\ pc'[r] = l /\ UNCHANGED <<op, stage, cid, new, err>>
<1>1. TypeOK /\ l \in PCs
  BY Zenon, Parts DEF PCs, InSession
<1> QED BY Zenon, <1>1, GotoFacts, GotoType, WorkSessions

\* A call on the session that ends the stage.
LEMMA WorkEnds ==
    ASSUME PInv, NEW r \in Request, pc[r] \in Work, NEW e \in Errors, End(r, e, "close"),
           ObjectFrame(r), UNCHANGED <<opened, leaked, login, ctx, mu>>
    PROVE  /\ SInv' /\ OthersStay(r) /\ pc'[r] = "close" /\ err'[r] = e
           /\ new'[r] = IF e = "nil" \/ stage[r] = "del" THEN new[r] ELSE NoCID
           /\ UNCHANGED <<op, stage, cid>>
<1>1. TypeOK /\ "close" \in PCs
  BY Zenon, Parts DEF PCs, InSession
<1> QED BY Zenon, <1>1, EndFacts, EndType, WorkSessions

\* A step that leaves the objects and the history alone.
LEMMA NoObjects ==
    ASSUME PInv, NEW r, UNCHANGED <<keys, tmp, used, issued, doomed, erased, excused>>
    PROVE  ObjectFrame(r)
BY Zenon, Parts DEF ObjectFrame, TypeOK, PStored

\* A call that leaves the token alone, after which the method goes on.
LEMMA QuietGoes ==
    ASSUME PInv, NEW r \in Request, pc[r] \in Work, NEW l \in Work, Goto(r, l), Fits(r, l),
           UNCHANGED <<keys, tmp, used, issued, doomed, erased, excused>>,
           UNCHANGED <<opened, leaked, login, ctx, mu>>,
           l \in {"encrypt", "label", "undo"} <=> pc[r] \in {"encrypt", "label", "undo"},
           l \in {"encrypt", "label"} => pc[r] \in {"encrypt", "label"}
    PROVE  PInv'
<1>1. ObjectFrame(r)
  BY Zenon, NoObjects
<1>2. SInv'
  BY Zenon, <1>1, WorkGoes
<1>3. pc[r] \notin {"idle", "close", "return"} /\ l \notin {"idle", "close", "return"}
  BY DEF Work
<1> QED BY Zenon, <1>2, <1>3, GoesOn

\* A call that leaves the token alone, and ends the stage.
LEMMA QuietEnds ==
    ASSUME PInv, NEW r \in Request, pc[r] \in Work, pc[r] \notin {"encrypt", "label", "undo"},
           NEW e \in Errors, End(r, e, "close"),
           UNCHANGED <<keys, tmp, used, issued, doomed, erased, excused>>,
           UNCHANGED <<opened, leaked, login, ctx, mu>>,
           e = "nil" => stage[r] # "gen",
           e = "notfound" => cid[r] \in doomed
    PROVE  PInv'
<1>1. ObjectFrame(r)
  BY Zenon, NoObjects
<1>2. SInv'
  BY Zenon, <1>1, WorkEnds
<1>3. pc[r] \notin {"idle", "close", "return", "encrypt", "label", "undo"}
  BY DEF Work
<1> QED BY Zenon, <1>2, <1>3, Ends

\* GenerateKey: an object under a provisional label, known or unknown to its
\* maker.
LEMMA GenerateKeyKeeps ==
    ASSUME PInv, NEW r \in Request, GenerateKey(r)
    PROVE  PInv'
<1>1. /\ TypeOK /\ PControl(r) /\ PProgress(r) /\ PFresh(r) /\ PStored /\ pc[r] = "generate"
      /\ UNCHANGED <<keys, used, issued, doomed, erased>>
      /\ UNCHANGED <<opened, leaked, login, ctx, mu>>
  BY Zenon, Parts DEF GenerateKey, sessionVars
<1>2. /\ pc[r] \in Work /\ "encrypt" \in Work /\ "err" \in Errors
  BY <1>1 DEF Work, Errors
<1>3. stage[r] = "gen" /\ op[r] \in {"generate", "rotate"} /\ new[r] # NoCID /\ new[r] \in CID
  <2>1. stage[r] = "gen" /\ op[r] \in {"generate", "rotate"} /\ err[r] = "nil"
    BY Zenon, <1>1 DEF PControl
  <2>2. new[r] # NoCID
    BY Zenon, <1>1, <2>1 DEF PControl
  <2> QED BY Zenon, <1>1, <2>1, <2>2 DEF TypeOK
<1>4. ~Begun(r) /\ new[r] \notin keys
  <2>1. ~Begun(r)
    BY Zenon, <1>1, <1>3 DEF Begun, Complete
  <2> QED BY Zenon, <1>1, <1>3, <2>1 DEF PProgress
<1>5. CASE tmp' = tmp \cup {new[r]} /\ Goto(r, "encrypt") /\ excused' = excused
  <2>1. ObjectFrame(r)
    BY <1>1, <1>3, <1>5 DEF ObjectFrame, TypeOK, PStored
  <2>2. SInv' /\ OthersStay(r) /\ pc'[r] = "encrypt" /\ UNCHANGED <<op, stage, cid, new, err>>
    BY Zenon, <1>1, <1>2, <1>5, <2>1, WorkGoes
  <2>3. Fits(r, "encrypt")
    BY Zenon, <1>3 DEF Fits
  <2>4. PControl(r)'
    BY Zenon, <1>1, <1>5, <2>3, GotoControl
  <2>5. ~Complete(r)' /\ Begun(r)'
    BY Zenon, <1>3, <2>2 DEF Complete, Begun
  <2>6. PProgress(r)'
    BY Zenon, <1>1, <1>4, <2>2, <2>5 DEF PProgress
  <2> QED BY ZenonT(30), <1>3, <2>1, <2>2, <2>4, <2>6, ObjectStep
<1>6. CASE tmp' = tmp \cup {new[r]} /\ End(r, "err", "close") /\ excused' = excused \cup {new[r]}
  <2>1. ObjectFrame(r)
    BY <1>1, <1>3, <1>6 DEF ObjectFrame, TypeOK, PStored
  <2>2. SInv' /\ OthersStay(r) /\ new'[r] = NoCID
    BY Zenon, <1>1, <1>2, <1>3, <1>6, <2>1, WorkEnds
  <2>3. PControl(r)'
    BY Zenon, <1>1, <1>6, EndControl
  <2>4. PProgress(r)' /\ new[r] \in excused'
    BY Zenon, <1>6, <2>2 DEF PProgress
  <2> QED BY Zenon, <2>1, <2>2, <2>3, <2>4, ObjectStep
<1>7. CASE End(r, "err", "close") /\ UNCHANGED <<tmp, excused>>
  BY Zenon, <1>1, <1>2, <1>7, QuietEnds
<1> QED BY Zenon, <1>5, <1>6, <1>7 DEF GenerateKey

\* EncryptInit and Encrypt.
LEMMA GcmEncryptKeeps ==
    ASSUME PInv, NEW r \in Request, GcmEncrypt(r)
    PROVE  PInv'
<1>1. /\ PControl(r) /\ pc[r] = "encrypt"
      /\ UNCHANGED <<keys, tmp, used, issued, doomed, erased, excused>>
      /\ UNCHANGED <<opened, leaked, login, ctx, mu>>
  BY Zenon, Parts DEF GcmEncrypt, sessionVars, tokenVars, histVars
<1>2. PICK l \in {"label", "undo"} : Goto(r, l)
  BY Zenon DEF GcmEncrypt
<1>3. pc[r] \in Work /\ l \in Work
  BY <1>1 DEF Work
<1>4. Fits(r, l)
  BY Zenon, <1>1 DEF PControl, Fits
<1> QED BY Zenon, <1>1, <1>2, <1>3, <1>4, QuietGoes

\* What GenerateAndEncrypt has in hand once it has an object.
LEMMA InHandToMake ==
    ASSUME PInv, NEW r \in Request, pc[r] \in {"label", "undo"}
    PROVE  /\ TypeOK /\ PControl(r) /\ PStored /\ pc[r] \in Work
           /\ stage[r] = "gen" /\ new[r] # NoCID /\ new[r] \in CID
<1>1. TypeOK /\ PControl(r) /\ PStored
  BY Zenon, Parts
<1>2. stage[r] = "gen" /\ op[r] \in {"generate", "rotate"} /\ err[r] = "nil"
  BY Zenon, <1>1 DEF PControl
<1>3. new[r] # NoCID
  BY Zenon, <1>1, <1>2 DEF PControl
<1> QED BY Zenon, <1>1, <1>2, <1>3 DEF TypeOK, Work

\* SetAttributeValue: the artifact is complete, or is to be undone.
LEMMA SetLabelKeeps ==
    ASSUME PInv, NEW r \in Request, SetLabel(r)
    PROVE  PInv'
<1>1. /\ pc[r] = "label"
      /\ UNCHANGED <<used, issued, doomed, erased, excused>>
      /\ UNCHANGED <<opened, leaked, login, ctx, mu>>
  BY Zenon DEF SetLabel, sessionVars, histVars
<1>2. /\ TypeOK /\ PControl(r) /\ PStored /\ pc[r] \in Work
      /\ stage[r] = "gen" /\ new[r] # NoCID /\ new[r] \in CID
  BY Zenon, <1>1, InHandToMake
<1>3. "undo" \in Work /\ "nil" \in Errors /\ Fits(r, "undo")
  BY Zenon, <1>2 DEF Work, Errors, Fits
<1>4. CASE keys' = keys \cup {new[r]} /\ tmp' = tmp \ {new[r]}
  <2>1. ObjectFrame(r)
    BY <1>1, <1>2, <1>4 DEF ObjectFrame, TypeOK, PStored
  <2>2. CASE End(r, "nil", "close")
    <3>1. SInv' /\ OthersStay(r) /\ pc'[r] = "close" /\ new'[r] = new[r] /\ stage' = stage
      BY Zenon, <1>1, <1>2, <1>3, <2>1, <2>2, WorkEnds
    <3>2. PControl(r)'
      BY Zenon, <1>1, <2>2, EndControl
    <3>3. Complete(r)' /\ Begun(r)'
      BY Zenon, <1>2, <3>1 DEF Complete, Begun
    <3>4. PProgress(r)'
      BY Zenon, <1>4, <3>1, <3>3 DEF PProgress
    <3> QED BY Zenon, <1>2, <2>1, <3>1, <3>2, <3>4, ObjectStep
  <2>3. CASE Goto(r, "undo")
    <3>1. SInv' /\ OthersStay(r) /\ pc'[r] = "undo" /\ new' = new /\ stage' = stage
      BY Zenon, <1>1, <1>2, <1>3, <2>1, <2>3, WorkGoes
    <3>2. PControl(r)'
      BY Zenon, <1>1, <1>3, <2>3, GotoControl
    <3>3. ~Complete(r)' /\ Begun(r)'
      BY Zenon, <1>2, <3>1 DEF Complete, Begun
    <3>4. PProgress(r)'
      BY Zenon, <3>1, <3>3 DEF PProgress
    <3> QED BY Zenon, <1>2, <2>1, <3>1, <3>2, <3>4, ObjectStep
  <2> QED BY Zenon, <1>1, <1>4, <2>2, <2>3, <1>2 DEF SetLabel
<1>5. CASE Goto(r, "undo") /\ UNCHANGED <<keys, tmp>>
  BY Zenon, <1>1, <1>2, <1>3, <1>5, QuietGoes
<1> QED BY Zenon, <1>4, <1>5 DEF SetLabel, tokenVars

\* destroyKey after an error.
LEMMA UndoKeeps ==
    ASSUME PInv, NEW r \in Request, Undo(r)
    PROVE  PInv'
<1>1. /\ pc[r] = "undo" /\ End(r, "err", "close")
      /\ UNCHANGED <<used, issued, doomed, erased>>
      /\ UNCHANGED <<opened, leaked, login, ctx, mu>>
  BY Zenon DEF Undo, sessionVars
<1>2. /\ TypeOK /\ PStored /\ pc[r] \in Work
      /\ stage[r] = "gen" /\ new[r] # NoCID /\ new[r] \in CID
  BY Zenon, <1>1, InHandToMake
<1>3. ObjectFrame(r) /\ (new[r] \in keys' \cup tmp' => new[r] \in excused')
  <2>1. CASE keys' = keys \ {new[r]} /\ tmp' = tmp \ {new[r]} /\ excused' = excused
    BY <1>1, <1>2, <2>1 DEF ObjectFrame, TypeOK, PStored
  <2>2. CASE excused' = excused \cup {new[r]} /\ UNCHANGED <<keys, tmp>>
    BY <1>1, <1>2, <2>2 DEF ObjectFrame, TypeOK, PStored
  <2> QED BY Zenon, <2>1, <2>2 DEF Undo, tokenVars
<1>4. SInv' /\ OthersStay(r) /\ new'[r] = NoCID
  <2>1. "err" \in Errors
    BY Zenon DEF Errors
  <2> QED BY Zenon, <1>1, <1>2, <1>3, <2>1, WorkEnds
<1>5. PControl(r)'
  BY Zenon, <1>1, EndControl
<1>6. PProgress(r)'
  BY Zenon, <1>4 DEF PProgress
<1> QED BY Zenon, <1>3, <1>4, <1>5, <1>6, ObjectStep

\* findKeyByLabel: a key that is not found is one somebody has begun to
\* delete, because the process is logged in.
LEMMA FindKeyKeeps ==
    ASSUME PInv, NEW r \in Request, FindKey(r)
    PROVE  PInv'
<1>1. /\ pc[r] = "find"
      /\ UNCHANGED <<keys, tmp, used, issued, doomed, erased, excused>>
      /\ UNCHANGED <<opened, leaked, login, ctx, mu>>
  BY Zenon DEF FindKey, sessionVars, tokenVars, histVars
<1>2. TypeOK /\ PControl(r) /\ PStored /\ LoggedIn(r)
  BY Zenon, Parts
<1>3. stage[r] \in {"read", "del"} /\ cid[r] \in issued /\ pc[r] \in Work
  BY Zenon, <1>1, <1>2 DEF PControl, TypeOK, Stages, Work
<1>4. CASE Goto(r, IF stage[r] = "del" THEN "destroy" ELSE "attrs")
  <2>1. PICK l \in {"destroy", "attrs"} : Goto(r, l) /\ (l = "destroy" <=> stage[r] = "del")
    BY Zenon, <1>4
  <2>2. Fits(r, l) /\ l \in Work
    BY Zenon, <1>3, <2>1 DEF Fits, Work
  <2> QED BY Zenon, <1>1, <1>3, <2>1, <2>2, QuietGoes
<1>5. CASE ~Visible(r) /\ End(r, IF stage[r] = "del" THEN "nil" ELSE "notfound", "close")
  <2>1. cid[r] \in doomed
    BY Zenon, <1>2, <1>3, <1>5 DEF LoggedIn, Visible, PStored
  <2>2. PICK e \in {"nil", "notfound"} : End(r, e, "close") /\ (e = "nil" => stage[r] = "del")
    BY Zenon, <1>5
  <2>3. e \in Errors
    BY Zenon DEF Errors
  <2> QED BY Zenon, <1>1, <1>3, <2>1, <2>2, <2>3, QuietEnds
<1>6. CASE End(r, "err", "close")
  <2>1. "err" \in Errors
    BY Zenon DEF Errors
  <2> QED BY Zenon, <1>1, <1>3, <1>6, <2>1, QuietEnds
<1> QED BY Zenon, <1>4, <1>5, <1>6 DEF FindKey

\* GetAttributeValue.
LEMMA ReadAttributesKeeps ==
    ASSUME PInv, NEW r \in Request, ReadAttributes(r)
    PROVE  PInv'
<1>1. /\ pc[r] = "attrs"
      /\ UNCHANGED <<keys, tmp, used, issued, doomed, erased, excused>>
      /\ UNCHANGED <<opened, leaked, login, ctx, mu>>
  BY Zenon DEF ReadAttributes, sessionVars, tokenVars, histVars
<1>2. stage[r] = "read" /\ pc[r] \in Work
  BY Zenon, <1>1, Parts DEF PControl, Work
<1>3. CASE op[r] # "wrap" /\ Goto(r, "gcm")
  <2>1. Fits(r, "gcm") /\ "gcm" \in Work
    BY Zenon, <1>2, <1>3 DEF Fits, Work
  <2> QED BY Zenon, <1>1, <1>2, <1>3, <2>1, QuietGoes
<1>4. ASSUME NEW e \in {"nil", "err"}, End(r, e, "close") PROVE PInv'
  <2>1. e \in Errors
    BY Zenon DEF Errors
  <2> QED BY Zenon, <1>1, <1>2, <1>4, <2>1, QuietEnds
<1> QED BY Zenon, <1>3, <1>4 DEF ReadAttributes

\* DecryptInit and Decrypt.
LEMMA GcmDecryptKeeps ==
    ASSUME PInv, NEW r \in Request, GcmDecrypt(r)
    PROVE  PInv'
<1>1. /\ pc[r] = "gcm"
      /\ UNCHANGED <<keys, tmp, used, issued, doomed, erased, excused>>
      /\ UNCHANGED <<opened, leaked, login, ctx, mu>>
  BY Zenon DEF GcmDecrypt, sessionVars, tokenVars, histVars
<1>2. stage[r] = "read" /\ pc[r] \in Work
  BY Zenon, <1>1, Parts DEF PControl, Work
<1>3. PICK e \in {"nil", "mismatch"} : End(r, e, "close")
  BY Zenon DEF GcmDecrypt
<1>4. e \in Errors
  BY Zenon DEF Errors
<1> QED BY Zenon, <1>1, <1>2, <1>3, <1>4, QuietEnds

\* DestroyObject: the key of an artifact somebody has begun to delete.
LEMMA DestroyKeyKeeps ==
    ASSUME PInv, NEW r \in Request, DestroyKey(r)
    PROVE  PInv'
<1>1. /\ pc[r] = "destroy"
      /\ UNCHANGED <<tmp, used, issued, doomed, erased, excused>>
      /\ UNCHANGED <<opened, leaked, login, ctx, mu>>
  BY Zenon DEF DestroyKey, sessionVars, histVars
<1>2. TypeOK /\ PControl(r) /\ PStored /\ PProgress(r) /\ PFresh(r)
  BY Zenon, Parts
<1>3. stage[r] = "del" /\ cid[r] \in doomed /\ pc[r] \in Work
  BY Zenon, <1>1, <1>2 DEF PControl, Work
<1>4. PICK e \in {"nil", "err"} : End(r, e, "close")
  BY Zenon DEF DestroyKey
<1>5. e \in Errors
  BY Zenon DEF Errors
<1>6. CASE keys' = keys \ {cid[r]}
  <2>1. ObjectFrame(r)
    BY <1>1, <1>2, <1>3, <1>6 DEF ObjectFrame, TypeOK, PStored
  <2>2. SInv' /\ OthersStay(r) /\ pc'[r] = "close" /\ new'[r] = new[r] /\ stage' = stage
    BY Zenon, <1>1, <1>3, <1>4, <1>5, <2>1, WorkEnds
  <2>3. PControl(r)'
    BY Zenon, <1>1, <1>4, EndControl
  <2>4. Complete(r) /\ Complete(r)' /\ Begun(r)'
    BY Zenon, <1>3, <2>2 DEF Complete, Begun
  <2>5. new[r] # NoCID => new[r] \in keys'
    BY <1>2, <1>3, <1>6, <2>4 DEF PProgress, PFresh, PStored
  <2>6. PProgress(r)'
    BY Zenon, <2>2, <2>4, <2>5 DEF PProgress
  <2>7. new[r] = NoCID => new[r] \notin keys' \cup tmp'
    BY Zenon, <1>1, <1>6, Parts
  <2> QED BY Zenon, <2>1, <2>2, <2>3, <2>6, <2>7, ObjectStep
<1>7. CASE keys' = keys
  BY Zenon, <1>1, <1>3, <1>4, <1>5, <1>7, QuietEnds
<1> QED BY Zenon, <1>6, <1>7 DEF DestroyKey

\* A step that begins or ends a method: it draws a fresh CID or hands one out.
LEMMA CallerStep ==
    ASSUME PInv, NEW r \in Request, OthersStay(r),
           UNCHANGED <<keys, tmp, excused>>, UNCHANGED <<opened, leaked, login, mu, ctx>>,
           pc[r] \in {"idle", "return"}, pc'[r] \in {"idle", "lock", "return"}, ControlTyped',
           used \subseteq used', used' \subseteq CID, erased' \subseteq CID,
           issued \subseteq issued', issued' \subseteq issued \cup ({new[r]} \ {NoCID}),
           doomed \subseteq doomed', doomed' \subseteq issued',
           new[r] = NoCID \/ (new[r] \in issued' /\ new[r] \in keys),
           new'[r] = NoCID \/ new'[r] \in used' \ used,
           new'[r] # NoCID => ~Begun(r)', PControl(r)'
    PROVE  PInv'
<1>0. /\ SInv /\ TypeOK /\ PStored /\ NoOrphanObjects
      /\ \A q \in Request : PControl(q) /\ PFresh(q) /\ PProgress(q)
      /\ NoCID \notin keys /\ NoCID \notin tmp /\ NoCID \notin CID
  BY Zenon, Parts
<1>1. /\ issued \ doomed \subseteq keys /\ keys \cup tmp \cup issued \subseteq used
      /\ keys \subseteq CID /\ tmp \subseteq CID /\ issued \subseteq CID /\ excused \subseteq CID
  BY Zenon, <1>0 DEF PStored, TypeOK
<1>2. issued' \ doomed' \subseteq keys' /\ issued' \subseteq used' /\ issued' \subseteq CID
  BY Zenon, <1>1
<1>3. SInv'
  <2>1. keys' \subseteq CID /\ tmp' \subseteq CID /\ doomed' \subseteq CID /\ excused' \subseteq CID
    BY Zenon, <1>1, <1>2
  <2> QED BY Zenon, <1>0, <1>2, <2>1, OutsideSessions
<1>4. PStored'
  BY Zenon, <1>1, <1>2 DEF PStored
<1>5. ASSUME NEW q \in Request, q # r PROVE PControl(q)' /\ PFresh(q)' /\ PProgress(q)'
  <2>0. PControl(q) /\ PFresh(q) /\ PProgress(q)
    BY Zenon, <1>0
  <2>1. UNCHANGED <<pc[q], op[q], stage[q], cid[q], new[q], err[q]>>
    BY Zenon, <1>5 DEF OthersStay
  <2>2. PControl(q)'
    BY ZenonT(30), <2>0, <2>1 DEF PControl, Final
  <2>3. PProgress(q)'
    BY Zenon, <2>0, <2>1 DEF PProgress, Complete, Begun
  <2>4. PFresh(q)'
    <3> SUFFICES ASSUME new[q] # NoCID PROVE PFresh(q)'
      BY Zenon, <2>1 DEF PFresh
    <3>1. new[q] \in used \ issued /\ \A x \in Request \ {q} : new[x] # new[q]
      BY Zenon, <2>0 DEF PFresh
    <3>2. ASSUME NEW x \in Request \ {q} PROVE new'[x] # new[q]
      <4>1. CASE x = r
        BY Zenon, <3>1, <4>1
      <4>2. CASE x # r
        BY Zenon, <3>1, <4>2 DEF OthersStay
      <4> QED BY Zenon, <4>1, <4>2
    <3>3. new[q] \in used' \ issued'
      BY Zenon, <1>5, <3>1
    <3> QED BY Zenon, <2>1, <3>2, <3>3 DEF PFresh
  <2> QED BY Zenon, <2>2, <2>3, <2>4
<1>6. PFresh(r)' /\ PProgress(r)'
  <2> SUFFICES ASSUME new'[r] # NoCID PROVE PFresh(r)' /\ PProgress(r)'
    BY Zenon DEF PFresh, PProgress
  <2>1. new'[r] \in used' \ used
    OBVIOUS
  <2>2. ASSUME NEW x \in Request \ {r} PROVE new'[x] # new'[r]
    <3>1. new'[x] = new[x] /\ (new[x] # NoCID => new[x] \in used)
      BY Zenon, <1>0 DEF OthersStay, PFresh
    <3> QED BY Zenon, <2>1, <3>1
  <2>3. new'[r] \notin issued' /\ new'[r] \notin keys \cup tmp
    <3>1. issued' \subseteq used /\ keys \cup tmp \subseteq used
      BY Zenon, <1>1
    <3> QED BY Zenon, <2>1, <3>1
  <2>4. pc'[r] \notin {"encrypt", "label"} /\ ~Begun(r)' /\ ~Complete(r)'
    BY Zenon DEF Begun
  <2> QED BY Zenon, <2>1, <2>2, <2>3, <2>4 DEF PFresh, PProgress
<1>7. NoOrphanObjects'
  <2>1. ASSUME NEW c \in keys' \cup tmp'
        PROVE  c \in issued' \cup excused' \/ \E q \in Request : new'[q] = c
    <3>1. c # NoCID /\ c \in keys \cup tmp
      BY Zenon, <1>0
    <3>2. CASE c \in issued \cup excused
      BY Zenon, <3>2
    <3>3. ASSUME NEW q \in Request, new[q] = c PROVE c \in issued' \/ new'[q] = c
      BY Zenon, <3>1, <3>3 DEF OthersStay
    <3> QED BY Zenon, <1>0, <3>1, <3>2, <3>3 DEF NoOrphanObjects
  <2> QED BY Zenon, <2>1 DEF NoOrphanObjects
<1> QED BY Zenon, <1>3, <1>4, <1>5, <1>6, <1>7 DEF PInv, SInv

\* A method is called.
LEMMA CallKeeps ==
    ASSUME PInv, NEW r \in Request, Call(r)
    PROVE  PInv'
<1>1. /\ TypeOK /\ PControl(r) /\ PStored /\ NoCID \notin CID /\ pc[r] = "idle"
      /\ UNCHANGED <<keys, tmp, excused>> /\ UNCHANGED <<opened, leaked, login, mu, ctx>>
      /\ UNCHANGED <<err, issued, erased>>
  BY Zenon, Parts DEF Call, sessionVars, tokenVars
<1>2. PICK o \in Methods, c \in issued \cup {NoCID}, n \in (CID \ used) \cup {NoCID} :
          /\ (c = NoCID) <=> (o = "generate")
          /\ (n = NoCID) <=> (o \notin {"generate", "rotate"})
          /\ pc' = [pc EXCEPT ![r] = "lock"]
          /\ op' = [op EXCEPT ![r] = o]
          /\ stage' = [stage EXCEPT ![r] = CASE o = "generate" -> "gen"
                                             [] o = "delete"   -> "del"
                                             [] OTHER          -> "read"]
          /\ cid' = [cid EXCEPT ![r] = c]
          /\ new' = [new EXCEPT ![r] = n]
          /\ used' = used \cup ({n} \ {NoCID})
          /\ doomed' = doomed \cup {d \in {c} : o = "delete"}
  BY Zenon DEF Call
<1>3. PICK s \in Stages : /\ stage' = [stage EXCEPT ![r] = s]
                          /\ s = "gen" <=> o = "generate"
                          /\ s = "del" <=> o = "delete"
  BY <1>2 DEF Stages
<1>4. OthersStay(r)
  BY Zenon, <1>1, <1>2, <1>3 DEF OthersStay, TypeOK
<1>5. /\ pc'[r] = "lock" /\ op'[r] = o /\ stage'[r] = s /\ cid'[r] = c /\ new'[r] = n
      /\ err'[r] = err[r]
  BY Zenon, <1>1, <1>2, <1>3 DEF TypeOK
<1>6. ControlTyped'
  <2>1. "lock" \in PCs /\ c \in CID \cup {NoCID} /\ n \in CID \cup {NoCID}
    BY Zenon, <1>1 DEF PCs, TypeOK
  <2> QED BY <1>1, <1>2, <1>3, <2>1 DEF ControlTyped, TypeOK, PCs
<1>7. /\ doomed \subseteq doomed' /\ doomed' \subseteq issued
      /\ o = "delete" => c \in doomed'
  BY <1>1, <1>2 DEF PStored
<1>8. used \subseteq used' /\ used' \subseteq CID /\ (n = NoCID \/ n \in used' \ used)
  BY <1>1, <1>2 DEF TypeOK
<1>9. new[r] = NoCID /\ err[r] = "nil"
  BY Zenon, <1>1 DEF PControl
<1>10. n # NoCID => ~Begun(r)'
  BY Zenon, <1>2, <1>3, <1>5 DEF Begun, Complete
<1>11. PControl(r)'
  <2>1. /\ s = "read" => o \in {"decrypt", "wrap", "rotate"}
        /\ o # "generate" => c \in issued
        /\ n # NoCID <=> o \in {"generate", "rotate"}
    BY <1>2, <1>3 DEF Methods
  <2> QED BY Zenon, <1>1, <1>3, <1>5, <1>7, <1>9, <2>1 DEF PControl
<1>12. issued \subseteq issued' /\ issued' \subseteq issued \cup ({new[r]} \ {NoCID})
       /\ erased' \subseteq CID /\ doomed' \subseteq issued'
  BY Zenon, <1>1, <1>7 DEF TypeOK
<1> QED BY Zenon, <1>1, <1>4, <1>5, <1>6, <1>7, <1>8, <1>9, <1>10, <1>11, <1>12, CallerStep

\* A call is refused.
LEMMA RejectKeeps ==
    ASSUME PInv, NEW r \in Request, Reject(r)
    PROVE  PInv'
<1>1. /\ TypeOK /\ PControl(r) /\ PStored /\ pc[r] = "idle"
      /\ UNCHANGED <<keys, tmp, excused>> /\ UNCHANGED <<opened, leaked, login, mu, ctx>>
      /\ UNCHANGED <<stage, cid, new, issued, erased, used, doomed>>
      /\ pc' = [pc EXCEPT ![r] = "return"]
      /\ op' = [op EXCEPT ![r] = "wrap"]
      /\ err' = [err EXCEPT ![r] = "err"]
  BY Zenon, Parts DEF Reject, sessionVars, tokenVars, histVars
<1>2. OthersStay(r) /\ pc'[r] = "return" /\ op'[r] = "wrap" /\ err'[r] = "err"
  BY Zenon, <1>1 DEF OthersStay, TypeOK
<1>3. ControlTyped'
  BY <1>1 DEF ControlTyped, TypeOK, PCs, Methods, Errors
<1>4. new[r] = NoCID /\ cid[r] = NoCID /\ stage[r] = "read"
  BY Zenon, <1>1 DEF PControl
<1>5. PControl(r)'
  BY Zenon, <1>1, <1>2, <1>4 DEF PControl, Final
<1>6. /\ used \subseteq used' /\ used' \subseteq CID /\ erased' \subseteq CID
      /\ issued \subseteq issued' /\ issued' \subseteq issued \cup ({new[r]} \ {NoCID})
      /\ doomed \subseteq doomed' /\ doomed' \subseteq issued'
  BY Zenon, <1>1 DEF TypeOK, PStored
<1> QED BY Zenon, <1>1, <1>2, <1>3, <1>4, <1>5, <1>6, CallerStep

\* The artifact a method returns is complete.
LEMMA ReturnsComplete ==
    ASSUME PInv, NEW r \in Request, pc[r] = "return", new[r] # NoCID
    PROVE  Complete(r) /\ new[r] \in keys /\ new[r] \in CID
<1>1. TypeOK /\ PControl(r) /\ PProgress(r)
  BY Zenon, Parts
<1>2. Final(r) /\ (err[r] # "nil" => stage[r] = "del")
  BY Zenon, <1>1 DEF PControl
<1>3. stage[r] # "read"
  BY Zenon, <1>1, <1>2 DEF PControl, Final
<1>4. Complete(r)
  BY Zenon, <1>1, <1>3 DEF Complete, TypeOK, Stages
<1> QED BY Zenon, <1>1, <1>4 DEF PProgress, TypeOK

\* What goroutines that left have in hand.
LEMMA LeftControl ==
    ASSUME TypeOK, NEW rs \in SUBSET Request, Leave(rs), NEW r \in rs
    PROVE  /\ PControl(r)' /\ new'[r] = NoCID /\ pc'[r] = "idle"
<1>1. /\ pc'[r] = "idle" /\ op'[r] = "decrypt" /\ stage'[r] = "read" /\ cid'[r] = NoCID
      /\ new'[r] = NoCID /\ err'[r] = "nil"
  BY LeaveFacts
<1> QED BY ZenonT(30), <1>1 DEF PControl

\* The caller takes the result.
LEMMA ReturnKeeps ==
    ASSUME PInv, NEW r \in Request, Return(r)
    PROVE  PInv'
<1>1. /\ TypeOK /\ PControl(r) /\ PStored /\ pc[r] = "return" /\ Leave({r})
      /\ UNCHANGED <<keys, tmp, excused>> /\ UNCHANGED <<opened, leaked, login, mu, ctx>>
      /\ UNCHANGED <<used, doomed>>
      /\ issued' = issued \cup ({new[r]} \ {NoCID})
  BY Zenon, Parts DEF Return, sessionVars, tokenVars
<1>2. PControl(r)' /\ new'[r] = NoCID /\ pc'[r] = "idle" /\ ControlTyped'
  BY Zenon, <1>1, LeftControl, LeaveType
<1>3. OthersStay(r)
  BY <1>1, LeaveFacts DEF OthersStay
<1>4. erased' \subseteq CID
  <2>1. err[r] = "nil" /\ op[r] \in {"delete", "rotate"} => cid[r] \in doomed
    BY Zenon, <1>1 DEF PControl, Final, TypeOK, Stages
  <2> QED BY <1>1, <2>1 DEF Return, TypeOK
<1>5. new[r] = NoCID \/ (new[r] \in issued' /\ new[r] \in keys)
  BY Zenon, <1>1, ReturnsComplete
<1>6. /\ used \subseteq used' /\ used' \subseteq CID
      /\ issued \subseteq issued' /\ issued' \subseteq issued \cup ({new[r]} \ {NoCID})
      /\ doomed \subseteq doomed' /\ doomed' \subseteq issued'
  BY Zenon, <1>1 DEF TypeOK, PStored
<1> QED BY Zenon, <1>1, <1>2, <1>3, <1>4, <1>5, <1>6, CallerStep

\* PKCS11.Close touches no object and no call.
LEMMA CloseKeeps ==
    ASSUME PInv, NEW p \in Process, Close(p)
    PROVE  PInv'
<1>1. SInv' /\ PStored /\ NoOrphanObjects
  BY Zenon, Parts, CloseSessions
<1>2. UNCHANGED <<keys, tmp, pc, op, stage, cid, new, err, used, issued, doomed, erased, excused>>
  BY Zenon DEF Close, tokenVars, callVars, histVars
<1>3. ASSUME NEW r \in Request PROVE PControl(r)' /\ PFresh(r)' /\ PProgress(r)'
  <2>1. PControl(r) /\ PFresh(r) /\ PProgress(r)
    BY Zenon, Parts
  <2>2. PControl(r)'
    BY Zenon, <1>2, <2>1 DEF PControl, Final
  <2>3. PFresh(r)'
    BY Zenon, <1>2, <2>1 DEF PFresh
  <2>4. PProgress(r)'
    BY Zenon, <1>2, <2>1 DEF PProgress, Complete, Begun
  <2> QED BY Zenon, <2>2, <2>3, <2>4
<1>4. PStored' /\ NoOrphanObjects'
  BY Zenon, <1>1, <1>2 DEF PStored, NoOrphanObjects
<1> QED BY Zenon, <1>1, <1>3, <1>4 DEF PInv, SInv

\* A process dies; the objects its goroutines were making are given up.
LEMMA RestartKeeps ==
    ASSUME PInv, NEW p \in Process, Restart(p)
    PROVE  PInv'
<1> DEFINE here == {r \in Request : Home[r] = p}
<1>1. /\ SInv /\ TypeOK /\ PStored /\ NoOrphanObjects /\ here \in SUBSET Request /\ Leave(here)
      /\ NoCID \notin keys /\ NoCID \notin tmp
      /\ excused' = excused \cup ({new[r] : r \in here} \ {NoCID})
      /\ UNCHANGED <<keys, tmp, used, issued, doomed, erased>>
  BY Zenon, Parts DEF Restart, tokenVars
<1>2. excused' \subseteq CID
  BY <1>1 DEF TypeOK
<1>3. SInv'
  BY Zenon, <1>1, <1>2, RestartSessions
<1>4. PStored'
  BY Zenon, <1>1 DEF PStored
<1>5. ASSUME NEW q \in here PROVE PControl(q)' /\ new'[q] = NoCID
  BY Zenon, <1>1, LeftControl
<1>6. ASSUME NEW q \in Request, q \notin here
      PROVE  UNCHANGED <<pc[q], op[q], stage[q], cid[q], new[q], err[q]>>
  BY <1>1, <1>6, LeaveFacts
<1>7. ASSUME NEW q \in Request PROVE PControl(q)' /\ PFresh(q)' /\ PProgress(q)'
  <2>1. CASE q \in here
    BY Zenon, <1>5, <2>1 DEF PFresh, PProgress
  <2>2. CASE q \notin here
    <3>1. PControl(q) /\ PFresh(q) /\ PProgress(q)
      BY Zenon, Parts
    <3>2. UNCHANGED <<pc[q], op[q], stage[q], cid[q], new[q], err[q]>>
      BY Zenon, <1>6, <2>2
    <3>3. PControl(q)'
      BY Zenon, <1>1, <3>1, <3>2 DEF PControl, Final
    <3>4. PProgress(q)'
      BY Zenon, <1>1, <3>1, <3>2 DEF PProgress, Complete, Begun
    <3>5. ASSUME new[q] # NoCID, NEW x \in Request \ {q} PROVE new'[x] # new[q]
      <4>1. new'[x] = NoCID \/ new'[x] = new[x]
        BY Zenon, <1>5, <1>6
      <4> QED BY Zenon, <3>1, <3>5, <4>1 DEF PFresh
    <3>6. PFresh(q)'
      BY Zenon, <1>1, <3>1, <3>2, <3>5 DEF PFresh
    <3> QED BY Zenon, <3>3, <3>4, <3>6
  <2> QED BY Zenon, <2>1, <2>2
<1>8. NoOrphanObjects'
  <2>1. ASSUME NEW c \in keys' \cup tmp'
        PROVE  c \in issued' \cup excused' \/ \E q \in Request : new'[q] = c
    <3>1. c # NoCID /\ c \in keys \cup tmp
      BY Zenon, <1>1
    <3>2. CASE c \in issued \cup excused
      BY Zenon, <1>1, <3>2
    <3>3. ASSUME NEW q \in Request, new[q] = c PROVE c \in excused' \/ new'[q] = c
      <4>1. CASE q \in here
        BY <1>1, <3>1, <3>3, <4>1
      <4>2. CASE q \notin here
        BY Zenon, <1>6, <3>3, <4>2
      <4> QED BY Zenon, <4>1, <4>2
    <3> QED BY Zenon, <1>1, <3>1, <3>2, <3>3 DEF NoOrphanObjects
  <2> QED BY Zenon, <2>1 DEF NoOrphanObjects
<1> QED BY Zenon, <1>3, <1>4, <1>7, <1>8 DEF PInv, SInv

-----------------------------------------------------------------------------
(* The invariant and what it says *)

\* Every step keeps the invariant.
LEMMA PInduction == PInv /\ [Next]_vars => PInv'
<1>1. ASSUME PInv, NEW r \in Request, Call(r) \/ Reject(r) \/ Lock(r) \/ Return(r) PROVE PInv'
  BY Zenon, <1>1, CallKeeps, RejectKeeps, LockKeeps, ReturnKeeps
<1>2. ASSUME PInv, NEW r \in Request, Step(r) PROVE PInv'
  <2>1. CASE OpenSession(r) \/ Login(r) \/ CloseAfterLogin(r) \/ CloseSession(r)
    BY Zenon, <1>2, <2>1, OpenSessionKeeps, LoginKeeps, CloseAfterLoginKeeps, CloseSessionKeeps
  <2>2. CASE GenerateKey(r) \/ GcmEncrypt(r) \/ SetLabel(r) \/ Undo(r)
    BY Zenon, <1>2, <2>2, GenerateKeyKeeps, GcmEncryptKeeps, SetLabelKeeps, UndoKeeps
  <2>3. CASE FindKey(r) \/ ReadAttributes(r) \/ GcmDecrypt(r) \/ DestroyKey(r)
    BY Zenon, <1>2, <2>3, FindKeyKeeps, ReadAttributesKeeps, GcmDecryptKeeps, DestroyKeyKeeps
  <2> QED BY Zenon, <1>2, <2>1, <2>2, <2>3 DEF Step
<1>3. ASSUME PInv, NEW p \in Process, Close(p) \/ Restart(p) PROVE PInv'
  BY Zenon, <1>3, CloseKeeps, RestartKeeps
<1>4. ASSUME PInv, UNCHANGED vars PROVE PInv'
  <2>1. /\ UNCHANGED <<keys, tmp, pc, op, stage, cid, new, err>>
        /\ UNCHANGED <<used, issued, doomed, erased, excused>>
        /\ UNCHANGED <<opened, leaked, login, ctx, mu>>
    BY Zenon, <1>4 DEF vars, tokenVars, sessionVars, callVars, histVars
  <2>2. TypeOK' /\ MutexHeld'
    BY Zenon, <1>4, <2>1 DEF PInv, TypeOK, MutexHeld
  <2>3. \A p \in Process : SessionsCounted(p)'
    BY Zenon, <1>4, <2>1 DEF PInv, SessionsCounted, Busy
  <2>4. ASSUME NEW r \in Request PROVE LoggedIn(r)' /\ PControl(r)' /\ PFresh(r)' /\ PProgress(r)'
    <3>1. LoggedIn(r) /\ PControl(r) /\ PFresh(r) /\ PProgress(r)
      BY Zenon, <1>4 DEF PInv
    <3>2. LoggedIn(r)' /\ PFresh(r)'
      BY Zenon, <2>1, <3>1 DEF LoggedIn, PFresh
    <3>3. PControl(r)'
      BY Zenon, <2>1, <3>1 DEF PControl, Final
    <3>4. PProgress(r)'
      BY Zenon, <2>1, <3>1 DEF PProgress, Complete, Begun
    <3> QED BY Zenon, <3>2, <3>3, <3>4
  <2>5. PStored' /\ NoOrphanObjects'
    BY Zenon, <1>4, <2>1 DEF PInv, PStored, NoOrphanObjects
  <2> QED BY Zenon, <2>2, <2>3, <2>4, <2>5 DEF PInv
<1> QED BY Zenon, <1>1, <1>2, <1>3, <1>4 DEF Next

\* The inductive invariant holds in every state PKCS11 can reach.
THEOREM PKCS11Invariant == Spec => []PInv
BY PInit, PInduction, PTL DEF Spec

\* PKCS11's variables keep their types; in particular no process ever has more
\* sessions than the token grants, and none is counted below zero.
THEOREM PKCS11TypeCorrect == Spec => []TypeOK
<1>1. PInv => TypeOK
  BY Zenon DEF PInv
<1> QED BY <1>1, PKCS11Invariant, PTL

\* Every call on a key is made by a process that is logged in.
THEOREM PKCS11LoggedInAtWork == Spec => []LoggedInAtWork
<1>1. PInv => LoggedInAtWork
  BY Zenon DEF PInv, LoggedIn, LoggedInAtWork
<1> QED BY <1>1, PKCS11Invariant, PTL

\* The sessions a process has open are that of the goroutine at work, of which
\* the mutex admits one, and those the token failed to close or report.
THEOREM PKCS11SessionsAreReleased == Spec => []SessionsAreReleased
<1>1. ASSUME PInv, NEW p \in Process,
             NEW in, in = {r \in Request : Home[r] = p /\ pc[r] \in InSession}
      PROVE  /\ \A q, r \in in : q = r
             /\ opened[p] = leaked[p] + (IF in = {} THEN 0 ELSE 1)
  <2>1. TypeOK /\ MutexHeld /\ SessionsCounted(p) /\ Nobody \notin Request
    BY Zenon, <1>1, PKCS11Assumption DEF PInv
  <2>2. InSession \subseteq Holding
    BY Zenon DEF Holding
  <2>3. opened[p] \in Nat /\ leaked[p] \in Nat
    BY <2>1, PKCS11Assumption DEF TypeOK
  <2>4. ASSUME NEW r \in in PROVE mu[p] = r
    BY ZenonT(30), <1>1, <2>1, <2>2 DEF MutexHeld
  <2>5. CASE Busy(p)
    <3>1. mu[p] \in in
      BY SMTT(20), <1>1, <2>1, <2>5 DEF Busy, MutexHeld, TypeOK
    <3> QED BY <2>1, <2>3, <2>4, <2>5, <3>1 DEF SessionsCounted
  <2>6. CASE ~Busy(p)
    <3>1. in = {}
      <4>1. ASSUME NEW r \in in PROVE FALSE
        BY Zenon, <1>1, <2>1, <2>4, <2>6 DEF Busy
      <4> QED BY Zenon, <4>1
    <3> QED BY <2>1, <2>3, <2>6, <3>1 DEF SessionsCounted
  <2> QED BY Zenon, <2>5, <2>6
<1>2. PInv => SessionsAreReleased
  BY <1>1 DEF SessionsAreReleased
<1> QED BY <1>2, PKCS11Invariant, PTL

\* GenerateAndEncrypt leaves no object on the token that nobody can name.
THEOREM PKCS11NoOrphanObjects == Spec => []NoOrphanObjects
<1>1. PInv => NoOrphanObjects
  BY Zenon DEF PInv
<1> QED BY <1>1, PKCS11Invariant, PTL

-----------------------------------------------------------------------------
(* PKCS11 implements KeyService *)

\* What the abstract state shows of a goroutine.
ShownAs(r) ==
    /\ pc[r] = "idle" => out[r] = "idle" /\ (op[r] = "decrypt" => seen[r] = FALSE)
                         /\ (op[r] = "decrypt" => made[r] = NoCID)
    /\ pc[r] \notin {"idle", "close", "return"} =>
          /\ out[r] = "busy"
          /\ seen[r] = (pc[r] \in {"attrs", "gcm"} \/ (op[r] = "rotate" /\ stage[r] # "read"))
          /\ made[r] = IF op[r] = "rotate" /\ stage[r] = "del" THEN new[r] ELSE NoCID
    /\ pc[r] = "close" /\ ~Final(r) => out[r] = "busy" /\ seen[r] = TRUE /\ made[r] = NoCID
    /\ pc[r] = "return" \/ (pc[r] = "close" /\ Final(r)) =>
          out[r] = err[r] /\ seen[r] = FALSE /\ made[r] = new[r]
    /\ made[r] \in {new[r], NoCID}

\* Before a step and after it.
LEMMA Shown ==
    ASSUME NEW r \in Request
    PROVE  ShownAs(r) /\ ShownAs(r)'
<1>1. ~Settled(r) /\ pc[r] = "close" => op[r] = "rotate" /\ stage[r] # "del"
  BY Zenon DEF Settled, Final
<1>2. ~Settled(r)' /\ pc'[r] = "close" => op'[r] = "rotate" /\ stage'[r] # "del"
  BY Zenon DEF Settled, Final
<1>3. /\ out[r] = IF Settled(r) THEN err[r] ELSE IF pc[r] = "idle" THEN "idle" ELSE "busy"
      /\ made[r] = IF Settled(r) \/ (op[r] = "rotate" /\ stage[r] = "del") THEN new[r] ELSE NoCID
      /\ seen[r] = (/\ ~Settled(r)
                    /\ \/ pc[r] \in {"attrs", "gcm"}
                       \/ pc[r] = "close" /\ op[r] = "rotate"
                       \/ op[r] = "rotate" /\ stage[r] # "read")
  BY Zenon DEF out, made, seen
<1>4. /\ out'[r] = IF Settled(r)' THEN err'[r] ELSE IF pc'[r] = "idle" THEN "idle" ELSE "busy"
      /\ made'[r] = IF Settled(r)' \/ (op'[r] = "rotate" /\ stage'[r] = "del")
                    THEN new'[r] ELSE NoCID
      /\ seen'[r] = (/\ ~Settled(r)'
                     /\ \/ pc'[r] \in {"attrs", "gcm"}
                        \/ pc'[r] = "close" /\ op'[r] = "rotate"
                        \/ op'[r] = "rotate" /\ stage'[r] # "read")
  BY Zenon DEF out, made, seen
<1>5. ShownAs(r)
  BY <1>1, <1>3 DEF ShownAs, Settled
<1>6. ShownAs(r)'
  BY <1>2, <1>4 DEF ShownAs, Settled
<1> QED BY Zenon, <1>5, <1>6

\* A step of r shows only at r.
LEMMA ShowsAt ==
    ASSUME NEW r \in Request, OthersStay(r)
    PROVE  /\ out' = [out EXCEPT ![r] = out'[r]]
           /\ seen' = [seen EXCEPT ![r] = seen'[r]]
           /\ made' = [made EXCEPT ![r] = made'[r]]
<1>1. ASSUME NEW q \in Request, q # r PROVE out'[q] = out[q] /\ seen'[q] = seen[q] /\ made'[q] = made[q]
  <2>1. UNCHANGED <<pc[q], op[q], stage[q], cid[q], new[q], err[q]>>
    BY Zenon, <1>1 DEF OthersStay
  <2>2. Settled(q)' <=> Settled(q)
    BY Zenon, <2>1 DEF Settled, Final
  <2>3. out'[q] = out[q]
    BY Zenon, <2>1, <2>2 DEF out
  <2>4. seen'[q] = seen[q]
    BY Zenon, <2>1, <2>2 DEF seen
  <2>5. made'[q] = made[q]
    BY Zenon, <2>1, <2>2 DEF made
  <2> QED BY Zenon, <2>3, <2>4, <2>5
<1>2. /\ out' = [q \in Request |-> out'[q]] /\ DOMAIN out = Request
      /\ seen' = [q \in Request |-> seen'[q]] /\ DOMAIN seen = Request
      /\ made' = [q \in Request |-> made'[q]] /\ DOMAIN made = Request
  BY Zenon DEF out, seen, made
<1>3. out' = [out EXCEPT ![r] = out'[r]]
  BY <1>1, <1>2
<1>4. seen' = [seen EXCEPT ![r] = seen'[r]]
  BY <1>1, <1>2
<1>5. made' = [made EXCEPT ![r] = made'[r]]
  BY <1>1, <1>2
<1> QED BY Zenon, <1>3, <1>4, <1>5

\* A step of r that does not show.
LEMMA ShowsNot ==
    ASSUME NEW r \in Request, OthersStay(r),
           out'[r] = out[r], seen'[r] = seen[r], made'[r] = made[r]
    PROVE  UNCHANGED <<out, seen, made>>
<1>1. /\ out' = [out EXCEPT ![r] = out[r]]
      /\ seen' = [seen EXCEPT ![r] = seen[r]]
      /\ made' = [made EXCEPT ![r] = made[r]]
  BY Zenon, ShowsAt
<1> QED BY ZenonT(30), <1>1 DEF out, seen, made

\* A method that goes on without getting hold of a key.
LEMMA Hidden ==
    ASSUME PInv, NEW r \in Request, NEW l, Goto(r, l),
           pc[r] \notin {"idle", "close", "return"}, l \notin {"idle", "close", "return"},
           l \in {"attrs", "gcm"} <=> pc[r] \in {"attrs", "gcm"}
    PROVE  out[r] = "busy" /\ UNCHANGED <<op, cid, out, seen, made>>
<1>1. OthersStay(r) /\ pc'[r] = l /\ UNCHANGED <<op, stage, cid, new, err>>
  BY Zenon, Parts, GotoFacts
<1>2. out'[r] = out[r] /\ out[r] = "busy"
  BY Zenon, <1>1, Shown DEF ShownAs
<1>3. seen'[r] = seen[r]
  BY Zenon, <1>1, Shown DEF ShownAs
<1>4. made'[r] = made[r]
  BY Zenon, <1>1, Shown DEF ShownAs
<1> QED BY Zenon, <1>1, <1>2, <1>3, <1>4, ShowsNot

\* A stage that ends, and settles what the method returns.
LEMMA Concludes ==
    ASSUME PInv, NEW r \in Request, NEW e, NEW l \in {"close", "return"}, End(r, e, l),
           pc[r] \notin {"idle", "close", "return"},
           e # "nil" \/ op[r] # "rotate" \/ stage[r] = "del"
    PROVE  /\ out[r] = "busy" /\ UNCHANGED <<op, cid>>
           /\ out' = [out EXCEPT ![r] = e]
           /\ seen' = [seen EXCEPT ![r] = FALSE]
           /\ made' = [made EXCEPT ![r] = new'[r]]
           /\ new'[r] = IF e = "nil" \/ stage[r] = "del" THEN new[r] ELSE NoCID
           /\ (e = "nil" /\ stage[r] = "gen") \/ made' = made
<1>1. /\ OthersStay(r) /\ pc'[r] = l /\ err'[r] = e /\ UNCHANGED <<op, stage, cid>>
      /\ new'[r] = IF e = "nil" \/ stage[r] = "del" THEN new[r] ELSE NoCID
  BY Zenon, Parts, EndFacts
<1>2. Final(r)'
  BY Zenon, <1>1 DEF Final
<1>3. out[r] = "busy" /\ out'[r] = e /\ seen'[r] = FALSE /\ made'[r] = new'[r]
  BY Zenon, <1>1, <1>2, Shown DEF ShownAs
<1>4. /\ out' = [out EXCEPT ![r] = e] /\ seen' = [seen EXCEPT ![r] = FALSE]
      /\ made' = [made EXCEPT ![r] = new'[r]]
  BY Zenon, <1>1, <1>3, ShowsAt
<1>5. ASSUME ~(e = "nil" /\ stage[r] = "gen") PROVE made' = made
  <2>1. PControl(r) /\ stage[r] \in Stages
    BY Zenon, Parts DEF TypeOK
  <2>2. made[r] = IF op[r] = "rotate" /\ stage[r] = "del" THEN new[r] ELSE NoCID
    BY Zenon, Shown DEF ShownAs
  <2>3. new[r] # NoCID <=> op[r] \in {"generate", "rotate"}
    BY Zenon, <2>1 DEF PControl
  <2>4. CASE stage[r] = "del"
    BY Zenon, <1>1, <1>4, <2>1, <2>2, <2>3, <2>4 DEF PControl, made
  <2>5. CASE stage[r] # "del" /\ e # "nil"
    BY Zenon, <1>1, <1>4, <2>2, <2>5 DEF made
  <2>6. CASE stage[r] = "read" /\ e = "nil"
    <3>1. new[r] = NoCID
      BY Zenon, <2>1, <2>3, <2>6 DEF PControl
    <3> QED BY Zenon, <1>1, <1>4, <2>2, <2>6, <3>1 DEF made
  <2> QED BY Zenon, <1>5, <2>1, <2>4, <2>5, <2>6 DEF Stages
<1> QED BY Zenon, <1>1, <1>3, <1>4, <1>5

\* The artifact that is being made is nobody's yet.
LEMMA NewIsUnclaimed ==
    ASSUME PInv, NEW r \in Request, new[r] # NoCID, made[r] = NoCID
    PROVE  KS!Unclaimed(new[r]) /\ new[r] \in CID
<1>1. PFresh(r) /\ TypeOK
  BY Zenon, Parts
<1>2. ASSUME NEW q \in Request PROVE made[q] # new[r]
  <2>1. made[q] \in {new[q], NoCID}
    BY Zenon, Shown DEF ShownAs
  <2> QED BY Zenon, <1>1, <2>1 DEF PFresh
<1> QED BY Zenon, <1>1, <1>2 DEF KS!Unclaimed, PFresh, TypeOK

\* A method that fails, and may have given up a key.
LEMMA RefFail ==
    ASSUME PInv, NEW r \in Request, NEW e \in {"mismatch", "err"}, NEW l \in {"close", "return"},
           End(r, e, l), pc[r] \notin {"idle", "close", "return"},
           UNCHANGED <<issued, doomed, erased>>, KS!LoseSome
    PROVE  KS!Next
<1>1. /\ out[r] = "busy" /\ UNCHANGED <<op, cid>>
      /\ out' = [out EXCEPT ![r] = e]
      /\ seen' = [seen EXCEPT ![r] = FALSE]
      /\ made' = made
  <2>1. e # "nil"
    BY Zenon
  <2> QED BY <2>1, Concludes
<1>2. KS!Fail(r, e) /\ e \in KS!Errors
  BY <1>1 DEF KS!Fail, KS!Conclude, KS!Errors
<1> QED BY Zenon, <1>1, <1>2 DEF KS!Next, KS!Proceed

\* Nothing is given up when the keys stay.
LEMMA NothingLost ==
    ASSUME UNCHANGED keys
    PROVE  KS!LoseSome
BY DEF KS!LoseSome

\* A step of r that leaves the keys and the history alone and does not show.
LEMMA RefStutter ==
    ASSUME UNCHANGED <<op, cid, out, seen, made>>, UNCHANGED <<keys, issued, doomed, erased>>
    PROVE  UNCHANGED KS!vars
BY Zenon DEF KS!vars

\* The initial states are initial states of the key service.
LEMMA RefInit == Init => KS!Init
<1> SUFFICES ASSUME Init PROVE KS!Init
  OBVIOUS
<1>1. \A r \in Request : pc[r] = "idle" /\ op[r] = "decrypt"
  BY SMTT(20) DEF Init
<1>2. seen = [r \in Request |-> FALSE]
  BY <1>1 DEF seen
<1>3. made = [r \in Request |-> NoCID]
  BY <1>1 DEF made, Settled
<1>4. out = [r \in Request |-> "idle"]
  BY <1>1 DEF out, Settled
<1> QED BY Zenon, <1>2, <1>3, <1>4 DEF Init, KS!Init

\* What a method does before it has a session is not seen, or it fails.
LEMMA RefSession ==
    ASSUME PInv, NEW r \in Request, pc[r] \in {"lock", "open", "reopen", "login", "retry", "drop"},
           UNCHANGED <<keys, issued, doomed, erased>>,
           \/ GiveUp(r)
           \/ \E l \in {"open", "login", "generate", "find", "retry", "drop", "reopen"} : Goto(r, l)
    PROVE  KS!Next \/ UNCHANGED KS!vars
<1>1. CASE GiveUp(r)
  BY Zenon, <1>1, GiveUpFacts, NothingLost, RefFail
<1>2. ASSUME NEW l \in {"open", "login", "generate", "find", "retry", "drop", "reopen"}, Goto(r, l)
      PROVE  UNCHANGED KS!vars
  BY Zenon, <1>2, Hidden, RefStutter
<1> QED BY Zenon, <1>1, <1>2

\* p.mu.Lock, OpenSession, Login and the CloseSession of openSession.
LEMMA RefOpen ==
    ASSUME PInv, NEW r \in Request,
           Lock(r) \/ OpenSession(r) \/ Login(r) \/ CloseAfterLogin(r)
    PROVE  KS!Next \/ UNCHANGED KS!vars
<1>1. CASE Lock(r)
  BY Zenon, <1>1, RefSession DEF Lock, tokenVars, histVars
<1>2. CASE OpenSession(r)
  BY Zenon, <1>2, RefSession, StartFacts DEF OpenSession, tokenVars, histVars
<1>3. CASE Login(r)
  BY Zenon, <1>3, RefSession, StartFacts DEF Login, tokenVars, histVars
<1>4. CASE CloseAfterLogin(r)
  BY Zenon, <1>4, RefSession DEF CloseAfterLogin, tokenVars, histVars
<1> QED BY Zenon, <1>1, <1>2, <1>3, <1>4

\* p11Session.Close is not seen, unless Rotate turns to the old artifact.
LEMMA RefCloseSession ==
    ASSUME PInv, NEW r \in Request, CloseSession(r)
    PROVE  KS!Next \/ UNCHANGED KS!vars
<1>1. TypeOK /\ PControl(r) /\ PProgress(r) /\ pc[r] = "close"
  BY Zenon, Parts DEF CloseSession
<1>2. /\ OthersStay(r) /\ UNCHANGED <<keys, issued, erased, op, cid, new, err>>
      /\ IF Final(r)
         THEN pc'[r] = "return" /\ stage' = stage /\ doomed' = doomed
         ELSE /\ pc'[r] = "lock" /\ stage'[r] = NextStage(r)
              /\ doomed' = IF stage'[r] = "del" THEN doomed \cup {cid[r]} ELSE doomed
  BY Zenon, <1>1, CloseSessionFacts
<1>3. CASE Final(r)
  <2>1. out'[r] = out[r] /\ seen'[r] = seen[r] /\ made'[r] = made[r]
    BY Zenon, <1>1, <1>2, <1>3, Shown DEF ShownAs
  <2> QED BY Zenon, <1>2, <1>3, <2>1, ShowsNot, RefStutter
<1>4. CASE ~Final(r)
  <2>1. /\ err[r] = "nil" /\ op[r] = "rotate" /\ stage[r] # "del" /\ stage[r] \in Stages
        /\ stage[r] = "read" => stage'[r] = "gen"
        /\ stage[r] # "read" => stage'[r] = "del"
        /\ pc'[r] = "lock"
    BY Zenon, <1>1, <1>2, <1>4 DEF Final, NextStage, TypeOK
  <2>2. /\ out[r] = "busy" /\ seen[r] = TRUE /\ made[r] = NoCID
        /\ out'[r] = "busy" /\ seen'[r] = TRUE
        /\ made'[r] = IF stage'[r] = "del" THEN new[r] ELSE NoCID
    <3>1. out[r] = "busy" /\ seen[r] = TRUE /\ made[r] = NoCID
      BY Zenon, <1>1, <1>4, Shown DEF ShownAs
    <3>2. out'[r] = "busy" /\ made'[r] = IF stage'[r] = "del" THEN new[r] ELSE NoCID
      BY Zenon, <1>2, <2>1, Shown DEF ShownAs
    <3>3. seen'[r] = TRUE
      <4>1. op'[r] = "rotate" /\ stage'[r] # "read" /\ pc'[r] \notin {"idle", "close", "return"}
        BY Zenon, <1>2, <2>1
      <4> QED BY Zenon, <4>1, Shown DEF ShownAs
    <3> QED BY Zenon, <3>1, <3>2, <3>3
  <2>3. CASE stage[r] = "read"
    <3>1. made'[r] = NoCID /\ doomed' = doomed
      BY Zenon, <1>2, <1>4, <2>1, <2>2, <2>3
    <3> QED BY Zenon, <1>2, <2>2, <3>1, ShowsNot, RefStutter
  <2>4. CASE stage[r] # "read"
    <3>1. stage[r] = "gen" /\ made'[r] = new[r] /\ doomed' = doomed \cup {cid[r]}
      BY Zenon, <1>2, <1>4, <2>1, <2>2, <2>4 DEF Stages
    <3>2. new[r] # NoCID
      BY Zenon, <1>1, <2>1 DEF PControl
    <3>3. KS!Unclaimed(new[r]) /\ new[r] \in CID
      BY Zenon, <2>2, <3>2, NewIsUnclaimed
    <3>4. new[r] \in keys
      BY Zenon, <1>1, <3>1, <3>2 DEF PProgress, Complete
    <3>5. keys' = keys \cup {new[r]}
      BY <1>2, <3>4
    <3>6. out' = out /\ seen' = seen /\ made' = [made EXCEPT ![r] = new[r]]
      <4>1. /\ out' = [out EXCEPT ![r] = out[r]] /\ seen' = [seen EXCEPT ![r] = seen[r]]
            /\ made' = [made EXCEPT ![r] = new[r]]
        BY Zenon, <1>2, <2>2, <3>1, ShowsAt
      <4> QED BY Zenon, <4>1 DEF out, seen
    <3>7. PICK n \in CID : n = new[r]
      BY Zenon, <3>3
    <3>8. KS!Renew(r, n)
      BY Zenon, <1>2, <2>1, <2>2, <3>1, <3>3, <3>5, <3>6, <3>7 DEF KS!Renew, KS!Unclaimed
    <3> QED BY Zenon, <2>2, <3>8 DEF KS!Next, KS!Proceed
  <2> QED BY Zenon, <2>3, <2>4
<1> QED BY Zenon, <1>3, <1>4

\* Generating and encrypting are not seen, or the method fails.
LEMMA RefGenerateKey ==
    ASSUME PInv, NEW r \in Request, GenerateKey(r) \/ GcmEncrypt(r)
    PROVE  KS!Next \/ UNCHANGED KS!vars
<1>1. /\ pc[r] \in {"generate", "encrypt"} /\ UNCHANGED <<keys, issued, doomed, erased>>
      /\ End(r, "err", "close") \/ \E l \in {"encrypt", "label", "undo"} : Goto(r, l)
  BY Zenon DEF GenerateKey, GcmEncrypt, tokenVars, histVars
<1>2. CASE End(r, "err", "close")
  BY Zenon, <1>1, <1>2, NothingLost, RefFail
<1>3. ASSUME NEW l \in {"encrypt", "label", "undo"}, Goto(r, l) PROVE UNCHANGED KS!vars
  BY Zenon, <1>1, <1>3, Hidden, RefStutter
<1> QED BY Zenon, <1>1, <1>2, <1>3

\* The label completes the artifact of GenerateAndEncrypt; that of Rotate, and
\* one that will be undone, is a key nobody was given yet.
LEMMA RefSetLabel ==
    ASSUME PInv, NEW r \in Request, SetLabel(r)
    PROVE  KS!Next \/ UNCHANGED KS!vars
<1>1. pc[r] = "label" /\ UNCHANGED <<issued, doomed, erased>>
  BY Zenon DEF SetLabel, histVars
<1>2. PControl(r) /\ stage[r] = "gen" /\ new[r] # NoCID /\ made[r] = NoCID
  BY Zenon, <1>1, InHandToMake, Shown DEF ShownAs
<1>3. PICK n \in CID : n = new[r] /\ KS!Unclaimed(new[r])
  BY Zenon, <1>2, NewIsUnclaimed
<1>4. KS!Unclaimed(n)
  BY Zenon, <1>3 DEF KS!Unclaimed
<1>5. CASE keys' = keys \cup {new[r]} /\ UNCHANGED <<op, cid, out, seen, made>>
  <2>1. KS!Stray(n)
    BY Zenon, <1>1, <1>3, <1>4, <1>5 DEF KS!Stray
  <2> QED BY Zenon, <2>1 DEF KS!Next
<1>6. CASE keys' = keys \cup {new[r]} /\ Goto(r, "undo")
  BY Zenon, <1>1, <1>5, <1>6, Hidden
<1>7. CASE keys' = keys /\ Goto(r, "undo")
  BY Zenon, <1>1, <1>7, Hidden, RefStutter
<1>8. CASE keys' = keys \cup {new[r]} /\ End(r, "nil", "close")
  <2>1. CASE op[r] = "rotate"
    <3>1. /\ OthersStay(r) /\ pc'[r] = "close" /\ err'[r] = "nil"
          /\ UNCHANGED <<op, stage, cid>>
      BY Zenon, <1>8, Parts, EndFacts
    <3>2. ~Final(r)'
      BY Zenon, <1>2, <2>1, <3>1 DEF Final
    <3>3. out'[r] = "busy" /\ seen'[r] = TRUE /\ made'[r] = NoCID
      BY Zenon, <3>1, <3>2, Shown DEF ShownAs
    <3>4. out[r] = "busy" /\ seen[r] = TRUE
      <4>1. /\ pc[r] \notin {"idle", "close", "return"}
            /\ (pc[r] \in {"attrs", "gcm"} \/ (op[r] = "rotate" /\ stage[r] # "read")) = TRUE
        BY Zenon, <1>1, <1>2, <2>1
      <4> QED BY Zenon, <4>1, Shown DEF ShownAs
    <3>5. UNCHANGED <<out, seen, made>>
      BY Zenon, <1>2, <3>1, <3>3, <3>4, ShowsNot
    <3> QED BY Zenon, <1>5, <1>8, <3>1, <3>5
  <2>2. CASE op[r] # "rotate"
    <3>1. /\ out[r] = "busy" /\ UNCHANGED <<op, cid>>
          /\ out' = [out EXCEPT ![r] = "nil"]
          /\ seen' = [seen EXCEPT ![r] = FALSE]
          /\ made' = [made EXCEPT ![r] = new[r]]
      BY Zenon, <1>1, <1>8, <2>2, Concludes
    <3>2. op[r] = "generate"
      BY Zenon, <1>2, <2>2 DEF PControl
    <3>3. KS!Generate(r, n)
      BY Zenon, <1>1, <1>3, <1>4, <1>8, <3>1, <3>2 DEF KS!Generate, KS!Conclude
    <3> QED BY Zenon, <3>1, <3>3 DEF KS!Next, KS!Proceed
  <2> QED BY Zenon, <2>1, <2>2
<1> QED BY Zenon, <1>6, <1>7, <1>8 DEF SetLabel, tokenVars

\* The object is destroyed, or not: the method fails.
LEMMA RefUndo ==
    ASSUME PInv, NEW r \in Request, Undo(r)
    PROVE  KS!Next
<1>1. /\ pc[r] = "undo" /\ End(r, "err", "close") /\ UNCHANGED <<issued, doomed, erased>>
      /\ keys' = keys \ {new[r]} \/ keys' = keys
  BY Zenon DEF Undo, tokenVars
<1>2. stage[r] = "gen" /\ new[r] # NoCID /\ made[r] = NoCID
  BY Zenon, <1>1, InHandToMake, Shown DEF ShownAs
<1>3. KS!Unclaimed(new[r]) /\ new[r] \in CID
  BY Zenon, <1>2, NewIsUnclaimed
<1>4. new[r] \in KS!Expendable
  <2>1. PICK n \in CID : n = new[r] /\ KS!Unclaimed(n)
    BY Zenon, <1>3 DEF KS!Unclaimed
  <2> QED BY Zenon, <2>1 DEF KS!Expendable
<1>5. KS!LoseSome
  BY <1>1, <1>4 DEF KS!LoseSome
<1> QED BY Zenon, <1>1, <1>5, RefFail

\* Looking for the key gets hold of it, or finds it gone, or fails.
LEMMA RefFindKey ==
    ASSUME PInv, NEW r \in Request, FindKey(r)
    PROVE  KS!Next \/ UNCHANGED KS!vars
<1>1. pc[r] = "find" /\ UNCHANGED <<keys, issued, doomed, erased>>
  BY Zenon DEF FindKey, tokenVars, histVars
<1>2. TypeOK /\ PControl(r) /\ PStored /\ LoggedIn(r)
  BY Zenon, Parts
<1>3. stage[r] \in {"read", "del"} /\ cid[r] \in issued /\ login[Home[r]]
  BY Zenon, <1>1, <1>2 DEF PControl, TypeOK, Stages, LoggedIn, Work
<1>4. /\ out[r] = "busy"
      /\ made[r] = IF op[r] = "rotate" /\ stage[r] = "del" THEN new[r] ELSE NoCID
  BY Zenon, <1>1, Shown DEF ShownAs
<1>5. CASE Visible(r) /\ stage[r] = "read" /\ Goto(r, "attrs")
  <2>1. OthersStay(r) /\ pc'[r] = "attrs" /\ UNCHANGED <<op, stage, cid, new, err>>
    BY Zenon, <1>2, <1>5, GotoFacts
  <2>2. out'[r] = out[r] /\ made'[r] = made[r]
    BY Zenon, <1>1, <1>4, <2>1, Shown DEF ShownAs
  <2>3. seen'[r] = TRUE
    BY Zenon, <2>1, Shown DEF ShownAs
  <2>4. /\ out' = [out EXCEPT ![r] = out[r]] /\ made' = [made EXCEPT ![r] = made[r]]
        /\ seen' = [seen EXCEPT ![r] = TRUE]
    BY Zenon, <2>1, <2>2, <2>3, ShowsAt
  <2>5. out' = out /\ made' = made
    BY Zenon, <2>4 DEF out, made
  <2>6. op[r] \in {"decrypt", "wrap", "rotate"} /\ cid[r] \in keys
    BY Zenon, <1>2, <1>5 DEF PControl, Visible
  <2>7. KS!See(r)
    BY Zenon, <1>1, <2>1, <2>4, <2>5, <2>6 DEF KS!See
  <2> QED BY Zenon, <1>4, <2>7 DEF KS!Next, KS!Proceed
<1>6. CASE Goto(r, "destroy")
  BY Zenon, <1>1, <1>6, Hidden, RefStutter
<1>7. CASE ~Visible(r) /\ stage[r] = "del" /\ End(r, "nil", "close")
  <2>1. /\ UNCHANGED <<op, cid, made>>
        /\ out' = [out EXCEPT ![r] = "nil"]
        /\ seen' = [seen EXCEPT ![r] = FALSE]
    <3>1. "nil" = "nil" /\ stage[r] # "gen"
      BY Zenon, <1>7
    <3> QED BY Zenon, <1>1, <1>7, <3>1, Concludes
  <2>2. op[r] \in {"delete", "rotate"} /\ (op[r] = "rotate" => made[r] # NoCID)
    BY Zenon, <1>1, <1>2, <1>4, <1>7 DEF PControl
  <2>3. keys' = keys \ {cid[r]}
    BY <1>1, <1>3, <1>7 DEF Visible
  <2>4. KS!Erase(r)
    BY Zenon, <1>1, <2>1, <2>2, <2>3 DEF KS!Erase, KS!Conclude
  <2> QED BY Zenon, <1>4, <2>4 DEF KS!Next, KS!Proceed
<1>8. CASE ~Visible(r) /\ stage[r] = "read" /\ End(r, "notfound", "close")
  <2>1. /\ UNCHANGED <<op, cid, made>>
        /\ out' = [out EXCEPT ![r] = "notfound"]
        /\ seen' = [seen EXCEPT ![r] = FALSE]
    BY Zenon, <1>1, <1>8, Concludes
  <2>2. op[r] \in {"decrypt", "wrap", "rotate"} /\ cid[r] \in doomed
    BY Zenon, <1>2, <1>3, <1>8 DEF PControl, PStored, Visible
  <2>3. KS!NotFound(r)
    BY Zenon, <1>1, <2>1, <2>2 DEF KS!NotFound, KS!Conclude
  <2> QED BY Zenon, <1>4, <2>3 DEF KS!Next, KS!Proceed
<1>9. CASE End(r, "err", "close")
  BY Zenon, <1>1, <1>9, NothingLost, RefFail
<1> QED BY Zenon, <1>3, <1>5, <1>6, <1>7, <1>8, <1>9 DEF FindKey

\* The caller of a method that has hold of the key is served, or not.
LEMMA RefServe ==
    ASSUME PInv, NEW r \in Request, pc[r] \in {"attrs", "gcm"}, op[r] # "rotate",
           End(r, "nil", "close"), UNCHANGED <<keys, issued, doomed, erased>>
    PROVE  KS!Next
<1>1. PControl(r) /\ stage[r] = "read"
  BY Zenon, Parts DEF PControl
<1>2. /\ out[r] = "busy" /\ UNCHANGED <<op, cid, made>>
      /\ out' = [out EXCEPT ![r] = "nil"]
      /\ seen' = [seen EXCEPT ![r] = FALSE]
  <2>1. stage[r] # "gen" /\ pc[r] \notin {"idle", "close", "return"}
    BY Zenon, <1>1
  <2> QED BY Zenon, <2>1, Concludes
<1>3. op[r] \in {"decrypt", "wrap"} /\ seen[r]
  BY Zenon, <1>1, Shown DEF PControl, ShownAs
<1>4. KS!Serve(r)
  BY Zenon, <1>2, <1>3 DEF KS!Serve, KS!Conclude
<1> QED BY Zenon, <1>2, <1>4 DEF KS!Next, KS!Proceed

\* GetAttributeValue.
LEMMA RefReadAttributes ==
    ASSUME PInv, NEW r \in Request, ReadAttributes(r)
    PROVE  KS!Next \/ UNCHANGED KS!vars
<1>1. pc[r] = "attrs" /\ UNCHANGED <<keys, issued, doomed, erased>>
  BY Zenon DEF ReadAttributes, tokenVars, histVars
<1>2. CASE op[r] = "wrap" /\ End(r, "nil", "close")
  BY Zenon, <1>1, <1>2, RefServe
<1>3. CASE Goto(r, "gcm")
  BY Zenon, <1>1, <1>3, Hidden, RefStutter
<1>4. CASE End(r, "err", "close")
  BY Zenon, <1>1, <1>4, NothingLost, RefFail
<1> QED BY Zenon, <1>2, <1>3, <1>4 DEF ReadAttributes

\* DecryptInit and Decrypt; Rotate goes on with what it decrypted.
LEMMA RefGcmDecrypt ==
    ASSUME PInv, NEW r \in Request, GcmDecrypt(r)
    PROVE  KS!Next \/ UNCHANGED KS!vars
<1>1. pc[r] = "gcm" /\ UNCHANGED <<keys, issued, doomed, erased>>
  BY Zenon DEF GcmDecrypt, tokenVars, histVars
<1>2. CASE End(r, "nil", "close") /\ op[r] # "rotate"
  BY Zenon, <1>1, <1>2, RefServe
<1>3. CASE End(r, "nil", "close") /\ op[r] = "rotate"
  <2>1. OthersStay(r) /\ pc'[r] = "close" /\ err'[r] = "nil" /\ UNCHANGED <<op, stage, cid>>
    BY Zenon, <1>3, Parts, EndFacts
  <2>2. stage[r] = "read"
    BY Zenon, <1>1, Parts DEF PControl
  <2>3. ~Final(r)'
    BY Zenon, <1>3, <2>1, <2>2 DEF Final
  <2>4. out'[r] = "busy" /\ seen'[r] = TRUE /\ made'[r] = NoCID
    BY Zenon, <2>1, <2>3, Shown DEF ShownAs
  <2>5. out[r] = "busy" /\ seen[r] = TRUE /\ made[r] = NoCID
    BY Zenon, <1>1, <2>2, Shown DEF ShownAs
  <2> QED BY Zenon, <1>1, <2>1, <2>4, <2>5, ShowsNot, RefStutter
<1>4. CASE End(r, "mismatch", "close")
  BY Zenon, <1>1, <1>4, NothingLost, RefFail
<1> QED BY Zenon, <1>2, <1>3, <1>4 DEF GcmDecrypt

\* DestroyObject erases the artifact, or fails.
LEMMA RefDestroyKey ==
    ASSUME PInv, NEW r \in Request, DestroyKey(r)
    PROVE  KS!Next
<1>1. pc[r] = "destroy" /\ UNCHANGED <<issued, doomed, erased>>
  BY Zenon DEF DestroyKey, histVars
<1>2. TypeOK /\ PControl(r) /\ PStored
  BY Zenon, Parts
<1>3. stage[r] = "del" /\ cid[r] \in doomed /\ cid[r] \in CID
  BY Zenon, <1>1, <1>2 DEF PControl, TypeOK
<1>4. /\ out[r] = "busy"
      /\ made[r] = IF op[r] = "rotate" THEN new[r] ELSE NoCID
  BY Zenon, <1>1, <1>3, Shown DEF ShownAs
<1>5. CASE keys' = keys \ {cid[r]} /\ End(r, "nil", "close")
  <2>1. /\ UNCHANGED <<op, cid, made>>
        /\ out' = [out EXCEPT ![r] = "nil"]
        /\ seen' = [seen EXCEPT ![r] = FALSE]
    <3>1. stage[r] # "gen" /\ pc[r] \notin {"idle", "close", "return"}
      BY Zenon, <1>1, <1>3
    <3> QED BY Zenon, <1>3, <1>5, <3>1, Concludes
  <2>2. op[r] \in {"delete", "rotate"} /\ (op[r] = "rotate" => made[r] # NoCID)
    BY Zenon, <1>1, <1>2, <1>3, <1>4 DEF PControl
  <2>3. KS!Erase(r)
    BY Zenon, <1>1, <1>5, <2>1, <2>2 DEF KS!Erase, KS!Conclude
  <2> QED BY Zenon, <1>4, <2>3 DEF KS!Next, KS!Proceed
<1>6. CASE (keys' = keys \ {cid[r]} \/ keys' = keys) /\ End(r, "err", "close")
  <2>1. cid[r] \in KS!Expendable
    BY Zenon, <1>3 DEF KS!Expendable
  <2>2. KS!LoseSome
    BY <1>6, <2>1 DEF KS!LoseSome
  <2> QED BY Zenon, <1>1, <1>6, <2>2, RefFail
<1> QED BY Zenon, <1>5, <1>6 DEF DestroyKey

\* A goroutine that is in no method shows nothing.
LEMMA IdleShows ==
    ASSUME PInv, NEW r \in Request, pc[r] = "idle"
    PROVE  /\ out[r] = "idle" /\ seen[r] = FALSE /\ made[r] = NoCID
           /\ new[r] = NoCID /\ cid[r] = NoCID /\ stage[r] = "read" /\ err[r] = "nil"
<1>1. op[r] = "decrypt" /\ PControl(r)
  BY Zenon, Parts DEF PControl
<1> QED BY Zenon, <1>1, Shown DEF ShownAs, PControl

\* A method begins.
LEMMA RefCall ==
    ASSUME PInv, NEW r \in Request, Call(r)
    PROVE  KS!Next
<1>1. TypeOK /\ pc[r] = "idle" /\ UNCHANGED <<keys, err, issued, erased>>
  BY Zenon, Parts DEF Call, tokenVars
<1>2. PICK o \in Methods, c \in issued \cup {NoCID} : \E n, s :
          /\ (c = NoCID) <=> (o = "generate")
          /\ pc' = [pc EXCEPT ![r] = "lock"]
          /\ op' = [op EXCEPT ![r] = o]
          /\ stage' = [stage EXCEPT ![r] = s]
          /\ cid' = [cid EXCEPT ![r] = c]
          /\ new' = [new EXCEPT ![r] = n]
          /\ doomed' = doomed \cup {d \in {c} : o = "delete"}
          /\ o = "rotate" => s = "read"
  <2>1. PICK o \in Methods, c \in issued \cup {NoCID}, n \in (CID \ used) \cup {NoCID} :
          /\ (c = NoCID) <=> (o = "generate")
          /\ pc' = [pc EXCEPT ![r] = "lock"]
          /\ op' = [op EXCEPT ![r] = o]
          /\ stage' = [stage EXCEPT ![r] = CASE o = "generate" -> "gen"
                                             [] o = "delete"   -> "del"
                                             [] OTHER          -> "read"]
          /\ cid' = [cid EXCEPT ![r] = c]
          /\ new' = [new EXCEPT ![r] = n]
          /\ doomed' = doomed \cup {d \in {c} : o = "delete"}
    BY Zenon DEF Call
  <2>2. PICK s : stage' = [stage EXCEPT ![r] = s] /\ (o = "rotate" => s = "read")
    BY <2>1
  <2> QED BY Zenon, <2>1, <2>2
<1>3. OthersStay(r) /\ pc'[r] = "lock" /\ op'[r] = o /\ (o = "rotate" => stage'[r] = "read")
  BY Zenon, <1>1, <1>2 DEF OthersStay, TypeOK
<1>4. out[r] = "idle" /\ seen[r] = FALSE /\ made[r] = NoCID
  BY Zenon, <1>1, IdleShows
<1>5. out'[r] = "busy" /\ made'[r] = made[r]
  BY Zenon, <1>2, <1>3, <1>4, Shown DEF ShownAs
<1>6. seen'[r] = seen[r]
  <2>1. seen'[r] = (pc'[r] \in {"attrs", "gcm"} \/ (op'[r] = "rotate" /\ stage'[r] # "read"))
    BY Zenon, <1>3, Shown DEF ShownAs
  <2>2. (pc'[r] \in {"attrs", "gcm"} \/ (op'[r] = "rotate" /\ stage'[r] # "read")) = FALSE
    BY Zenon, <1>2, <1>3
  <2> QED BY Zenon, <1>4, <2>1, <2>2
<1>7. out' = [out EXCEPT ![r] = "busy"] /\ seen' = seen /\ made' = made
  <2>1. /\ out' = [out EXCEPT ![r] = "busy"] /\ seen' = [seen EXCEPT ![r] = seen[r]]
        /\ made' = [made EXCEPT ![r] = made[r]]
    BY Zenon, <1>3, <1>5, <1>6, ShowsAt
  <2> QED BY Zenon, <2>1 DEF seen, made
<1>8. doomed' = IF o = "delete" THEN doomed \cup {c} ELSE doomed
  BY <1>2
<1>9. KS!Begin(r, o, c) /\ o \in KS!Methods
  BY Zenon, <1>1, <1>2, <1>7, <1>8 DEF KS!Begin, KS!Methods, Methods
<1> QED BY Zenon, <1>4, <1>9 DEF KS!Next, KS!Enter

\* A call is declined.
LEMMA RefReject ==
    ASSUME PInv, NEW r \in Request, Reject(r)
    PROVE  KS!Next
<1>1. /\ TypeOK /\ pc[r] = "idle" /\ UNCHANGED <<keys, stage, cid, new, issued, doomed, erased>>
      /\ pc' = [pc EXCEPT ![r] = "return"]
      /\ op' = [op EXCEPT ![r] = "wrap"]
      /\ err' = [err EXCEPT ![r] = "err"]
  BY Zenon, Parts DEF Reject, tokenVars, histVars
<1>2. OthersStay(r) /\ pc'[r] = "return" /\ op'[r] = "wrap" /\ err'[r] = "err"
  BY Zenon, <1>1 DEF OthersStay, TypeOK
<1>3. out[r] = "idle" /\ seen[r] = FALSE /\ made[r] = NoCID /\ new[r] = NoCID
  BY Zenon, <1>1, IdleShows
<1>4. out'[r] = "err" /\ seen'[r] = seen[r] /\ made'[r] = made[r]
  BY ZenonT(30), <1>1, <1>2, <1>3, Shown DEF ShownAs
<1>5. out' = [out EXCEPT ![r] = "err"] /\ seen' = seen /\ made' = made
  <2>1. /\ out' = [out EXCEPT ![r] = "err"] /\ seen' = [seen EXCEPT ![r] = seen[r]]
        /\ made' = [made EXCEPT ![r] = made[r]]
    BY Zenon, <1>2, <1>4, ShowsAt
  <2> QED BY Zenon, <2>1 DEF seen, made
<1>6. KS!Decline(r, "wrap")
  BY Zenon, <1>1, <1>5 DEF KS!Decline
<1> QED BY Zenon, <1>3, <1>6 DEF KS!Next, KS!Enter

\* Goroutines leave the key service with the methods they were in.
LEMMA RefLeave ==
    ASSUME TypeOK, NEW rs \in SUBSET Request, Leave(rs)
    PROVE  KS!Leave(rs)
<1>1. /\ op' = [r \in Request |-> IF r \in rs THEN "decrypt" ELSE op[r]]
      /\ cid' = [r \in Request |-> IF r \in rs THEN NoCID ELSE cid[r]]
  BY Zenon DEF Leave
<1>2. ASSUME NEW q \in Request
      PROVE  /\ seen'[q] = IF q \in rs THEN FALSE ELSE seen[q]
             /\ made'[q] = IF q \in rs THEN NoCID ELSE made[q]
             /\ out'[q] = IF q \in rs THEN "idle" ELSE out[q]
  <2>1. CASE q \in rs
    <3>1. pc'[q] = "idle" /\ op'[q] = "decrypt"
      BY <2>1, LeaveFacts
    <3> QED BY ZenonT(30), <2>1, <3>1, Shown DEF ShownAs
  <2>2. CASE q \notin rs
    <3>1. UNCHANGED <<pc[q], op[q], stage[q], cid[q], new[q], err[q]>>
      BY <2>2, LeaveFacts
    <3>2. Settled(q)' <=> Settled(q)
      BY Zenon, <3>1 DEF Settled, Final
    <3>3. out'[q] = out[q]
      BY Zenon, <3>1, <3>2 DEF out
    <3>4. seen'[q] = seen[q]
      BY Zenon, <3>1, <3>2 DEF seen
    <3>5. made'[q] = made[q]
      BY Zenon, <3>1, <3>2 DEF made
    <3> QED BY Zenon, <2>2, <3>3, <3>4, <3>5
  <2> QED BY Zenon, <2>1, <2>2
<1>3. /\ out' = [q \in Request |-> out'[q]] /\ seen' = [q \in Request |-> seen'[q]]
      /\ made' = [q \in Request |-> made'[q]]
  BY Zenon DEF out, seen, made
<1>4. seen' = [q \in Request |-> IF q \in rs THEN FALSE ELSE seen[q]]
  BY <1>2, <1>3
<1>5. made' = [q \in Request |-> IF q \in rs THEN NoCID ELSE made[q]]
  BY <1>2, <1>3
<1>6. out' = [q \in Request |-> IF q \in rs THEN "idle" ELSE out[q]]
  BY Zenon, <1>2, <1>3
<1> QED BY Zenon, <1>1, <1>4, <1>5, <1>6 DEF KS!Leave

\* A result is taken.
LEMMA RefReturn ==
    ASSUME PInv, NEW r \in Request, Return(r)
    PROVE  KS!Next
<1>1. /\ TypeOK /\ pc[r] = "return" /\ Leave({r}) /\ UNCHANGED <<keys, doomed>>
      /\ issued' = issued \cup ({new[r]} \ {NoCID})
      /\ erased' = erased \cup
           {c \in {cid[r]} : op[r] \in {"delete", "rotate"} /\ err[r] = "nil"}
  BY Zenon, Parts DEF Return, tokenVars
<1>2. made[r] = new[r] /\ out[r] = err[r]
  BY Zenon, <1>1, Shown DEF ShownAs
<1>3. out[r] \in KS!Errors
  BY <1>1, <1>2 DEF TypeOK, Errors, KS!Errors
<1>4. KS!Leave({r})
  BY ZenonT(30), <1>1, RefLeave
<1>5. KS!Return(r)
  BY <1>1, <1>2, <1>3, <1>4 DEF KS!Return
<1> QED BY Zenon, <1>5 DEF KS!Next

\* Closing a service is not seen; the calls in a process that dies are
\* abandoned.
LEMMA RefProcess ==
    ASSUME PInv, NEW p \in Process, Close(p) \/ Restart(p)
    PROVE  KS!Next \/ UNCHANGED KS!vars
<1>1. CASE Close(p)
  <2>1. UNCHANGED <<keys, pc, op, stage, cid, new, err, issued, doomed, erased>>
    BY Zenon, <1>1 DEF Close, tokenVars, callVars, histVars
  <2>2. UNCHANGED <<out, seen, made>>
    BY Zenon, <2>1 DEF out, seen, made, Settled, Final
  <2> QED BY Zenon, <2>1, <2>2, RefStutter
<1>2. CASE Restart(p)
  <2> DEFINE here == {r \in Request : Home[r] = p}
  <2>1. TypeOK /\ here \in SUBSET Request /\ Leave(here) /\ UNCHANGED <<keys, issued, doomed, erased>>
    BY Zenon, <1>2, Parts DEF Restart, tokenVars
  <2>2. KS!Leave(here)
    BY Zenon, <2>1, RefLeave
  <2>3. KS!Abandon(here)
    BY Zenon, <2>1, <2>2 DEF KS!Abandon
  <2> QED BY Zenon, <2>1, <2>3 DEF KS!Next
<1> QED BY Zenon, <1>1, <1>2

\* Every step is a step of the key service, or one its callers do not see.
LEMMA RefStep ==
    ASSUME PInv, [Next]_vars
    PROVE  [KS!Next]_KS!vars
<1>1. ASSUME NEW r \in Request, Step(r) PROVE KS!Next \/ UNCHANGED KS!vars
  BY Zenon, <1>1, RefOpen, RefCloseSession, RefGenerateKey, RefSetLabel, RefUndo, RefFindKey,
     RefReadAttributes, RefGcmDecrypt, RefDestroyKey DEF Step
<1>2. ASSUME NEW r \in Request, Call(r) \/ Reject(r) \/ Lock(r) \/ Return(r)
      PROVE  KS!Next \/ UNCHANGED KS!vars
  BY Zenon, <1>2, RefCall, RefReject, RefOpen, RefReturn
<1>3. CASE UNCHANGED vars
  <2>1. UNCHANGED <<keys, pc, op, stage, cid, new, err, issued, doomed, erased>>
    BY Zenon, <1>3 DEF vars, tokenVars, callVars, histVars
  <2>2. UNCHANGED <<out, seen, made>>
    BY Zenon, <2>1 DEF out, seen, made, Settled, Final
  <2> QED BY Zenon, <2>1, <2>2, RefStutter
<1> QED BY Zenon, <1>1, <1>2, <1>3, RefProcess DEF Next

\* PKCS11 is a key service, for any number of processes, goroutines, artifacts
\* and sessions: whatever other goroutines, other processes, a token that fails
\* and crashes do between the calls of a method, callers see what
\* artifact.ArtifactKeyService promises.
THEOREM PKCS11ImplementsKeyService == Spec => ImplementsKeyService
<1> USE DEF ImplementsKeyService
<1> QED BY PKCS11Invariant, RefInit, RefStep, PTL DEF Spec, KS!Spec

\* The key service again, with the theorems proved about it.
KSP == INSTANCE KeyServiceProofs WITH
    usable <- keys, seen <- seen, made <- made, out <- out

\* The two instances of the contract are one.
LEMMA SameService == KS!Spec => KSP!Spec
<1>1. KS!Init <=> KSP!Init
  BY DEF KS!Init, KSP!Init
<1>2. KS!Next <=> KSP!Next
  BY Zenon DEF KS!Next, KS!Enter, KS!Begin, KS!Decline, KS!Proceed, KS!See, KS!Serve, KS!Erase,
         KS!NotFound, KS!Renew, KS!Generate, KS!Fail, KS!Conclude, KS!LoseSome, KS!Expendable,
         KS!Unclaimed, KS!Return, KS!Stray, KS!Forget, KS!Abandon, KS!Leave, KS!Methods, KS!Errors,
         KSP!Next, KSP!Enter, KSP!Begin, KSP!Decline, KSP!Proceed, KSP!See, KSP!Serve, KSP!Erase,
         KSP!NotFound, KSP!Renew, KSP!Generate, KSP!Fail, KSP!Conclude, KSP!LoseSome,
         KSP!Expendable, KSP!Unclaimed, KSP!Return, KSP!Stray, KSP!Forget, KSP!Abandon, KSP!Leave,
         KSP!Methods, KSP!Errors
<1>3. [KS!Next]_KS!vars <=> [KSP!Next]_KSP!vars
  BY <1>2 DEF KS!vars, KSP!vars
<1> QED BY <1>1, <1>3, PTL DEF KS!Spec, KSP!Spec

\* What the contract gives, for a token: an artifact's key object lasts until
\* somebody begins to delete it, never comes back once its deletion was
\* reported, ErrKeyNotFound is honest and no two callers get one artifact.
THEOREM PKCS11KeepsPromises ==
    Spec => [](KS!KeysLast /\ KS!ErasureLasts /\ KS!NotFoundIsHonest /\ KS!ResultsAreFresh)
<1>1. KSP!Spec => [](KSP!KeysLast /\ KSP!ErasureLasts /\ KSP!NotFoundIsHonest
                     /\ KSP!ResultsAreFresh)
  BY KSP!ServicePromises
<1>2. KSP!KeysLast /\ KSP!ErasureLasts /\ KSP!NotFoundIsHonest /\ KSP!ResultsAreFresh
      => KS!KeysLast /\ KS!ErasureLasts /\ KS!NotFoundIsHonest /\ KS!ResultsAreFresh
  BY Zenon DEF KS!KeysLast, KS!ErasureLasts, KS!NotFoundIsHonest, KS!ResultsAreFresh,
         KSP!KeysLast, KSP!ErasureLasts, KSP!NotFoundIsHonest, KSP!ResultsAreFresh
<1> QED BY <1>1, <1>2, SameService, PKCS11ImplementsKeyService, PTL DEF ImplementsKeyService
=============================================================================
