----------------------- MODULE ServerLifecycleProofs -----------------------
(***************************************************************************)
(* What is proved of a life of the server process, for every environment.  *)
(***************************************************************************)
EXTENDS ServerLifecycle, OperatorKeysProofs

\* A verifier is built that has keys, from one source, or none when
\* buildUploadTokenVerifier's policy is off.
LEMMA VerifierBuilt ==
    ASSUME NEW c, buildUploadTokenVerifier(c).ok, c.policy # "off"
    PROVE  /\ buildUploadTokenVerifier(c).keys # NoKeys
           /\ Text(c.inline) = <<>> <=> c.dir.path # ""
<1>1. ~LoadError.ok
  BY DEF LoadError
<1> QED BY <1>1 DEF buildUploadTokenVerifier

\* The keys of the verifier it builds are keys.
LEMMA BuiltAreKeys ==
    ASSUME NEW c
    PROVE  \A kid \in DOMAIN buildUploadTokenVerifier(c).keys :
              buildUploadTokenVerifier(c).keys[kid] \in KeyTexts
<1>1. /\ Loaded(NoKeys).keys = NoKeys
      /\ LoadError.keys = NoKeys
      /\ DOMAIN NoKeys = {}
  BY DEF LoadError, NoKeys, Loaded
<1> QED BY <1>1, LoadedAreKeys DEF buildUploadTokenVerifier

\* buildUploadTokenVerifier answers with keys or with an error.
LEMMA BuiltOrNot ==
    ASSUME NEW c
    PROVE  buildUploadTokenVerifier(c).ok \in BOOLEAN
<1>1. /\ LoadError.ok = FALSE
      /\ \A k : Loaded(k).ok = TRUE
  BY DEF LoadError, Loaded
<1>2. \A spec : parseInlinePubKeys(spec).ok \in BOOLEAN
  BY Zenon, <1>1 DEF parseInlinePubKeys
<1>3. \A dir : loadPubKeysDir(dir).ok \in BOOLEAN
  BY Zenon, <1>1 DEF loadPubKeysDir
<1> QED BY <1>1, <1>2, <1>3 DEF buildUploadTokenVerifier

\* LoadConfig's repairs and defaults: bodies have a bound, and only a text
\* that says so turns VerifyOnPush or the check of tokens off.
LEMMA LoadedConfig ==
    ASSUME NEW e
    PROVE  /\ LoadConfig(e).maxBody > 0
           /\ ~LoadConfig(e).verify
              => e.verify \in {"0", "f", "F", "FALSE", "false", "False"}
           /\ LoadConfig(e).policy = "off" => e.policy \in {"", "off"}
<1>1. envParsed(ParseInt, e.maxBody, DefaultMaxBody) \in Int
  BY ConfigAssumption DEF envParsed, ParseInt
<1>2. LoadConfig(e).maxBody = clampMaxBody(envParsed(ParseInt, e.maxBody, DefaultMaxBody))
  BY DEF LoadConfig
<1>3. LoadConfig(e).maxBody > 0
  BY <1>1, <1>2, ConfigAssumption DEF clampMaxBody
<1>4. LoadConfig(e).verify = envParsed(ParseBool, e.verify, TRUE)
  BY DEF LoadConfig
<1>5. ~LoadConfig(e).verify => e.verify \in {"0", "f", "F", "FALSE", "false", "False"}
  <2> DEFINE yes == {"1", "t", "T", "TRUE", "true", "True"}
             no == {"0", "f", "F", "FALSE", "false", "False"}
  <2> HIDE DEF yes, no
  <2>1. ParseBool = [text \in yes \cup no |-> text \in yes]
    BY Zenon DEF ParseBool, yes, no
  <2>2. ~envParsed(ParseBool, e.verify, TRUE) => e.verify \in no
    BY Zenon, <2>1 DEF envParsed
  <2> QED BY Zenon, <1>4, <2>2 DEF no
<1>6. LoadConfig(e).policy = "off" => e.policy \in {"", "off"}
  BY DEF LoadConfig, envOrDefault
<1> QED BY <1>3, <1>5, <1>6

\* The variables that LoadConfig takes as they are, and the key service that it
\* makes of an empty text.
LEMMA TakenConfig ==
    ASSUME NEW e
    PROVE  /\ LoadConfig(e).mirror = e.mirror
           /\ LoadConfig(e).inline = e.inline /\ LoadConfig(e).dir = e.dir
           /\ LoadConfig(e).token = e.token
           /\ LoadConfig(e).kek = e.kek /\ LoadConfig(e).project = e.project
           /\ LoadConfig(e).label = e.label /\ LoadConfig(e).pin = e.pin
           /\ e.keyservice \in {"", "vault"} => LoadConfig(e).keyservice = "vault"
           /\ e.keyservice \in {"gcpkms", "pkcs11"}
              => LoadConfig(e).keyservice = e.keyservice
BY DEF LoadConfig, envOrDefault

-----------------------------------------------------------------------------
(* The invariant *)

\* What each stage of the startup has made sure of when main is past it.
CheckedAt(s) ==
    /\ s \in {"warn", "verifier", "backend", "keyservice", "listen", "bind", "serving"}
       => cfg.mirror \in {"", "gcs", "rustfs"}
    /\ s \in {"backend", "keyservice", "listen", "bind", "serving"}
       => /\ verifier = "built" <=> cfg.policy # "off"
          /\ verifier = "built" => /\ keys # NoKeys
                                  /\ Text(cfg.inline) = <<>> <=> cfg.dir.path # ""
    /\ s \in {"listen", "bind", "serving"}
       => /\ cfg.keyservice = "vault" => cfg.token # ""
          /\ cfg.keyservice = "gcpkms" => cfg.kek \in KEKNames /\ cfg.project # ""
          /\ cfg.keyservice = "pkcs11" => cfg.label # "" /\ cfg.pin # ""

\* Requests are taken only while main is in ListenAndServe.
LifecycleInv ==
    /\ TypeOK
    /\ CheckedAt(stage)
    /\ listener = "open" => stage = "serving"
    /\ stage \notin {"serving", "exited"} => \A r \in Request : request[r] = "new"
    /\ (\E r \in Request : request[r] # "new") => CheckedAt("serving")

\* A step that leaves the environment and the verifier alone keeps what was
\* checked.
LEMMA CheckedStays ==
    ASSUME NEW s, CheckedAt(s), UNCHANGED <<environ, verifier, keys>>
    PROVE  CheckedAt(s)'
BY DEF CheckedAt, cfg

\* No request has come when main is still in its startup.
LEMMA ExitKeepsRequests ==
    ASSUME TypeOK, Exit
    PROVE  /\ request' \in [Request -> {"new", "active", "answered", "cut"}]
           /\ \A r \in Request : request'[r] = "new" <=> request[r] = "new"
BY DEF TypeOK, Exit

\* The invariant holds initially.
LEMMA LifecycleInit == Init => LifecycleInv
<1> SUFFICES ASSUME Init PROVE LifecycleInv
  OBVIOUS
<1>0. DOMAIN NoKeys = {}
  BY DEF NoKeys
<1>1. 0 \in 0..2
  OBVIOUS
<1>2. request \in [Request -> {"new", "active", "answered", "cut"}]
  BY DEF Init
<1>3. stage \in Stages /\ failed \in Stages \cup {""} /\ verifier \in {"none", "built"}
  BY DEF Init, Stages
<1>4. TypeOK
  BY <1>0, <1>1, <1>2, <1>3, Zenon DEF Init, TypeOK
<1> QED BY <1>4 DEF Init, LifecycleInv, CheckedAt

\* One startup stage: what it checks holds when main goes on.
LEMMA StageKeeps ==
    ASSUME LifecycleInv, NEW s \in Stages \ {"serving", "exited"}, NEW ok \in BOOLEAN,
           NEW next \in Stages \ {"serving", "exited"},
           Stage(s, ok, next), ok => CheckedAt(next)',
           \A kid \in DOMAIN keys' : keys'[kid] \in KeyTexts,
           verifier' \in {"none", "built"},
           watchdog' \in {"none", "ticking", "stopped"}, warnings' \in 0..2
    PROVE  LifecycleInv'
<1>1. UNCHANGED <<environ, shutdown, timedOut>> /\ stage = s
  BY DEF Stage
<1>0. TypeOK /\ \A r \in Request : request[r] = "new"
  BY <1>1 DEF LifecycleInv
<1>2. CASE ok
  <2>1. stage' = next /\ UNCHANGED <<failed, listener, ctxDone, request>>
    BY <1>2 DEF Stage
  <2>2. TypeOK'
    BY Zenon, <1>0, <1>1, <2>1 DEF TypeOK
  <2> QED BY <1>0, <1>1, <1>2, <2>1, <2>2 DEF LifecycleInv
<1>3. CASE ~ok
  <2>1. Exit /\ failed' = s
    BY <1>3 DEF Stage
  <2>2. TypeOK'
    BY Zenon, <1>0, <1>1, <2>1, ExitKeepsRequests DEF TypeOK, Exit, Stages
  <2>3. CheckedAt("exited")'
    BY DEF CheckedAt
  <2> QED BY <1>0, <2>1, <2>2, <2>3, ExitKeepsRequests DEF LifecycleInv, Exit
<1> QED BY <1>2, <1>3

\* The end of the process after its startup.
LEMMA ExitKeeps ==
    ASSUME LifecycleInv, Exit, failed' \in Stages \cup {""},
           UNCHANGED <<environ, verifier, keys, shutdown, timedOut, watchdog, warnings>>
    PROVE  LifecycleInv'
<1>1. TypeOK'
  BY Zenon, ExitKeepsRequests DEF LifecycleInv, TypeOK, Exit, Stages
<1>2. CheckedAt("exited")'
  BY DEF CheckedAt
<1>3. (\E r \in Request : request[r] # "new")' => CheckedAt("serving")'
  BY ExitKeepsRequests, CheckedStays DEF LifecycleInv
<1> QED BY <1>1, <1>2, <1>3 DEF LifecycleInv, Exit

\* Every step of main, of its goroutines and of its requests keeps the
\* invariant.
LEMMA LifecycleStep == LifecycleInv /\ [Next]_vars => LifecycleInv'
<1> SUFFICES ASSUME LifecycleInv, [Next]_vars PROVE LifecycleInv'
  OBVIOUS
<1>0. TypeOK
  BY DEF LifecycleInv
<1>1. CASE Load
  <2>1. validate(cfg) \in BOOLEAN /\ (validate(cfg) => CheckedAt("warn"))
    BY DEF validate, CheckedAt
  <2>2. Stage("load", validate(cfg), "warn") /\ UNCHANGED <<environ, verifier, keys>>
    BY <1>1 DEF Load, Stage
  <2>3. validate(cfg) => CheckedAt("warn")'
    BY <2>1, <2>2, CheckedStays
  <2> QED BY <1>0, <1>1, <2>1, <2>2, <2>3, StageKeeps DEF Load, Stages, TypeOK
<1>2. CASE runVerifyOnPushWatchdog
  <2>1. stage = "warn" /\ Stage("warn", TRUE, "verifier") /\ UNCHANGED <<environ, verifier, keys>>
    BY <1>2 DEF runVerifyOnPushWatchdog, Stage
  <2>2. watchdog' \in {"none", "ticking", "stopped"} /\ warnings' \in 0..2
    BY <1>2 DEF runVerifyOnPushWatchdog
  <2>3. CheckedAt("verifier")
    BY <2>1 DEF CheckedAt, LifecycleInv
  <2>4. CheckedAt("verifier")'
    BY <2>1, <2>3, CheckedStays
  <2> QED BY <1>0, <2>1, <2>2, <2>4, StageKeeps DEF Stages, TypeOK
<1>3. CASE BuildVerifier
  <2> DEFINE built == buildUploadTokenVerifier(cfg)
  <2>1. /\ Stage("verifier", built.ok, "backend")
        /\ verifier' = IF built.ok /\ cfg.policy # "off" THEN "built" ELSE "none"
        /\ keys' = built.keys
        /\ UNCHANGED <<watchdog, warnings>>
    BY <1>3 DEF BuildVerifier
  <2>2. stage = "verifier" /\ cfg' = cfg
    BY <2>1 DEF Stage, cfg
  <2>3. \A kid \in DOMAIN keys' : keys'[kid] \in KeyTexts
    BY <2>1, BuiltAreKeys
  <2>4. built.ok /\ cfg.policy # "off"
        => built.keys # NoKeys /\ (Text(cfg.inline) = <<>> <=> cfg.dir.path # "")
    BY VerifierBuilt
  <2>5. built.ok \in BOOLEAN
    BY BuiltOrNot
  <2>6. cfg.mirror \in {"", "gcs", "rustfs"}
    BY <2>2 DEF LifecycleInv, CheckedAt
  <2>7. environ' = environ
    BY <2>1 DEF Stage
  <2> DEFINE single == Text(cfg.inline) = <<>> <=> cfg.dir.path # ""
  <2>8. single' <=> single
    BY <2>7, Zenon DEF cfg
  <2> HIDE DEF built
  <2>9. built.ok => CheckedAt("backend")'
    <3> SUFFICES ASSUME built.ok PROVE CheckedAt("backend")'
      OBVIOUS
    <3>1. /\ verifier' = "built" <=> cfg'.policy # "off"
          /\ verifier' = "built" => keys' # NoKeys /\ single'
      BY <2>1, <2>2, <2>4, <2>8
    <3>2. cfg'.mirror \in {"", "gcs", "rustfs"}
      BY <2>2, <2>6
    <3> QED BY <3>1, <3>2 DEF CheckedAt
  <2> QED BY <1>0, <2>1, <2>3, <2>5, <2>9, StageKeeps DEF Stages, TypeOK
<1>4. CASE InitBackend
  <2> DEFINE ok == /\ cfg.backend \in {"gcs", "rustfs", "memory"}
                   /\ cfg.mirror \in {"", "gcs", "rustfs", "memory"}
  <2>1. stage = "backend" /\ Stage("backend", ok, "keyservice") /\ UNCHANGED <<environ, verifier, keys>>
    BY <1>4 DEF InitBackend, Stage
  <2>2. CheckedAt("keyservice")
    BY <2>1 DEF CheckedAt, LifecycleInv
  <2>3. CheckedAt("keyservice")'
    BY <2>1, <2>2, CheckedStays
  <2>4. ok \in BOOLEAN
    OBVIOUS
  <2> HIDE DEF ok
  <2> QED BY <1>0, <1>4, <2>1, <2>3, <2>4, StageKeeps DEF Stages, TypeOK, InitBackend
<1>5. CASE InitKeyService
  <2>1. PICK ok \in CASE cfg.keyservice = "memory" -> {TRUE}
                      [] cfg.keyservice = "vault"  -> NewVaultTransit(cfg)
                      [] cfg.keyservice = "gcpkms" -> NewGCPKMS(cfg)
                      [] cfg.keyservice = "pkcs11" -> NewPKCS11(cfg)
                      [] OTHER                     -> {FALSE} :
             Stage("keyservice", ok, "listen")
    BY Zenon, <1>5 DEF InitKeyService
  <2>2. stage = "keyservice" /\ UNCHANGED <<environ, verifier, keys, watchdog, warnings>>
    BY <1>5, <2>1 DEF InitKeyService, Stage
  <2>3. /\ ok \in BOOLEAN
        /\ ok => /\ cfg.keyservice = "vault" => cfg.token # ""
                 /\ cfg.keyservice = "gcpkms" => cfg.kek \in KEKNames /\ cfg.project # ""
                 /\ cfg.keyservice = "pkcs11" => cfg.label # "" /\ cfg.pin # ""
    BY <2>1 DEF NewVaultTransit, NewGCPKMS, NewPKCS11
  <2>4. ok => CheckedAt("listen")
    BY <2>2, <2>3 DEF CheckedAt, LifecycleInv
  <2>5. ok => CheckedAt("listen")'
    BY <2>2, <2>4, CheckedStays
  <2> QED BY <1>0, <2>1, <2>2, <2>3, <2>5, StageKeeps DEF Stages, TypeOK
<1>6. CASE AwaitSignal
  <2>1. CheckedAt("listen") => CheckedAt("bind")
    BY DEF CheckedAt
  <2>2. CheckedAt("bind")'
    BY Zenon, <1>6, <2>1, CheckedStays DEF AwaitSignal, LifecycleInv
  <2>3. TypeOK'
    BY Zenon, <1>0, <1>6 DEF AwaitSignal, TypeOK, Stages
  <2> QED BY <1>6, <2>2, <2>3 DEF AwaitSignal, LifecycleInv
<1>7. CASE Listen
  <2>1. CASE Exit /\ failed' = "bind"
    BY <1>7, <2>1, ExitKeeps DEF Listen, Stages
  <2>2. CASE stage' = "serving" /\ listener' = "open" /\ UNCHANGED <<failed, ctxDone, request>>
    <3>1. CheckedAt("bind") => CheckedAt("serving")
      BY DEF CheckedAt
    <3>2. CheckedAt("serving")'
      BY Zenon, <1>7, <3>1, CheckedStays DEF Listen, LifecycleInv
    <3>3. UNCHANGED <<verifier, keys, shutdown, timedOut, watchdog, warnings>>
      BY <1>7 DEF Listen
    <3>4. TypeOK'
      BY Zenon, <1>0, <2>2, <3>3 DEF TypeOK, Stages
    <3> QED BY <2>2, <3>2, <3>4 DEF LifecycleInv
  <2> QED BY <1>7, <2>1, <2>2 DEF Listen
<1>8. ASSUME NEW r \in Request, Accept(r) PROVE LifecycleInv'
  <2>1. TypeOK'
    BY Zenon, <1>0, <1>8 DEF Accept, TypeOK
  <2>2. stage = "serving" /\ stage' = stage /\ listener' = listener
    BY <1>8 DEF Accept, LifecycleInv
  <2>3. CheckedAt("serving")'
    BY <1>8, <2>2, CheckedStays DEF Accept, LifecycleInv
  <2> QED BY <2>1, <2>2, <2>3 DEF LifecycleInv
<1>9. ASSUME NEW r \in Request, Respond(r) PROVE LifecycleInv'
  <2>1. TypeOK'
    BY Zenon, <1>0, <1>9 DEF Respond, TypeOK
  <2>2. stage' = stage /\ listener' = listener /\ request[r] = "active"
    BY <1>9 DEF Respond
  <2>3. CheckedAt(stage)' /\ CheckedAt("serving")'
    BY <1>9, <2>2, CheckedStays DEF Respond, LifecycleInv
  <2> QED BY <2>1, <2>2, <2>3 DEF LifecycleInv
<1>10. CASE MainReturns
  BY <1>0, <1>10, ExitKeeps DEF MainReturns, TypeOK
<1>11. CASE ListenerFails
  BY <1>11, ExitKeeps DEF ListenerFails, Stages
<1>12. CASE Signal \/ ShutdownTimeout \/ ShutdownReturns \/ WatchdogTicks \/ WatchdogStops \/ UNCHANGED vars
  <2>1. /\ UNCHANGED <<environ, verifier, keys, stage, request>>
        /\ listener' \in {listener, "closed"}
    BY <1>12 DEF Signal, ShutdownTimeout, ShutdownReturns, WatchdogTicks, WatchdogStops, vars
  <2>2. /\ UNCHANGED failed
        /\ shutdown' \in {"none", "waiting", "draining", "done"}
        /\ timedOut' \in BOOLEAN /\ ctxDone' \in BOOLEAN
        /\ watchdog' \in {"none", "ticking", "stopped"}
    BY Zenon, <1>0, <1>12 DEF Signal, ShutdownTimeout, ShutdownReturns, WatchdogTicks,
                       WatchdogStops, vars, TypeOK
  <2>3. UNCHANGED warnings \/ (warnings < 2 /\ warnings' = warnings + 1)
    BY <1>12 DEF Signal, ShutdownTimeout, ShutdownReturns, WatchdogTicks,
                 WatchdogStops, vars
  <2>4. TypeOK'
    <3>1. warnings \in 0..2
      BY <1>0 DEF TypeOK
    <3>2. warnings' \in 0..2
      BY <2>3, <3>1
    <3>3. listener' \in {"new", "open", "closed"}
      BY <1>0, <2>1 DEF TypeOK
    <3> QED BY <1>0, <2>1, <2>2, <3>2, <3>3, Zenon DEF TypeOK
  <2>5. CheckedAt(stage)' /\ (CheckedAt("serving") => CheckedAt("serving")')
    BY <2>1, CheckedStays DEF LifecycleInv
  <2> QED BY <2>1, <2>4, <2>5 DEF LifecycleInv
<1> QED BY <1>1, <1>2, <1>3, <1>4, <1>5, <1>6, <1>7, <1>8, <1>9, <1>10, <1>11, <1>12 DEF Next

\* main's startup and its shutdown keep the types of its state, and the keys
\* a verifier is built with are keys.
THEOREM LifecycleTypes == Spec => []TypeOK
<1>1. LifecycleInv => TypeOK
  BY DEF LifecycleInv
<1> QED BY <1>1, LifecycleInit, LifecycleStep, PTL DEF Spec

\* Whatever the environment, config.Load, buildUploadTokenVerifier, the
\* constructors and the order main calls them in let no request be taken by a
\* server that is less strict than the environment says, or half configured.
THEOREM OnlySoundServersServe == Spec => []ServesOnlyIfSound
<1>1. LifecycleInv => ServesOnlyIfSound
  <2> SUFFICES ASSUME LifecycleInv, NEW r \in Request, request[r] # "new"
               PROVE  ServesOnlyIfSound
    BY DEF ServesOnlyIfSound
  <2>1. CheckedAt("serving") /\ verifier \in {"none", "built"}
    BY DEF LifecycleInv, TypeOK
  <2>2. /\ verifier = "none" => cfg.policy = "off"
        /\ verifier = "built" => /\ keys # NoKeys
                                /\ Text(cfg.inline) = <<>> <=> cfg.dir.path # ""
        /\ cfg.mirror \in {"", "gcs", "rustfs"}
        /\ cfg.keyservice = "vault" => cfg.token # ""
        /\ cfg.keyservice = "gcpkms" => cfg.kek \in KEKNames /\ cfg.project # ""
        /\ cfg.keyservice = "pkcs11" => cfg.label # "" /\ cfg.pin # ""
    BY <2>1 DEF CheckedAt
  <2>3. /\ cfg.maxBody > 0
        /\ ~cfg.verify => environ.verify \in {"0", "f", "F", "FALSE", "false", "False"}
        /\ cfg.policy = "off" => environ.policy \in {"", "off"}
    BY Zenon, LoadedConfig DEF cfg
  <2>4. /\ cfg.mirror = environ.mirror
        /\ cfg.inline = environ.inline /\ cfg.dir = environ.dir
        /\ cfg.token = environ.token
        /\ cfg.kek = environ.kek /\ cfg.project = environ.project
        /\ cfg.label = environ.label /\ cfg.pin = environ.pin
        /\ environ.keyservice \in {"", "vault"} => cfg.keyservice = "vault"
        /\ environ.keyservice \in {"gcpkms", "pkcs11"} => cfg.keyservice = environ.keyservice
    BY Zenon, TakenConfig DEF cfg
  <2> QED BY <2>2, <2>3, <2>4, Zenon DEF ServesOnlyIfSound
<1> QED BY <1>1, LifecycleInit, LifecycleStep, PTL DEF Spec

-----------------------------------------------------------------------------
(* The keys *)

\* config.validate refuses the policies that buildUploadTokenVerifier does not
\* know.
LEMMA PolicyKnown == validate(cfg) => cfg.policy \in {"off", "optional", "required"}
BY DEF validate

\* LoadConfig takes ARTIFACT_OPERATOR_PUBKEYS as it is.
LEMMA InlineTaken ==
    ASSUME environ \in Environments
    PROVE  cfg.inline \in KeyList
<1>1. cfg.inline = environ.inline
  BY DEF cfg, LoadConfig
<1> QED BY <1>1, EnvironmentsAssumption

\* buildUploadTokenVerifier answers with the keys of a list, or with an error
\* if the list has one or no keys.
LEMMA BuiltFromList ==
    ASSUME NEW c, c.inline \in KeyList, Text(c.inline) # <<>>, c.dir.path = "",
           c.policy \in {"optional", "required"}
    PROVE  LET built == buildUploadTokenVerifier(c)
               listed == Listed(c.inline)
           IN  /\ built.ok => listed.ok /\ built.keys = listed.keys
               /\ ~built.ok => ~listed.ok \/ listed.keys = NoKeys
<1>1. parseInlinePubKeys(Text(c.inline)) = Listed(c.inline)
  BY InlineKeysAreParsed
<1>2. ~LoadError.ok /\ c.policy # "off"
  BY DEF LoadError
<1> DEFINE listed == Listed(c.inline)
<1>3. buildUploadTokenVerifier(c) =
          IF ~listed.ok \/ listed.keys = NoKeys THEN LoadError ELSE listed
  BY <1>1, <1>2, Zenon DEF buildUploadTokenVerifier
<1> HIDE DEF listed
<1>4. LET built == buildUploadTokenVerifier(c)
      IN  /\ built.ok => listed.ok /\ built.keys = listed.keys
          /\ ~built.ok => ~listed.ok \/ listed.keys = NoKeys
  BY <1>2, <1>3
<1> QED BY <1>4 DEF listed

\* There is no verifier, and no error of its making, before main makes it; and
\* it is made for a policy that is known.
KeysInv ==
    /\ environ \in Environments
    /\ stage \in {"load", "warn", "verifier"} => verifier = "none" /\ failed = ""
    /\ stage \in {"warn", "verifier"} => cfg.policy \in {"off", "optional", "required"}
    /\ KeysAreThoseListed

\* It is so initially.
LEMMA KeysInit == Init => KeysInv
BY DEF Init, KeysInv, KeysAreThoseListed

\* Steps that have nothing to do with the verifier leave it as it was made.
LEMMA KeysStay ==
    ASSUME KeysInv, UNCHANGED <<environ, verifier, keys>>,
           failed' \in {failed} \cup (Stages \ {"verifier"})
    PROVE  KeysAreThoseListed' /\ environ' \in Environments /\ cfg' = cfg
BY DEF KeysInv, KeysAreThoseListed, cfg, Stages

\* Every step keeps it: BuildVerifier by what buildUploadTokenVerifier answers,
\* the others since they leave the verifier alone.
LEMMA KeysStep == KeysInv /\ [Next]_vars => KeysInv'
<1> SUFFICES ASSUME KeysInv, [Next]_vars PROVE KeysInv'
  OBVIOUS
<1>1. CASE Load
  <2>1. /\ UNCHANGED <<environ, verifier, keys>> /\ stage = "load"
        /\ failed' \in {failed, "load"}
        /\ stage' \in {"warn", "exited"}
        /\ stage' = "warn" => validate(cfg) /\ failed' = failed
    BY <1>1, Zenon DEF Load, Stage, Exit
  <2> QED BY <2>1, PolicyKnown, KeysStay DEF KeysInv, Stages
<1>2. CASE runVerifyOnPushWatchdog
  <2>1. /\ UNCHANGED <<environ, verifier, keys, failed>>
        /\ stage = "warn" /\ stage' = "verifier"
    BY <1>2 DEF runVerifyOnPushWatchdog, Stage
  <2> QED BY <2>1, KeysStay DEF KeysInv
<1>3. CASE BuildVerifier
  <2> DEFINE built == buildUploadTokenVerifier(cfg)
  <2>1. /\ stage = "verifier" /\ UNCHANGED environ
        /\ verifier' = IF built.ok /\ cfg.policy # "off" THEN "built" ELSE "none"
        /\ keys' = built.keys
        /\ stage' \in {"backend", "exited"}
        /\ failed' = IF built.ok THEN failed ELSE "verifier"
    BY <1>3 DEF BuildVerifier, Stage, Exit
  <2>2. cfg' = cfg
    BY <2>1 DEF cfg
  <2>3. cfg.policy = "off" => built.ok
    BY DEF buildUploadTokenVerifier, Loaded
  <2>4. Text(cfg.inline) # <<>> /\ cfg.dir.path = "" /\ cfg.policy # "off" =>
            LET listed == Listed(cfg.inline)
            IN  /\ built.ok => listed.ok /\ built.keys = listed.keys
                /\ ~built.ok => ~listed.ok \/ listed.keys = NoKeys
    BY <2>1, InlineTaken, BuiltFromList DEF KeysInv
  <2>5. failed = ""
    BY <2>1 DEF KeysInv
  <2> HIDE DEF built
  <2>6. KeysAreThoseListed'
    BY <2>1, <2>2, <2>3, <2>4, <2>5 DEF KeysAreThoseListed
  <2> QED BY <2>1, <2>6 DEF KeysInv
<1>4. CASE \/ InitBackend \/ InitKeyService \/ AwaitSignal \/ Listen
           \/ MainReturns \/ ListenerFails
  <2>1. /\ UNCHANGED <<environ, verifier, keys>>
        /\ failed' \in {failed, "backend", "keyservice", "bind", "serving"}
        /\ stage' \in {"keyservice", "listen", "bind", "serving", "exited"}
    BY <1>4 DEF InitBackend, InitKeyService, AwaitSignal, Listen, MainReturns, ListenerFails,
                Stage, Exit
  <2> QED BY <2>1, KeysStay DEF KeysInv, Stages
<1>5. CASE \/ \E r \in Request : Accept(r) \/ Respond(r)
           \/ Signal \/ ShutdownTimeout \/ ShutdownReturns
           \/ WatchdogTicks \/ WatchdogStops \/ UNCHANGED vars
  <2>1. UNCHANGED <<environ, verifier, keys, failed, stage>>
    BY <1>5 DEF Accept, Respond, Signal, ShutdownTimeout, ShutdownReturns, WatchdogTicks,
                WatchdogStops, vars
  <2> QED BY <2>1, KeysStay DEF KeysInv
<1> QED BY <1>1, <1>2, <1>3, <1>4, <1>5 DEF Next

\* Whatever an operator lists in ARTIFACT_OPERATOR_PUBKEYS, in however many
\* entries and however they are written, tokens are checked with those keys
\* under those kids; and the startup refuses only a list that is wrong or empty.
THEOREM ListedKeysAreUsed == Spec => []KeysAreThoseListed
<1>1. KeysInv => KeysAreThoseListed
  BY DEF KeysInv
<1> QED BY <1>1, KeysInit, KeysStep, PTL DEF Spec
=============================================================================
