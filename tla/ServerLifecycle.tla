-------------------------- MODULE ServerLifecycle --------------------------
(***************************************************************************)
(* cmd/artifact-store/main.go: one life of the server process.  main runs  *)
(* its startup stages in order, any of which may end the process, then     *)
(* serves until ListenAndServe returns.  Beside it run the goroutine that  *)
(* waits for a signal and the VerifyOnPush watchdog.                       *)
(*                                                                         *)
(* Its configuration is what Config makes of the environment, and its      *)
(* operator keys are what OperatorKeys reads there.                        *)
(***************************************************************************)
EXTENDS Config, OperatorKeys

CONSTANTS
    Request,      \* requests that arrive during the life of the process
    Environments, \* environments the process may be started in
    KEKNames      \* resource names that begin with "projects/"

ASSUME EnvironmentsAssumption == \A e \in Environments : e.inline \in KeyList

VARIABLES
    environ,   \* the environment of the process
    stage,     \* where main is
    failed,    \* the stage whose error was logged, or ""
    verifier,  \* the UploadTokenVerifier: "none" or "built"
    keys,      \* the operator keys it holds
    listener,  \* "new", "open" or "closed"
    shutdown,  \* the signal goroutine: "none", "waiting", "draining", "done"
    timedOut,  \* whether the 10 seconds of shutCtx are over
    ctxDone,   \* whether ctx is cancelled
    watchdog,  \* "none", "ticking" or "stopped"
    warnings,  \* the VerifyOnPush warnings logged, at most two counted
    request    \* "new", "active", "answered" or "cut"

vars == <<environ, stage, failed, verifier, keys, listener, shutdown, timedOut,
          ctxDone, watchdog, warnings, request>>

Stages == {"load", "warn", "verifier", "backend", "keyservice", "listen", "bind",
           "serving", "exited"}

TypeOK ==
    /\ stage \in Stages
    /\ failed \in Stages \cup {""}
    /\ verifier \in {"none", "built"}
    /\ \A kid \in DOMAIN keys : keys[kid] \in KeyTexts
    /\ listener \in {"new", "open", "closed"}
    /\ shutdown \in {"none", "waiting", "draining", "done"}
    /\ timedOut \in BOOLEAN
    /\ ctxDone \in BOOLEAN
    /\ watchdog \in {"none", "ticking", "stopped"}
    /\ warnings \in 0..2
    /\ request \in [Request -> {"new", "active", "answered", "cut"}]

Init ==
    /\ environ \in Environments
    /\ stage = "load"
    /\ failed = ""
    /\ verifier = "none"
    /\ keys = NoKeys
    /\ listener = "new"
    /\ shutdown = "none"
    /\ timedOut = FALSE
    /\ ctxDone = FALSE
    /\ watchdog = "none"
    /\ warnings = 0
    /\ request = [r \in Request |-> "new"]

-----------------------------------------------------------------------------
(* Startup *)

cfg == LoadConfig(environ)

\* Mutant: a policy without any keys is let through, unenforced.
buildUploadTokenVerifier_NoKeysIsOff(c) ==
    LET inline == Text(c.inline)
        loaded == IF inline # <<>> THEN parseInlinePubKeys(inline) ELSE loadPubKeysDir(c.dir)
    IN  IF c.policy = "off" \/ (inline = <<>> /\ c.dir.path = "") THEN Loaded(NoKeys)
        ELSE IF ~loaded.ok \/ loaded.keys = NoKeys THEN LoadError
        ELSE loaded

\* The keys, for which one source is set and is not empty of keys; none when
\* tokens are not looked at.
buildUploadTokenVerifier(c) ==
    LET inline == Text(c.inline)
        loaded == IF inline # <<>> THEN parseInlinePubKeys(inline) ELSE loadPubKeysDir(c.dir)
    IN  IF c.policy = "off" THEN Loaded(NoKeys)
        ELSE IF \/ c.policy \notin {"optional", "required"}
                \/ inline = <<>> /\ c.dir.path = ""
                \/ inline # <<>> /\ c.dir.path # ""
                \/ ~loaded.ok
                \/ loaded.keys = NoKeys
             THEN LoadError
        ELSE loaded

\* os.Exit(1), or the return of main: requests being served are cut off.
Exit ==
    /\ stage' = "exited"
    /\ listener' = "closed"
    /\ ctxDone' = TRUE
    /\ request' = [r \in Request |->
                      IF request[r] = "active" THEN "cut" ELSE request[r]]

\* One startup stage: on to the next, or an error and out.
Stage(s, ok, next) ==
    /\ stage = s
    /\ IF ok THEN stage' = next /\ UNCHANGED <<failed, listener, ctxDone, request>>
             ELSE Exit /\ failed' = s
    /\ UNCHANGED <<environ, shutdown, timedOut>>

Load ==
    /\ Stage("load", validate(cfg), "warn")
    /\ UNCHANGED <<verifier, keys, watchdog, warnings>>

\* Mutant: the ticker is for everywhere but production.
runVerifyOnPushWatchdog_Inverted ==
    /\ Stage("warn", TRUE, "verifier")
    /\ warnings' = IF cfg.verify THEN 0 ELSE 1
    /\ watchdog' = IF ~cfg.verify /\ cfg.env # "production" THEN "ticking" ELSE "none"
    /\ UNCHANGED <<verifier, keys>>

runVerifyOnPushWatchdog ==
    /\ Stage("warn", TRUE, "verifier")
    /\ warnings' = IF cfg.verify THEN 0 ELSE 1
    /\ watchdog' = IF ~cfg.verify /\ cfg.env = "production" THEN "ticking" ELSE "none"
    /\ UNCHANGED <<verifier, keys>>

BuildVerifier ==
    LET built == buildUploadTokenVerifier(cfg) IN
    /\ Stage("verifier", built.ok, "backend")
    /\ verifier' = IF built.ok /\ cfg.policy # "off" THEN "built" ELSE "none"
    /\ keys' = built.keys
    /\ UNCHANGED <<watchdog, warnings>>

\* createBackend knows three kinds, for either side.
InitBackend ==
    /\ Stage("backend", cfg.backend \in {"gcs", "rustfs", "memory"}
                        /\ cfg.mirror \in {"", "gcs", "rustfs", "memory"}, "keyservice")
    /\ UNCHANGED <<verifier, keys, watchdog, warnings>>

\* What the constructors may answer.  Only the last two look beyond their
\* configuration: for credentials, and for a module and a token.
NewVaultTransit(c) == {c.token # ""}

NewGCPKMS(c) == {FALSE, c.kek \in KEKNames /\ c.project # ""}

NewPKCS11(c) == {FALSE, c.label # "" /\ c.pin # ""}

InitKeyService ==
    /\ \E ok \in CASE cfg.keyservice = "memory" -> {TRUE}
                   [] cfg.keyservice = "vault"  -> NewVaultTransit(cfg)
                   [] cfg.keyservice = "gcpkms" -> NewGCPKMS(cfg)
                   [] cfg.keyservice = "pkcs11" -> NewPKCS11(cfg)
                   [] OTHER                     -> {FALSE} :
          Stage("keyservice", ok, "listen")
    /\ UNCHANGED <<verifier, keys, watchdog, warnings>>

\* The signal goroutine is started.
AwaitSignal ==
    /\ stage = "listen"
    /\ stage' = "bind"
    /\ shutdown' = "waiting"
    /\ UNCHANGED <<environ, failed, verifier, keys, listener, timedOut, ctxDone, watchdog,
                   warnings, request>>

\* ListenAndServe binds the address, unless the server is shut down already.
Listen ==
    /\ stage = "bind"
    /\ listener = "new"
    /\ \/ stage' = "serving" /\ listener' = "open" /\ UNCHANGED <<ctxDone, request>>
          /\ UNCHANGED failed
       \/ Exit /\ failed' = "bind"
    /\ UNCHANGED <<environ, verifier, keys, shutdown, timedOut, watchdog, warnings>>

-----------------------------------------------------------------------------
(* Serving *)

Alive == stage # "exited"

Accept(r) ==
    /\ Alive
    /\ listener = "open"
    /\ request[r] = "new"
    /\ request' = [request EXCEPT ![r] = "active"]
    /\ UNCHANGED <<environ, stage, failed, verifier, keys, listener, shutdown, timedOut, ctxDone,
                   watchdog, warnings>>

Respond(r) ==
    /\ Alive
    /\ request[r] = "active"
    /\ request' = [request EXCEPT ![r] = "answered"]
    /\ UNCHANGED <<environ, stage, failed, verifier, keys, listener, shutdown, timedOut, ctxDone,
                   watchdog, warnings>>

\* SIGINT or SIGTERM arrives: srv.Shutdown closes the listener and waits.
Signal ==
    /\ Alive
    /\ shutdown = "waiting"
    /\ shutdown' = "draining"
    /\ listener' = "closed"
    /\ UNCHANGED <<environ, stage, failed, verifier, keys, timedOut, ctxDone, watchdog, warnings, request>>

ShutdownTimeout ==
    /\ Alive
    /\ shutdown = "draining"
    /\ timedOut' = TRUE
    /\ UNCHANGED <<environ, stage, failed, verifier, keys, listener, shutdown, ctxDone, watchdog,
                   warnings, request>>

\* Shutdown returns when nothing is being served or its context is over.
ShutdownReturns ==
    /\ Alive
    /\ shutdown = "draining"
    /\ timedOut \/ \A r \in Request : request[r] # "active"
    /\ shutdown' = "done"
    /\ ctxDone' = TRUE
    /\ UNCHANGED <<environ, stage, failed, verifier, keys, listener, timedOut, watchdog, warnings, request>>

\* Mutant: main waits for every request, however long it takes.
MainReturns_WaitsForRequests ==
    /\ stage \in {"bind", "serving"}
    /\ listener = "closed"
    /\ \A r \in Request : request[r] # "active"
    /\ Exit
    /\ UNCHANGED <<environ, failed, verifier, keys, shutdown, timedOut, watchdog, warnings>>

\* ListenAndServe returns as soon as the listener is closed, and main with it.
MainReturns ==
    /\ stage \in {"bind", "serving"}
    /\ listener = "closed"
    /\ Exit
    /\ UNCHANGED <<environ, failed, verifier, keys, shutdown, timedOut, watchdog, warnings>>

\* An accept error ends the process.
ListenerFails ==
    /\ stage = "serving"
    /\ listener = "open"
    /\ Exit
    /\ failed' = "serving"
    /\ UNCHANGED <<environ, verifier, keys, shutdown, timedOut, watchdog, warnings>>

WatchdogTicks ==
    /\ Alive
    /\ watchdog = "ticking"
    /\ warnings < 2
    /\ warnings' = warnings + 1
    /\ UNCHANGED <<environ, stage, failed, verifier, keys, listener, shutdown, timedOut, ctxDone,
                   watchdog, request>>

WatchdogStops ==
    /\ Alive
    /\ watchdog = "ticking"
    /\ ctxDone
    /\ watchdog' = "stopped"
    /\ UNCHANGED <<environ, stage, failed, verifier, keys, listener, shutdown, timedOut, ctxDone,
                   warnings, request>>

Next ==
    \/ Load \/ runVerifyOnPushWatchdog \/ BuildVerifier \/ InitBackend
    \/ InitKeyService \/ AwaitSignal \/ Listen
    \/ \E r \in Request : Accept(r) \/ Respond(r)
    \/ Signal \/ ShutdownTimeout \/ ShutdownReturns \/ MainReturns \/ ListenerFails
    \/ WatchdogTicks \/ WatchdogStops

Spec == Init /\ [][Next]_vars

\* main, which can always leave a startup stage, and the other goroutines run
\* when they can, and timers fire.  Nothing is assumed of the clients' requests.
FairSpec ==
    /\ Spec
    /\ WF_stage(stage \notin {"serving", "exited"} /\ stage' \in Stages)
    /\ WF_vars(MainReturns)
    /\ WF_vars(ShutdownTimeout)
    /\ WF_vars(ShutdownReturns)
    /\ WF_vars(WatchdogTicks)
    /\ WF_vars(WatchdogStops)

-----------------------------------------------------------------------------
(* Properties *)

\* A server that takes requests is as strict as its environment says, whatever
\* the environment: uploads go without token checks only if the operator wrote
\* "off" or nothing, and without digest checks only if the operator wrote what
\* strconv.ParseBool takes for false, so that no typing error turns either off.
\* Tokens are checked against some key, from one source; and no half-configured
\* mirror, body limit or key service slips through the checks that
\* config.validate, initBackend and the constructors share between them.
ServesOnlyIfSound ==
    (\E r \in Request : request[r] # "new") =>
        /\ verifier = "none" => environ.policy \in {"", "off"}
        /\ verifier = "built" => /\ keys # NoKeys
                                /\ Text(environ.inline) = <<>> <=> environ.dir.path # ""
        /\ ~cfg.verify => environ.verify \in {"0", "f", "F", "FALSE", "false", "False"}
        /\ environ.mirror \in {"", "gcs", "rustfs"}
        /\ cfg.maxBody > 0
        /\ environ.keyservice \in {"", "vault"} => environ.token # ""
        /\ environ.keyservice = "gcpkms" => environ.kek \in KEKNames /\ environ.project # ""
        /\ environ.keyservice = "pkcs11" => environ.label # "" /\ environ.pin # ""

\* parseInlinePubKeys checks tokens with the keys that the operator listed,
\* each under its kid, however the list is written; and a list is refused only
\* when it names a kid twice or a key that is none, or no key at all.
KeysAreThoseListed ==
    LET listed == Listed(cfg.inline) IN
    Text(cfg.inline) # <<>> /\ cfg.dir.path = "" =>
        /\ verifier = "built" => listed.ok /\ keys = listed.keys
        /\ failed = "verifier" => ~listed.ok \/ listed.keys = NoKeys

\* A production server that takes requests without checking digests goes on
\* warning of it for as long as it lives: a second warning comes, unless the
\* process is shut down.
WatchdogWarns ==
    (listener = "open" /\ cfg.env = "production" /\ ~cfg.verify)
    ~> (warnings = 2 \/ listener = "closed")

\* A signal ends the process, also when a request never ends.
SignalEndsProcess == (shutdown = "draining") ~> (stage = "exited")

\* "Graceful shutdown.": the return of main does not cut off a request while
\* srv.Shutdown is still waiting for it.
ShutdownIsGraceful ==
    shutdown = "draining" /\ ~timedOut => \A r \in Request : request[r] # "cut"
=============================================================================
