------------------------------- MODULE Config -------------------------------
(***************************************************************************)
(* config/config.go: the configuration the server makes of its environment.*)
(*                                                                         *)
(* An environment is a record of the variables' texts, "" for one that is  *)
(* not set; only those are kept that a check of the startup is about.      *)
(* (ARTIFACT_RESOLVE_EXPIRY has none: SignedURLs allows any Duration.)     *)
(* The operator keys are left as they are, to be read by OperatorKeys.     *)
(***************************************************************************)
EXTENDS Integers

CONSTANT DefaultMaxBody  \* 64 << 20

ASSUME ConfigAssumption == DefaultMaxBody \in Nat \ {0}

\* strconv.ParseBool, on the texts that parse.
ParseBool ==
    LET yes == {"1", "t", "T", "TRUE", "true", "True"}
        no  == {"0", "f", "F", "FALSE", "false", "False"}
    IN  [text \in yes \cup no |-> text \in yes]

\* strconv.ParseInt, on a negative number, zero and a positive one.
ParseInt == [text \in {"-1", "0", "1"} |->
                IF text = "-1" THEN -1 ELSE IF text = "0" THEN 0 ELSE 1]

envOrDefault(text, fallback) == IF text = "" THEN fallback ELSE text

\* envBool, envInt64 and envDuration: a text that does not parse is no text.
envParsed(parse, text, fallback) ==
    IF text \in DOMAIN parse THEN parse[text] ELSE fallback

\* validate's repair of MaxBodySize.
clampMaxBody(n) == IF n <= 0 THEN DefaultMaxBody ELSE n

LoadConfig(e) ==
    [backend    |-> envOrDefault(e.backend, "memory"),
     mirror     |-> e.mirror,
     mode       |-> envOrDefault(e.mode, "sync"),
     verify     |-> envParsed(ParseBool, e.verify, TRUE),
     env        |-> envOrDefault(e.env, "dev"),
     policy     |-> envOrDefault(e.policy, "off"),
     inline     |-> e.inline,
     dir        |-> e.dir,
     maxBody    |-> clampMaxBody(envParsed(ParseInt, e.maxBody, DefaultMaxBody)),
     keyservice |-> envOrDefault(e.keyservice, "vault"),
     token      |-> e.token,
     kek        |-> e.kek,
     project    |-> e.project,
     label      |-> e.label,
     pin        |-> e.pin]

validate(c) ==
    /\ c.backend \in {"gcs", "rustfs", "memory"}
    /\ c.mirror \in {"", "gcs", "rustfs"}
    /\ c.mode = "sync"
    /\ c.policy \in {"off", "optional", "required"}
    /\ \/ c.keyservice = "memory"
       \/ c.keyservice = "vault"  /\ c.token # ""
       \/ c.keyservice = "gcpkms" /\ c.kek # "" /\ c.project # ""
       \/ c.keyservice = "pkcs11" /\ c.label # "" /\ c.pin # ""
=============================================================================
