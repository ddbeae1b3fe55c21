------------------------------ MODULE Backends ------------------------------
(***************************************************************************)
(* What one call of a BackendProvider method makes of the answer it gets.  *)
(*                                                                         *)
(* backends/gcs.go and backends/rustfs.go send one HTTP request per        *)
(* method and turn the status of the reply into a Go result.  The store    *)
(* behind them (GCS, an S3-compatible server, the SDK's in-memory content  *)
(* store) is not in this repository: what it answers is AnswerOf, modelled *)
(* from how the two clients and their HTTP fakes use it.                   *)
(*                                                                         *)
(* A reply is one of                                                       *)
(*   "ok"          200, 201 or 204;                                        *)
(*   "missing"     404;                                                    *)
(*   "forbidden"   403;                                                    *)
(*   "failed"      any 5xx;                                                *)
(*   "unreachable" no reply and no effect: a token or signing error, a     *)
(*                 refused connection;                                     *)
(*   "timeout"     no reply within the client's 60 seconds; the request    *)
(*                 may still take effect on the store, later.              *)
(*                                                                         *)
(* A result is "nil" (err == nil), "notfound" (storage.ErrContentNotFound),*)
(* "nosigner" (Resolve without a URLSigner), "err" (any other error), or   *)
(* the Boolean that Exists returns.                                        *)
(***************************************************************************)

Kinds == {"gcs", "rustfs", "memory"}

Mutators == {"push", "pin", "delete"}

AllOps == Mutators \cup {"fetch", "exists", "resolve", "healthy"}

Results == {"nil", "notfound", "err", "nosigner", "true", "false"}

NoReply == {"unreachable", "timeout"}

Replies == {"ok", "missing", "forbidden", "failed"} \cup NoReply

-----------------------------------------------------------------------------
(* backends/gcs.go *)

\* Mutant: the reply's status is handed on instead of an error.
GCSPush_RawStatus(reply) == IF reply = "ok" THEN "nil" ELSE reply

GCSPush(reply) == IF reply = "ok" THEN "nil" ELSE "err"

\* Mutants: a refusal counts as an absent object; only a missing object and a
\* lost reply count as failures.
GCSFetch_RefusalIsAbsence(reply) ==
    CASE reply = "ok"                       -> "nil"
      [] reply \in {"missing", "forbidden"} -> "notfound"
      [] OTHER                              -> "err"

GCSFetch_AnyBody(reply) ==
    CASE reply = "missing"  -> "notfound"
      [] reply \in NoReply -> "err"
      [] OTHER              -> "nil"

GCSFetch(reply) ==
    CASE reply = "ok"      -> "nil"
      [] reply = "missing" -> "notfound"
      [] OTHER             -> "err"

\* Mutant: any reply but 404 counts as "yes".
GCSExists_Not404(reply) ==
    CASE reply \in NoReply -> "err"
      [] reply = "missing" -> "false"
      [] OTHER             -> "true"

GCSExists(reply) ==
    CASE reply \in NoReply -> "err"
      [] reply = "ok"      -> "true"
      [] OTHER             -> "false"

GCSPin(reply) ==
    CASE reply \in NoReply -> "err"
      [] reply = "missing" -> "notfound"
      [] OTHER             -> "nil"

GCSDelete(reply) ==
    CASE reply = "ok"      -> "nil"
      [] reply = "missing" -> "notfound"
      [] OTHER             -> "err"

GCSHealthy(reply) == IF reply = "ok" THEN "nil" ELSE "err"

-----------------------------------------------------------------------------
(* backends/rustfs.go *)

RustFSPush(reply) == IF reply = "ok" THEN "nil" ELSE "err"

RustFSFetch(reply) ==
    CASE reply = "ok"                      -> "nil"
      [] reply \in {"missing","forbidden"} -> "notfound"
      [] OTHER                             -> "err"

RustFSExists(reply) ==
    CASE reply \in NoReply -> "err"
      [] reply = "ok"      -> "true"
      [] OTHER             -> "false"

RustFSPin(reply) ==
    CASE reply \in NoReply -> "err"
      [] reply = "missing" -> "notfound"
      [] OTHER             -> "nil"

RustFSDelete(reply) == IF reply = "ok" THEN "nil" ELSE "err"

RustFSHealthy(reply) ==
    IF reply \in NoReply \cup {"failed"} THEN "err" ELSE "nil"

-----------------------------------------------------------------------------
(* backends/backend.go: InMemoryBackend delegates to the SDK's store *)

MemoryResult(op, reply) ==
    IF op = "exists" THEN (IF reply = "ok" THEN "true" ELSE "false")
    ELSE IF reply = "missing" THEN "notfound" ELSE "nil"

-----------------------------------------------------------------------------
GCSResult(op, reply) ==
    CASE op = "push"   -> GCSPush(reply)
      [] op = "fetch"  -> GCSFetch(reply)
      [] op = "exists" -> GCSExists(reply)
      [] op = "pin"    -> GCSPin(reply)
      [] op = "delete" -> GCSDelete(reply)
      [] OTHER         -> GCSHealthy(reply)

RustFSResult(op, reply) ==
    CASE op = "push"   -> RustFSPush(reply)
      [] op = "fetch"  -> RustFSFetch(reply)
      [] op = "exists" -> RustFSExists(reply)
      [] op = "pin"    -> RustFSPin(reply)
      [] op = "delete" -> RustFSDelete(reply)
      [] OTHER         -> RustFSHealthy(reply)

\* The Go result of method op of a backend of this kind.
ResultOf(kind, op, reply) ==
    CASE kind = "gcs"    -> GCSResult(op, reply)
      [] kind = "rustfs" -> RustFSResult(op, reply)
      [] OTHER           -> MemoryResult(op, reply)

\* What a store that works answers, given whether it holds the object.  An
\* S3 DELETE, and the in-memory one, succeed on an absent object; a GCS
\* DELETE answers 404.
AnswerOf(kind, op, present) ==
    IF \/ present
       \/ op \in {"push", "healthy"}
       \/ op = "delete" /\ kind # "gcs"
    THEN "ok" ELSE "missing"

\* Every reply the call may get: the in-memory store has no network to
\* fail, and a timeout differs from an unreachable store only for a request
\* that changes the store.  A health probe of a bucket that is not there is
\* answered 404.
RepliesOf(kind, op, present) ==
    {AnswerOf(kind, op, present)} \cup
    (IF kind = "memory" THEN {}
     ELSE {"forbidden", "failed", "unreachable"} \cup
          (IF op \in Mutators THEN {"timeout"} ELSE {}) \cup
          (IF op = "healthy" THEN {"missing"} ELSE {}))
=============================================================================
