# Formal model of ortholog-artifact-store

TLA+ specifications of the artifact store, the TLC configurations that check
them on small instances, and TLAPS proofs of their main safety properties.
`PROJECT.json` is the index: every definition with the source lines it
translates, every run, mutant, finding, hazard and theorem.

```
tlc -workers 2 -config MirroredStore.cfg MCMirroredStore     # one run
tlapm MirroredStoreProofs.tla                                # one module of proofs
```

## 1. The system

The artifact store is an HTTP server that keeps opaque encrypted artifacts under
content identifiers (CIDs). It trusts no client to name content correctly
(`VerifyOnPush`) and may demand a signed permission for each upload (upload
tokens). Beside it, in the same repository, are the key services with which the
artifacts' owners generate, use, rotate and erase per-artifact keys.

| part | source | state | operations |
|---|---|---|---|
| object-store backends | `backends/gcs.go`, `rustfs.go`, `backend.go` | none (the objects are in GCS / S3 / memory) | Push, Fetch, Exists, Pin, Delete, Resolve, Healthy |
| mirrored store | `backends/mirrored.go` | none; two backends | the same, over a primary and a mirror |
| HTTP handlers | `api/*.go` | one goroutine per request | one handler per route |
| upload tokens | `api/token.go` | the operators' public keys | Verify |
| key services | `keyservice/vault*.go`, `gcpkms*.go`, `pkcs11*.go` | Vault: Transit keys and kv-v2 entries; GCP: Firestore documents; PKCS#11: token objects, sessions, a mutex | GenerateAndEncrypt, Decrypt, WrapForRecipient, Rotate, Delete |
| configuration, operator keys | `config/config.go`, `cmd/artifact-store/token.go` | none | from the environment and files |
| lifecycle | `cmd/artifact-store/main.go`, `keyservice.go` | main, the signal goroutine, the watchdog | start, serve, shut down |
| signers, wire format | `internal/signers`, `api/wire.go` | the clock | sign a URL, describe it to the client |
| crypto helpers | `keyservice/internals.go` | none | pure |

How they interact: a request's goroutine runs a handler, which checks its input,
then calls the store that `initBackend` built (a single backend, or a
`MirroredStore` over two), and writes one response. No lock is held anywhere, so
the backend calls of concurrent requests interleave, and a call that the HTTP
client gave up on may still be carried out by the store.

What is hard here, and what the properties are about:

* the two sides of a mirrored store diverge when one call of two fails, and what
  a later read says depends on which side answers it;
* a timed-out write or deletion lands after later calls;
* the process dies between the primary's call and the mirror's, or between two
  calls to Vault;
* the order of the checks in the push handler, with the size limit's extra byte
  and the tokens' expiry;
* the Vault key service has two halves of every key in two Vault engines, and
  deletes a key in three calls; that of PKCS#11 makes a key under one label and
  finds it under another, and shares a login between its goroutines;
* a lifetime in seconds becomes a 64-bit `Duration`, a date in a URL and a date
  told to the client, by two readings of the clock;
* a server that starts although its configuration is not what the operator wrote.

The hazards, each with its line, are listed in `PROJECT.json`.

## 2. Modules

| module | models | extends |
|---|---|---|
| `Backends` | the result each backend method makes of the store's reply | |
| `MirroredStore` | every method of `MirroredStore`, or a bare backend | `Backends` |
| `UploadToken` | `Verify` and `classifyTokenError` | |
| `ArtifactServer` | all routes over the store | `MirroredStore`, `UploadToken` |
| `SignedURLs` | the lifetimes of what `/resolve` hands out | `ArtifactServer` |
| `KeyService` | the contract of `artifact.ArtifactKeyService` | |
| `VaultTransit`, `GCPKMS`, `PKCS11` | the three key services | instances of `KeyService` |
| `Config`, `OperatorKeys` | environment variables and key lists, as functions | |
| `ServerLifecycle` | startup, serving, shutdown, watchdog | `Config`, `OperatorKeys` |
| `*Proofs` | theorems | the module they are about |
| `MC*` | constants and symmetry sets for TLC | |

### Backends and MirroredStore

A backend method is one HTTP request, so it is a function from the reply
(`ok`, `missing`, `forbidden`, `failed`, `unreachable`, `timeout`) to the Go
result. `AnswerOf` and `RepliesOf` are the object store itself, which is not in
the repository; they follow what the two clients and their HTTP fakes expect.

A method of `MirroredStore` is a call to the primary and perhaps one to the
mirror: `PushPrimary` and `PushMirror`, `FetchPrimary` and `FetchMirror`, and so
on. `pc[r]` says which call request `r` makes next. `objects[s][c]` is what side
`s` holds. A `timeout` puts the call in `late`, from where `ApplyLate` carries it
out at any time. `Crash` drops all requests, may leave their calls in `late`, and
empties an in-memory backend. With `MirrorKind = "none"` the module models the
bare backend, as `initBackend` returns it.

The variables `settled`, `erased`, `steady`, `gone`, `offered` and `acked` record
history for the properties and never restrict a step. A write is *settled* on a
side once that side acknowledged it while no Delete of the CID was under way.

### ArtifactServer

The server shares the store's variables. `Push` is `PushHandler` up to its call of
the store or its rejection; `pushVerdict` has the checks in the code's order.
`Serve` is the same for the other routes, `BadPath` the failure to parse a path,
`Answer` the rest of the handler once the store returned, and `Sign` the second
store call of `ResolveHandler`. Each handler's mapping from results to statuses is
an operator of its own. `resp` is the response written in the last step. A body
is represented by its length, so that cutting it at a limit is cutting it.

### SignedURLs

The steps of `ArtifactServer` again, with the expiry parameter, the `Duration`
the handler makes of it (`expiryOf`, which wraps around as `int64` does), the end
of the URL that is signed and the expiry the client is told. `SignURL` and
`PresignGetObject` are reduced to the end of the URL: its date plus its lifetime
in whole seconds. Durations are scaled down: `Second` ticks make a second, and
`Range` stands for 2^63. The expiry for the client is computed when the response is
written; `Resolve` reads the clock for it at some moment between signing and that, so
the model has every outcome of the code. The end of a URL is what is written in it:
whether a service honours it is up to the service. GCS and S3 refuse lifetimes of more
than seven days, for which neither the handler nor the signers check, and the signers
write dates in whole seconds, which moves the end by less than one.

### KeyService

What callers may rely on, whoever keeps the keys. A key is usable or not; a
method takes effect between call and return, and may take effect in part when it
fails. The contract's own promises are `KeysLast`, `ErasureLasts`,
`NotFoundIsHonest` and `ResultsAreFresh`. Each implementation maps its state to
the contract's (`usable`, `seen`, `made`, `out`) and `ImplementsKeyService` says
that every one of its steps is a step of the contract or none.

### VaultTransit

One action per Vault call: `TransitCreateKey`, `TransitEncrypt`, `KvPutWrapped`,
`KvGetWrapped`, `TransitDecrypt`, `KvDeleteMetadata`, and the three calls of
`transitDeleteKey` (`TransitProbe`, `TransitAllow`, `TransitDestroy`). Rollbacks
reuse the last three with `undo` set. Every call may be refused, fail, not reach
Vault, or be carried out after its reply was lost. Clients use only CIDs they
were given: a CID is the hash of a ciphertext under a fresh random key. A key is
usable while both of its halves are there. `pathCache` is written and never read
by the code, here and in `GCPKMS`.

### GCPKMS

One action per KMS or Firestore call. KMS keeps nothing per artifact, so a key is
usable while its Firestore document exists, and a failed creation leaves nothing
to roll back, except where the reply was lost.

### PKCS11

One action per call to the token, and `Lock` for the mutex. A process has a login
and a number of open sessions, and sees private objects while it is logged in.
`Rotate` is three methods in a row (`stage`), with the mutex free in between. A
token call may fail before or after taking effect. `Close` ends the service, and
`Restart` is the death of a process and its next `NewPKCS11`. The module allows
for several processes on one token.

### Config, OperatorKeys, ServerLifecycle

`Config` has `Load` and `validate` as functions of an environment, for the
variables that some check or choice depends on. (`ARTIFACT_RESOLVE_EXPIRY` is not
among them: nothing checks it, and `SignedURLs` allows every default lifetime.) `OperatorKeys` parses key lists
and directories as sequences of symbols, so that splitting at commas, trimming
and PEM blocks are what they are in the code. A symbol is a mark (comma, colon,
space, the first or the last line of a PEM block) or one of `Words`, some of which
are the encodings of keys. For comparison, a `KeyList` is what an operator means to
list: entries with their keys raw, in PEM, in PEM with a header that has a comma and
a colon of its own, without the colon, or blank, with spaces around them or not.
`Text` writes a list down and `Listed` says what it means.

`ServerLifecycle` has `main`'s stages in order, each of which may end the process;
the goroutine that waits for a signal and calls `srv.Shutdown`; the watchdog; and
requests, which the return of `main` cuts off. `net/http` is external:
`ListenAndServe` returns as soon as `Shutdown` is called.

## 3. Runs

| run | checks | instance |
|---|---|---|
| `store_answers` | `TypeOK`, `SuccessHasGrounds`, `NoReadOfDeleted`, `FetchNotFoundIsHonest`, `PinNotFoundIsHonest`, `DurableWrites`, `DeletedStaysDeleted`, `MirrorFollowsPrimary`, `StoreInv` | 2 requests, all operations, gcs/gcs, 1 late call |
| `server_pushes` | `URLInv`, `BodiesAreWhole`, `PushOkIsStored`, `ContentMatchesCID`, `StoredOnlyUnderToken`, `DigestVerdictNeedsToken`, `CredentialLasts`, `ResolvedWasUploaded` | 1 client, 5 routes, 2 CIDs, lengths 0..2 around a limit of 1, 8 kinds of token, 4 lifetimes, clock 0..2, gcs/rustfs, 1 late call |
| `server_routes` | `ServerInv`, `MirroredOutlivesRestart`, `StoreIsUsedProperly` (refinement) | 2 clients, push, fetch, delete and resolve, clock 0..1, memory/gcs, 1 late call |
| `vault` | `TypeOK`, `RotateKeepsOneCopy`, `IssuedStaysUsable`, `ErasureIsFinal`, `NoOrphanKeys`, `KeyNotFoundIsHonest`, `ImplementsKeyService` (refinement) | 2 callers, 2 artifacts, all faults, 1 late call |
| `gcpkms` | `NothingToRollBack`, `OnlyFaultsFail`, `ImplementsKeyService` (refinement) | 2 callers, 3 artifacts, all faults, 1 late call |
| `pkcs11` | `TypeOK`, `LoggedInAtWork`, `SessionsAreReleased`, `NoOrphanObjects`, `ImplementsKeyService` (refinement), `CallsReturn` (liveness) | 2 goroutines of one process, 2 artifacts, 2 sessions, both faults, restarts |
| `lifecycle` | `ServesOnlyIfSound`, `KeysAreThoseListed`, `WatchdogWarns`, `SignalEndsProcess` (the last two liveness) | a sound environment and every change of one or two variables, all key lists of at most 2 entries, wrong and blank ones among them, 33 directories; 2 requests that may hang |

Every property has a mutant: an operator defined just before the definition it
changes, marked `Mutant` and unused by the specification. With the mutant in
place the property fails.

**Bounds.** `MaxLate` bounds the timed-out calls outstanding at one time; one is
enough for a call to overtake, or be overtaken by, every other. Two requests give
every pair of operations in every order. One object suffices where the property speaks of one CID,
since a call touches no other; `server_pushes` has two CIDs and three bodies,
because it asks which bytes end up where. Lengths 0, 1 and 2 lie below, at and
above the limit, and at 2 the reader stops at its one extra byte. Two artifacts
let one rotation finish while a deletion of the same artifact is under way; a second
rotation of it would need a third artifact, which only the smaller `GCPKMS` has.
Two sessions let one be left
behind and one more be opened, and the limit be met. The lifetimes are none, one
second, the longest that a `Duration` holds and one second more. `MaxTime = 2` lets a token
that expires at 1 be used before, at and after its expiry. `server_pushes` leaves
out the routes pin and delete, with which it would not end in reasonable time, and
`server_routes`, which has delete, has one CID for the same reason; the theorems are
for all routes.
The theorems below remove these bounds for the store, the server and its URLs, the
three key services, the configurations and the key lists.

**Symmetry** permutes requests (and, for Vault and GCP, artifacts), only in runs without
liveness properties and where no constant tells the permuted values apart. The
refinements are safety properties. (`AnyCID` chooses one CID; no run over it
permutes CIDs.)

**Deadlock** is checked except in the lifecycle run, where the process ends.

**Fairness.** `FairSpec` of `ServerLifecycle`
assumes that `main` leaves its startup stages, that it and the two goroutines run
when they can and that their timers fire; nothing is assumed of requests.
`FairSpec` of `PKCS11` assumes that calls to the token end, and strong fairness of
`Lock`, because `sync.Mutex` hands itself to the goroutine that has waited for more
than a millisecond. No liveness is claimed of `VaultTransit` and `GCPKMS`, whose
HTTP clients have no timeout.

## 4. Where code and documentation disagree

Runs that TLC is expected to refute; each states what a document, comment or test
says. `PROJECT.json` has the quotations.

| run | property | what happens |
|---|---|---|
| `fetch_not_found` | `NotFoundMeansAbsent` | a primary that fails for a moment and a mirror that missed the write: `Fetch` says "not found" of an object the primary holds |
| `exists_no` | `ExistsNoIsHonest` | any status but 200 makes `Exists` say no |
| `get_after_delete` | `GetAfterDelete` | the mirror misses a deletion that was answered 200, and serves the object |
| `vault_delete` | `DeleteIsIdempotent` | two Deletes of one key race between probe and configuration |
| `graceful_shutdown` | `ShutdownIsGraceful` | `main` returns while `Shutdown` is waiting for requests |

Others were noticed and have no run:

* `createBackend` (`cmd/artifact-store/main.go:217`) gives the backends no URL
  signer, although `README.md:46` describes signed URLs, so `HasSigner` is FALSE in
  `server_routes` as it is in the binary.
* `?expiry=` "overrides the default signed-URL lifetime" (`README.md:42`), but a
  value of more than about 292 years wraps around (`api/resolve.go:34`);
  `CredentialLasts` is stated up to that limit. `ARTIFACT_RESOLVE_EXPIRY` is
  accepted when zero or negative.
* The comment on `p11Session` (`pkcs11_api.go:15`) says that modules scope the login
  to the session; the one in `openSession` (`pkcs11_api.go:36`) expects a login that
  another session left behind. PKCS#11 has one login for all sessions of a process
  with a token, which is what `PKCS11` models.
* The audit reason `token_unknown_kid` (`api/push.go:224`) is missing from the
  enumeration in `docs/TESTING.md:149`.
* `keyservice/doc.go:15` says that Vault generates the data key with
  `datakey/plaintext`; the code generates it locally and calls `encrypt`.
* `PKCS11.Decrypt` promises `ErrCiphertextMismatch` "if the GCM auth tag does not
  validate" (`pkcs11.go:120`) and returns it for every error of the decryption.
* A file of the key directory "MUST contain exactly one PEM-encoded" key
  (`token.go:196`); what follows the first block is ignored, and hex and base64 are
  accepted.
* `parseInlinePubKeys` (`token.go:119`) describes a split at `,<word>:`; the code
  counts PEM delimiters.
* `cmd/artifact-store/keyservice.go:43` says that constructors surface an
  unreachable endpoint; `NewVaultTransit` contacts nothing.
* `main.go:76` says `initKeyService` may return nil; it does not.
* `httpfakes.go` answers the deletion of an absent object otherwise than GCS, which
  `GCSBackend.Delete` provides for.

## 5. Proofs

All theorems hold for every value of the constants: every set of requests, CIDs,
bodies, tokens and environments, every pair of backends, every set of faults and
any number of late calls. They assume what the modules' ASSUMEs say: there is a
CID, `NoBody` is no body and `NoCID` no CID, the kinds of backends are those
`config.validate` accepts, a body is known by its length, a token has a form and
an integer expiry, a second and the range of a `Duration` are positive and the
default lifetime lies in that range, a goroutine belongs to a process, no word is
also a mark, the key texts are words other than the filler of PEM headers, and an
environment's inline keys are some `KeyList`.

**The store** (`MirroredStoreProofs`). None of the safety properties is inductive:
that a settled object is held says nothing of a deletion on its way. `StoreInv`
adds what is needed:

* `SettledIsSafe`: what is settled is held *and no call that could delete it is
  pending or late*; `ErasedIsSafe` is its dual;
* `BytesWereOffered`: bytes at rest, in flight, late, or in a reader's hands were
  offered by some Push under that CID;
* `MirrorWasAcked`: bytes at or on their way to the mirror were acknowledged by
  the primary;
* `CallsAreTracked`: the per-request history agrees with the global one.

The twelve backend calls have one shape (`Proceeds`, `LEMMA StepShape`), so each
conjunct is shown preserved by one case for that shape and one for each other
action. From `StoreInvariant` follow `WritesAreDurable`, `DeletionsLast`,
`MirrorNeverLeads`, and with one more induction
`SuccessIsGrounded`: nil from Push or Fetch means what callers take it to mean.
What reads report (`DeletedIsNeverRead`, `FetchNotFoundHonest`,
`PinNotFoundHonest`) follows from `ToldTruth`: what a method has been told by the side
it asked last agrees with what that side has held since the call.

**The server** (`ArtifactServerProofs`). `ServerUsesStore` shows that every step of
the server is a step of the store or leaves it alone, so that the store's
invariants hold of the server (`ServerSpec => Spec`). `ServerInv` adds
`UploadsWereChecked` (whatever was offered to the store passed all of the push
handler's checks) and `HandlersAreInStep` (a handler waits for the call it made).
Together with `BytesWereOffered` they give `BodiesStayWhole`,
`TokensGuardStorage`, `ContentIsAuthentic`, `PushOkMeansStored` and
`VerdictsNeedTokens`. `RestartsKeepMirrored` needs `ToldTruth` as well: "not found" is
the mirror's answer whenever there is a mirror, and a mirror that is no RustFS says it
only of what it does not hold.

The same module carries this on to `SignedURLs`, which implements
`ArtifactServer` (`LEMMA URLImplementsServer`). `URLInv` adds to the types
`ResolvesAreInStep` (a resolve signs only after the store said that the object
exists) and `LifetimesAreKept` (the handler still has the lifetime it was asked for,
and its URL was signed between arrival and now). Both are needed: a credential is
put together from values set by three earlier steps. `URLInvariant` and
`URLTypeCorrect` follow by induction. `ResolvedMeansUploaded` rests on
`ExistsIsGrounded`, an invariant of the store: "yes" from `Exists` means that some
Push offered the CID. `CredentialsLast` rests on `LEMMA ExpiryExact`: a lifetime of
at most `MaxSeconds` survives the multiplication, the wrap-around and the division
exactly.

**The key services.** `KeyServiceProofs` shows that the contract keeps its promises
(`ServicePromises`). For each of the three services an inductive invariant is found
(`VaultInvariant`, `GCPInvariant`, `PKCS11Invariant`). From it follow every safety
invariant of the service's run, as a theorem of its own named after the service and
the property (`VaultErasureIsFinal`, `GCPKMSNothingToRollBack`,
`PKCS11SessionsAreReleased`, ...), and that every step is a step of the contract or
a stutter (`VaultImplementsKeyService`, `GCPKMSImplementsKeyService`,
`PKCS11ImplementsKeyService`). `VaultKeepsPromises`, `GCPKMSKeepsPromises` and
`PKCS11KeepsPromises` draw the conclusion. What has to be added to the properties is much the same in all three:

* where a request is in its method and what it has in hand there (`VControl`,
  `GCPControl`, `PControl`), e.g. that the kv-v2 entry is gone before the Transit key is
  deleted;
* how far the artifact it makes has come, and that no two requests make the same
  one (`VMaking`, `VDistinct`, `GCPFresh`, `PFresh`, `PProgress`);
* that a lost call can do no harm any more (`VLate`, `GCPLate`): a creation is for
  an artifact nobody will get, a deletion for one somebody meant to delete. The
  token is called under the mutex, and has no late calls.

`VControl` is why an outage is never reported as an erased key: a "not found" in
hand means the CID was doomed.

`PKCS11` has sessions besides. `MutexHeld` says that the mutex belongs to the one
goroutine inside; `SessionsCounted` that the open sessions are its session and those
left behind, and that a login is owed to one of these; `LoggedIn` that the login
lasts while it is needed. The three depend on each other: a process is logged out
with its last session, so a goroutine stays logged in because its own session counts
and no other goroutine is there to log out.

**The operator keys** (`OperatorKeysProofs`). `InlineKeysAreParsed`: for every list
in `KeyList`, however long, `parseInlinePubKeys(Text(list)) = Listed(list)` (unless
the text is empty, when the directory is read instead). The argument:

* `SetInduction` is induction on the natural numbers for a set, from the
  well-foundedness of `<`. It gives the value of the recursive function in `Text`
  (`JoinExists`, `TextJoins`) and with it the layout of the text (`Laid`,
  `JoinsAreLaid`): each entry's piece stands between two of the places `c[0]`,
  `c[1]`, ..., with commas at those in between.
* A piece by itself is parsed rightly (`PieceIsParsed`): it is blank exactly when its
  entry is, its first colon is the one after the kid although a PEM header may have
  another, and kid and key are those of the entry. Its commas, if any, are
  inside its one PEM block (`Fenced`), or it has neither (`Plain`).
* `splitInlineEntries` counts the blocks opened and closed before a comma. The closed
  ones are among the opened ones, so the depth is 0 exactly where the two sets of
  pieces are the same, which is outside every block (`MarkCounts`, `DepthOf`). The
  cuts are therefore the commas between the pieces and no others (`CutsAre`), and
  what lies between two cuts is a piece (`SplitIs`). A text without PEM blocks is cut at
  every comma, which is the same thing (`NoBlocks`).
* From entries that are the pieces, the keys and the errors are those listed
  (`ParsedAsListed`).

**The process** (`ServerLifecycleProofs`). `OnlySoundServersServe` holds for every
environment, list and directory. It relates the running server to its environment
variables, not to the configuration made of them, so that the defaults and the parsing
of `Load` are part of what is shown (`LoadedConfig`, `TakenConfig`): tokens are
unchecked only where the policy was left out or off, and digests only where one of the
six spellings of false was given. It rests on lemmas about the key parsers, too: what
`parseInlinePubKeys` and `loadPubKeysDir` load maps kids to keys.
`ListedKeysAreUsed` is the property `KeysAreThoseListed`. It is not inductive: that
there is no verifier yet has to be known when `main` builds one, and that
`config.validate` has let through only the policies `buildUploadTokenVerifier`
knows. `KeysInv` adds this; the step that builds the verifier uses
`InlineKeysAreParsed`.

**Only model-checked**: liveness (`WatchdogWarns`, of which the first two warnings are
counted, `SignalEndsProcess` and `CallsReturn`), which is outside what the prover handles. Every
safety property of the runs that pass is a theorem.

## 6. Not modelled

* Contents: hashing, AES-GCM, ECIES, base64, JSON, PEM, URL building and request
  signing are library calls or stateless formatting. A token is modelled by what
  its verifier can find in it, content by its CID under a digest function.
* `keyservice/internals.go` and `json_helper.go`: such calls and no state. Where
  they can fail, the key services have a step that may fail.
* What a client does with a URL after `/resolve`: the store is asked directly.
* The HTTP client of the SDK (`sdklog.DefaultClient`), which sends a request again after
  a 503 with `Retry-After`: a backend method is one exchange with its store, whose reply
  is the last one, and a try that was answered 503 is taken to have changed nothing.
* `ErrNotSupported`, for which `delete.go` has a status (501, in `DeleteStatus`): no
  backend of this repository returns it.
* Replies that Vault and Firestore give only about data nobody here writes: a kv-v2
  version without data (`vault_api.go:208`) and a document with an empty key
  (`gcpkms_api.go:136`), both of which mean "no such key" to the code.
* Reading the GCS service account file (`LoadGCSServiceAccount`) and
  `SigV4.SignRequest`, which the binary does not use: `createBackend` configures no
  signer.
* `retrievalCredentialFromWire`, which only tests call, and the test fixtures and
  conformance scenarios themselves.
* Vault's, Firestore's, the token's and the object stores' own replication: each is
  a single copy that answers atomically.
* `ReadTimeout` and `WriteTimeout` of `http.Server`: a connection that is cut ends a
  request no earlier for the store than its handler does.
* Several PKCS#11 processes on one token in a run: the module has them, and an
  instance with two passes, but takes longer than a regular run may.
