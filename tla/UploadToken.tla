---------------------------- MODULE UploadToken ----------------------------
(***************************************************************************)
(* api/token.go: the check of an X-Upload-Token.                           *)
(*                                                                         *)
(* A token is the record of what its verifier can find in it:              *)
(*   form    "ok", "garbled" (not payload.signature in base64), "notjson"; *)
(*   kid     the key it names;                                             *)
(*   signer  the private key that really signed the payload;               *)
(*   exp     its expiry in Unix seconds, 0 when the claim is absent;       *)
(*   cid, size  the upload it is for.                                      *)
(* keys maps the key identifiers the server trusts to the keys they name.  *)
(***************************************************************************)
EXTENDS Integers

\* Mutant: tokens do not expire.
Claims_NoExpiry(t, c, size, now) ==
    IF t.cid # c          THEN "cid_mismatch"
    ELSE IF t.size # size THEN "size_mismatch"
    ELSE "nil"

\* The claims of a token whose signature is good, against the upload at hand.
Claims(t, c, size, now) ==
    IF t.exp = 0 \/ now > t.exp THEN "expired"
    ELSE IF t.cid # c            THEN "cid_mismatch"
    ELSE IF t.size # size        THEN "size_mismatch"
    ELSE "nil"

\* The first check that fails decides.  The payload names the key, so it is
\* decoded before the signature is checked.
Verify(keys, t, c, size, now) ==
    IF t.form = "garbled"             THEN "malformed"
    ELSE IF t.form = "notjson"        THEN "payload_invalid"
    ELSE IF t.kid \notin DOMAIN keys  THEN "unknown_kid"
    ELSE IF t.signer # keys[t.kid]    THEN "bad_signature"
    ELSE Claims(t, c, size, now)

\* The audit reason of push.go's classifyTokenError.
classifyTokenError(err) ==
    CASE err = "unknown_kid"   -> "token_unknown_kid"
      [] err = "bad_signature" -> "token_invalid"
      [] err = "expired"       -> "token_expired"
      [] err = "cid_mismatch"  -> "token_cid_mismatch"
      [] err = "size_mismatch" -> "token_size_mismatch"
      [] err \in {"malformed", "payload_invalid"} -> "token_malformed"
      [] OTHER                 -> "token_invalid"
=============================================================================
