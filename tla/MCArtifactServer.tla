------------------------- MODULE MCArtifactServer --------------------------
(***************************************************************************)
(* Instances of ArtifactServer for TLC.                                    *)
(***************************************************************************)
EXTENDS ArtifactServer, TLC

\* Lengths around MaxBody = 1: empty, at the limit, and over it.
Lengths == 0..2

\* One byte hashes to c1, everything else to c2.
CONSTANTS c1, c2
Digest == [b \in Body |-> IF b = 1 THEN c1 ELSE c2]

\* With one CID, every body is its content.
OneDigest == [b \in Body |-> c1]

\* A good token for one byte under c1, and tokens wrong in one respect each.
Good == [form |-> "ok", kid |-> "op1", signer |-> "key1", exp |-> 1,
         cid |-> c1, size |-> 1]

SomeTokens ==
    {Good,
     [Good EXCEPT !.form = "garbled"],
     [Good EXCEPT !.form = "notjson"],
     [Good EXCEPT !.kid = "op9"],
     [Good EXCEPT !.signer = "key2"],
     [Good EXCEPT !.exp = 0],
     [Good EXCEPT !.cid = c2],
     [Good EXCEPT !.size = 0]}

NoTokens == {}

Goroutines == Permutations(Request)

TrustedKeys == [kid \in {"op1"} |-> "key1"]
=============================================================================
