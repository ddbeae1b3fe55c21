---------------------------- MODULE MCSignedURLs ----------------------------
(***************************************************************************)
(* Instances of SignedURLs for TLC, beside those of ArtifactServer.        *)
(***************************************************************************)
EXTENDS SignedURLs, MCArtifactServer

\* None, an ordinary lifetime, the longest that fits, and one second more.
SomeExpiries == {0, 1, MaxSeconds, MaxSeconds + 1}
=============================================================================
