------------------------------ MODULE MCGCPKMS ------------------------------
(***************************************************************************)
(* Instances of GCPKMS for TLC.                                            *)
(***************************************************************************)
EXTENDS GCPKMS, TLC

GoroutinesAndArtifacts == Permutations(Request) \cup Permutations(CID)
=============================================================================
