-------------------------- MODULE MCVaultTransit ---------------------------
(***************************************************************************)
(* Instances of VaultTransit for TLC.                                      *)
(***************************************************************************)
EXTENDS VaultTransit, TLC

GoroutinesAndArtifacts == Permutations(Request) \cup Permutations(CID)
=============================================================================
