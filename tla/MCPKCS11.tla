------------------------------ MODULE MCPKCS11 ------------------------------
(***************************************************************************)
(* Instances of PKCS11 for TLC.                                            *)
(***************************************************************************)
EXTENDS PKCS11

\* Every goroutine is of one process.
CONSTANT p1
OneProcess == [r \in Request |-> p1]
=============================================================================
