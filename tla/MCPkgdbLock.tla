---------------------------- MODULE MCPkgdbLock ----------------------------
(* Instances of PkgdbLock for TLC.                                         *)
EXTENDS PkgdbLock, TLC
=============================================================================
