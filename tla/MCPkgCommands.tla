--------------------------- MODULE MCPkgCommands ---------------------------
(* An instance of PkgCommands for TLC.                                     *)
EXTENDS PkgCommands, TLC

\* Processes are interchangeable.
Symmetry == Permutations(Proc)
=============================================================================
