--------------------------- MODULE MCPkgExecute ----------------------------
(* Instances of PkgExecute for TLC.                                        *)
EXTENDS PkgExecute, TLC

CONSTANTS a1, a2, b1, c1, f1, f2, f3, a, b, c

MCNameOf == a1 :> a @@ a2 :> a @@ b1 :> b @@ c1 :> c

\* The second version of a gives up f1 and takes f2, which b has too; b needs
\* c, which needs a.
MCFilesOf == a1 :> {f1} @@ a2 :> {f2} @@ b1 :> {f2} @@ c1 :> {f3}
MCDepsOf == a1 :> {} @@ a2 :> {} @@ b1 :> {c1} @@ c1 :> {a1}

\* b takes over the file that the second version of a gives up, and needs a.
MCFilesMove == a1 :> {f1} @@ a2 :> {f2} @@ b1 :> {f1} @@ c1 :> {f3}
MCDepsMove == a1 :> {} @@ a2 :> {} @@ b1 :> {a1} @@ c1 :> {}
=============================================================================
