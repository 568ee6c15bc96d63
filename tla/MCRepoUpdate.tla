--------------------------- MODULE MCRepoUpdate ----------------------------
(* Two packages: the second publication has a new version of a and adds b, *)
(* the third drops a.                                                      *)
EXTENDS RepoUpdate, TLC

CONSTANTS a, b, p1, p2, i1, i2, i3

MCContent ==
    [v \in 1..Published |->
        [o \in Origin |-> IF o = a THEN <<1, 2, NoPkg>>[v]
                          ELSE <<NoPkg, 1, 1>>[v]]]

Symmetry == Permutations(Proc) \cup Permutations(Inode)

\* What is left in a file without name and readers does not matter.
Relevant ==
    <<served, meta, file, writer, pc, mine, history,
      [i \in Inode |-> IF Free(i) THEN NoFile ELSE node[i]]>>
============================================================================
