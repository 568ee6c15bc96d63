---------------------------- MODULE RepoListing ----------------------------
(***************************************************************************)
(* What pkg repo promises: a run lists packages of the directory, each one *)
(* at most once, and then returns; a run that is given up lists no more.   *)
(* RepoCreate, with its worker processes, implements it.                   *)
(***************************************************************************)
CONSTANT Packages       \* the package files of the directory

VARIABLES
    listed,     \* how often the current or last run has listed each
    running     \* a run is in progress

Nothing == [p \in Packages |-> 0]

Init == listed = Nothing /\ running = FALSE

Begin ==
    /\ ~running
    /\ running' = TRUE
    /\ listed' = Nothing

List(p) ==
    /\ running /\ listed[p] = 0
    /\ listed' = [listed EXCEPT ![p] = 1]
    /\ UNCHANGED running

Return ==
    /\ running
    /\ running' = FALSE
    /\ UNCHANGED listed

Next == Begin \/ Return \/ \E p \in Packages : List(p)

Spec == Init /\ [][Next]_<<listed, running>>
============================================================================
