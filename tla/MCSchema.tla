------------------------------ MODULE MCSchema ------------------------------
(***************************************************************************)
(* The local database and the database of a repository, each with its own  *)
(* commands.  They share nothing, so a behaviour is about one of them.     *)
(***************************************************************************)
EXTENDS ScriptFacts, TLC

LocalIdle ==
    /\ start = Absent
    /\ lax = FALSE
    /\ file = Absent
    /\ proc = [p \in Procs |-> Closed(MaxOpens)]
    /\ rewound = FALSE
    /\ crashes = 0
RepoIdle ==
    /\ rstart = NoFile
    /\ repofile = NoFile
    /\ rproc = [p \in RepoProcs |-> Idle(MaxRepoOpens)]
    /\ inodes = 1
    /\ rcrashes = 0

MCInit == (Init /\ RepoIdle) \/ (LocalIdle /\ RepoInit)
MCNext ==
    \/ Next /\ UNCHANGED rvars
    \/ RepoNext /\ UNCHANGED vars
MCSpec == MCInit /\ [][MCNext]_<<vars, rvars>>

Symmetric == Permutations(Procs) \cup Permutations(RepoProcs)

=============================================================================
