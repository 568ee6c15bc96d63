----------------------------- MODULE RepoSchema -----------------------------
(***************************************************************************)
(* The schema of a repository's database: pkg_repo_binary_check_version,   *)
(* pkg_repo_binary_apply_change and what pkg_repo_binary_open and          *)
(* pkg_repo_binary_init_update do with their answer                        *)
(* (src/libpkg/repo/binary/init.c, update.c).  A command that reads opens  *)
(* the file read-only; pkg update opens it for writing, upgrades it, and   *)
(* makes it anew when that fails.  RepoUpdate has the rest of an update.   *)
(***************************************************************************)
EXTENDS RepoScripts

CONSTANTS
    RepoProcs,      \* the commands
    RepoStarts,     \* user_version of the file at the start
    NoFile,         \* no file of that name
    MaxRepoOpens,   \* bound: opens of one command
    MaxRepoCrashes  \* bound: deaths

ASSUME RepoBoundsAssumption == MaxRepoOpens \in Nat /\ MaxRepoCrashes \in Nat
ASSUME RepoStartsAssumption ==
    NoFile \notin Nat /\ \A s \in RepoStarts : s = NoFile \/ s \in Nat

VARIABLES
    rstart,     \* user_version of the first file
    repofile,   \* the file of that name, with the number of its inode, or NoFile
    rproc,      \* the state of each command
    inodes,     \* files made so far
    rcrashes    \* deaths so far

rvars == <<rstart, repofile, rproc, inodes, rcrashes>>

Idle(opens) ==
    [pc |-> "idle", write |-> FALSE, made |-> FALSE, version |-> 0, inode |-> 0,
     opens |-> opens]

RepoInit ==
    /\ rstart \in RepoStarts
    /\ repofile = IF rstart = NoFile THEN NoFile ELSE [inode |-> 1, db |-> MadeRepo(rstart)]
    /\ rproc = [p \in RepoProcs |-> Idle(0)]
    /\ inodes = 1
    /\ rcrashes = 0

RGoto(p, pc) == rproc' = [rproc EXCEPT ![p].pc = pc]

\* The command still has the file of that name open.
Current(p) == repofile # NoFile /\ repofile.inode = rproc[p].inode

(***************************************************************************)
(* pkg_repo_binary_open: access, repodata, version.                        *)
(***************************************************************************)
RepoOpen(p, write) ==
    /\ rproc[p].pc = "idle"
    /\ rproc[p].opens < MaxRepoOpens
    /\ rproc' = [rproc EXCEPT ![p] =
           [Idle(@.opens + 1) EXCEPT
              !.pc = IF repofile # NoFile /\ "repodata" \in Tables(repofile.db)
                     THEN "check" ELSE "refused",
              !.write = write,
              !.inode = IF repofile = NoFile THEN 0 ELSE repofile.inode]]
    /\ UNCHANGED <<rstart, repofile, inodes, rcrashes>>

\* The old numbers 2 and 3 of the schema.
Grandfathered(v) == IF v = 2 THEN 2000 ELSE IF v = 3 THEN 2001 ELSE v

\* Fault: a reader takes any schema of the same major version.
CheckVersionLax(p) ==
    /\ rproc[p].pc = "check"
    /\ Current(p)
    /\ LET v == Grandfathered(repofile.db.version)
       IN  rproc' = [rproc EXCEPT
               ![p].version = v,
               ![p].pc = IF v \div 1000 # REPO_SCHEMA_MAJOR THEN "schema"
                         ELSE IF v = REPO_SCHEMA_VERSION THEN "open"
                         ELSE IF v < REPO_SCHEMA_VERSION
                              THEN IF rproc[p].write THEN "change" ELSE "open"
                         ELSE "schema"]
    /\ UNCHANGED <<rstart, repofile, inodes, rcrashes>>

CheckVersion(p) ==
    /\ rproc[p].pc = "check"
    /\ Current(p)
    /\ LET v == Grandfathered(repofile.db.version)
       IN  rproc' = [rproc EXCEPT
               ![p].version = v,
               ![p].pc = IF v \div 1000 # REPO_SCHEMA_MAJOR THEN "schema"
                         ELSE IF v = REPO_SCHEMA_VERSION THEN "open"
                         ELSE IF v < REPO_SCHEMA_VERSION /\ rproc[p].write THEN "change"
                         ELSE "schema"]
    /\ UNCHANGED <<rstart, repofile, inodes, rcrashes>>

\* pkg_repo_binary_apply_change: the change and the version in one savepoint.
ApplyChange(p) ==
    /\ rproc[p].pc = "change"
    /\ Current(p)
    /\ LET v == rproc[p].version
           after == IF Found(v) THEN Changed(repofile.db, v) ELSE Failed(repofile.db)
       IN  /\ repofile' = IF after.ok THEN [repofile EXCEPT !.db = after] ELSE repofile
           /\ rproc' = [rproc EXCEPT
                  ![p].version = v + 1,
                  ![p].pc = IF ~after.ok THEN "schema"
                            ELSE IF v + 1 = REPO_SCHEMA_VERSION THEN "open" ELSE "change"]
    /\ UNCHANGED <<rstart, inodes, rcrashes>>

\* The file was unlinked under a command that still works on it: nobody else
\* sees what it does, and it may end either way.
OnOldFile(p) ==
    /\ rproc[p].pc \in {"check", "change"}
    /\ ~Current(p)
    /\ \E pc \in {"open", "schema"} : RGoto(p, pc)
    /\ UNCHANGED <<rstart, repofile, inodes, rcrashes>>

\* The database is busy or the disk is full.
ChangeFails(p) ==
    /\ rproc[p].pc \in {"check", "change"}
    /\ RGoto(p, "schema")
    /\ UNCHANGED <<rstart, repofile, inodes, rcrashes>>

\* The version check failed: a writer removes the file of that name.
SchemaRefused(p) ==
    /\ rproc[p].pc = "schema"
    /\ repofile' = IF rproc[p].write THEN NoFile ELSE repofile
    /\ RGoto(p, "refused")
    /\ UNCHANGED <<rstart, inodes, rcrashes>>

(***************************************************************************)
(* pkg_repo_binary_init_update after a refused open: unlink, create, open  *)
(* once more.  Readers are told to run pkg update.                         *)
(***************************************************************************)
RepoFatal(p) ==
    /\ rproc[p].pc = "refused"
    /\ ~rproc[p].write \/ rproc[p].made
    /\ rproc' = [rproc EXCEPT ![p] = Idle(@.opens)]
    /\ UNCHANGED <<rstart, repofile, inodes, rcrashes>>

UnlinkRepo(p) ==
    /\ rproc[p].pc = "refused"
    /\ rproc[p].write /\ ~rproc[p].made
    /\ repofile' = NoFile
    /\ RGoto(p, "create")
    /\ UNCHANGED <<rstart, inodes, rcrashes>>

\* EPKG_CONFLICT when another command was faster.
CreateTables(p) ==
    /\ rproc[p].pc = "create"
    /\ IF repofile = NoFile
       THEN /\ inodes' = inodes + 1
            /\ repofile' = [inode |-> inodes + 1, db |-> RepoCreated]
            /\ rproc' = [rproc EXCEPT ![p].pc = "repodata", ![p].inode = inodes + 1]
       ELSE /\ rproc' = [rproc EXCEPT ![p] = Idle(@.opens)]
            /\ UNCHANGED <<repofile, inodes>>
    /\ UNCHANGED <<rstart, rcrashes>>

CreateRepodata(p) ==
    /\ rproc[p].pc = "repodata"
    /\ repofile' = IF Current(p) THEN [repofile EXCEPT !.db = Script(@, <<RepodataTable>>, FALSE)]
                   ELSE repofile
    /\ RGoto(p, "again")
    /\ UNCHANGED <<rstart, inodes, rcrashes>>

OpenAgain(p) ==
    /\ rproc[p].pc = "again"
    /\ rproc' = [rproc EXCEPT
           ![p].made = TRUE,
           ![p].pc = IF repofile # NoFile /\ "repodata" \in Tables(repofile.db)
                     THEN "check" ELSE "refused",
           ![p].inode = IF repofile = NoFile THEN 0 ELSE repofile.inode]
    /\ UNCHANGED <<rstart, repofile, inodes, rcrashes>>

RepoClose(p) ==
    /\ rproc[p].pc = "open"
    /\ rproc' = [rproc EXCEPT ![p] = Idle(@.opens)]
    /\ UNCHANGED <<rstart, repofile, inodes, rcrashes>>

RepoCrash(p) ==
    /\ rproc[p].pc # "idle"
    /\ rcrashes < MaxRepoCrashes
    /\ rcrashes' = rcrashes + 1
    /\ rproc' = [rproc EXCEPT ![p] = Idle(@.opens)]
    /\ UNCHANGED <<rstart, repofile, inodes>>

RepoNext ==
    \E p \in RepoProcs :
        \/ \E write \in BOOLEAN : RepoOpen(p, write)
        \/ CheckVersion(p) \/ ApplyChange(p) \/ OnOldFile(p) \/ ChangeFails(p)
        \/ SchemaRefused(p) \/ RepoFatal(p) \/ UnlinkRepo(p) \/ CreateTables(p)
        \/ CreateRepodata(p) \/ OpenAgain(p) \/ RepoClose(p) \/ RepoCrash(p)

RepoSpec == RepoInit /\ [][RepoNext]_rvars

(***************************************************************************)
(* Properties.                                                             *)
(***************************************************************************)
\* A command that has the repository open works on a whole schema: every
\* table, column, reference and unique index of a new one, with all the values
\* the first file had unless the file has been made anew.  That holds however
\* many commands upgrade the file at once and whichever of them died.
RepoWhole ==
    \A p \in RepoProcs :
        (rproc[p].pc = "open" /\ Current(p)) =>
            /\ Covers(repofile.db, NewRepo)
            /\ repofile.inode = 1 => MadeRepo(rstart).cols \subseteq Kept(repofile.db)

=============================================================================
