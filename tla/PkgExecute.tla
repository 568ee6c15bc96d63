---------------------------- MODULE PkgExecute -----------------------------
(***************************************************************************)
(* What pkg does to the local database and to the files on disk once it is *)
(* known what to do: pkg_jobs_execute and pkg_jobs_handle_install          *)
(* (libpkg/pkg_jobs.c), pkg_add_common and its helpers (libpkg/pkg_add.c), *)
(* pkg_delete (libpkg/pkg_delete.c), and the registration of packages and  *)
(* the transactions of libpkg/pkgdb.c.                                     *)
(*                                                                         *)
(* One process runs, with the exclusive lock.  It can be killed between    *)
(* any two steps; scripts, archives and statements can fail.  The database *)
(* is transactional, the disk is not: that is what the properties are      *)
(* about.                                                                  *)
(***************************************************************************)
EXTENDS Integers, Sequences

CONSTANTS
    Name,           \* origins of packages
    Pkg,            \* package archives: one name at one version each
    File,           \* paths
    None, Absent, User, Partial,    \* no package; contents of a path
    NameOf,         \* the name of a package
    FilesOf,        \* the paths its manifest lists
    DepsOf,         \* the packages its manifest depends on
    Archives,       \* archives in the directory pkg add reads from
    SelfName,       \* the name of pkg itself
    Initial,        \* the packages installed in the first state
    InitialLocked,  \* the locked ones of them
    ForceFlag,      \* -f was given
    AcceptMissing,  \* -M was given to pkg add
    Permissive,     \* the option PERMISSIVE, without DEVELOPER_MODE
    Splits,         \* conflicts split upgrades into a removal and an upgrade
    MaxJobs,        \* bound: jobs of one command
    MaxCommands,    \* bound: commands
    MaxFailures,    \* bound: crashes and failures
    MaxEdits        \* bound: files the user changes

Contents == Pkg \cup {Absent, User, Partial}

ASSUME ExecuteAssumption ==
    /\ NameOf \in [Pkg -> Name]
    /\ FilesOf \in [Pkg -> SUBSET File]
    /\ DepsOf \in [Pkg -> SUBSET Pkg]
    /\ Archives \subseteq Pkg
    /\ Initial \subseteq Pkg
    /\ InitialLocked \subseteq Initial
    /\ ForceFlag \in BOOLEAN
    /\ AcceptMissing \in BOOLEAN
    /\ Permissive \in BOOLEAN
    /\ Splits \in BOOLEAN
    /\ MaxJobs \in Nat
    /\ MaxCommands \in Nat
    /\ MaxFailures \in Nat
    /\ MaxEdits \in Nat
    /\ None \notin Pkg
    /\ {Absent, User, Partial} \cap Pkg = {}
    /\ Absent # User /\ Absent # Partial /\ User # Partial

\* What is installed at first has different names and disjoint files.
ASSUME InitialAssumption ==
    \A p, q \in Initial :
        p # q => NameOf[p] # NameOf[q] /\ FilesOf[p] \cap FilesOf[q] = {}

VARIABLES
    db,         \* the local database as the process sees it
    stored,     \* what is committed of it
    txn,        \* the open transaction
    disk,       \* the content of each path
    mode,       \* the command: jobs, add, or none
    todo,       \* its jobs, the current one first
    pc,         \* the next step of the current job
    files,      \* the paths that step has still to visit
    rc,         \* the result so far
    batch,      \* history: names whose rows or files changed, uncommitted
    suspect,    \* history: names a command worked on and did not finish
    clean,      \* history: no command failed or was killed so far
    commands, failures, edits

vars == <<db, stored, txn, disk, mode, todo, pc, files, rc, batch, suspect,
          clean, commands, failures, edits>>

JobTypes == {"delete", "upgrade_remove", "install", "upgrade", "add", "dep"}
Jobs == [type : JobTypes, pkg : Pkg, old : Pkg \cup {None}]
Databases == [installed : SUBSET Pkg, locked : SUBSET Pkg,
              owner : [File -> Pkg \cup {None}]]

\* The keys of the tables: one row per origin, and a row of files belongs to a
\* row of packages.
WellFormed(d) ==
    /\ d.locked \subseteq d.installed
    /\ \A f \in File : d.owner[f] \in d.installed \cup {None}
    /\ \A p, q \in d.installed : NameOf[p] = NameOf[q] => p = q

\* The steps in the middle of a job.
JobPc == {"predeinstall", "delete", "unregister", "open", "check", "deps",
          "register", "mtree", "cleanup_old", "delete_old", "extract", "fail",
          "unwind"}

TypeOK ==
    /\ db \in Databases /\ WellFormed(db)
    /\ stored \in Databases /\ WellFormed(stored)
    /\ txn \in {"none", "savepoint", "begin"}
    /\ disk \in [File -> Contents]
    /\ mode \in {"none", "jobs", "add"}
    /\ todo \in Seq(Jobs)
    /\ pc \in JobPc \cup {"idle", "next", "end"}
    /\ pc \in JobPc => todo # <<>>
    /\ todo # <<>> => todo[Len(todo)].type # "dep"
    /\ files \in SUBSET File
    /\ rc \in {"ok", "fatal", "locked", "installed"}
    /\ batch \in SUBSET Name /\ suspect \in SUBSET Name
    /\ clean \in BOOLEAN
    /\ commands \in 0 .. MaxCommands
    /\ failures \in 0 .. MaxFailures
    /\ edits \in 0 .. MaxEdits

---------------------------------------------------------------------------
(* The local database.                                                     *)

Owner(ps, f) ==
    IF \E p \in ps : f \in FilesOf[p]
    THEN CHOOSE p \in ps : f \in FilesOf[p] ELSE None

FilesIn(d, p) == {f \in File : d.owner[f] = p}

SameName(d, p) == {q \in d.installed : NameOf[q] = NameOf[p]}

\* DELETE FROM packages, and the rows of files that go with it.
Without(d, ps) ==
    [installed |-> d.installed \ ps,
     locked |-> d.locked \ ps,
     owner |-> [f \in File |->
                  IF d.owner[f] \in ps THEN None ELSE d.owner[f]]]

\* INSERT OR REPLACE INTO packages: the row of the same origin and name goes,
\* with its files and its lock flag.
Replaced(d, p) ==
    LET r == Without(d, SameName(d, p))
    IN  [installed |-> r.installed \cup {p},
         locked |-> r.locked, owner |-> r.owner]

\* Files of p whose path is the primary key of another package's file.
Conflicts(d, p) == {f \in FilesOf[p] : Replaced(d, p).owner[f] # None}

\* The files fs of p are inserted, the conflicting ones are left alone.
Registered(d, p, fs) ==
    LET r == Replaced(d, p)
    IN  [installed |-> r.installed, locked |-> r.locked,
         owner |-> [f \in File |->
                      IF f \in fs \ Conflicts(d, p) THEN p ELSE r.owner[f]]]

---------------------------------------------------------------------------

Init ==
    /\ db = [installed |-> Initial, locked |-> InitialLocked,
             owner |-> [f \in File |-> Owner(Initial, f)]]
    /\ stored = db
    /\ txn = "none"
    /\ disk = [f \in File |->
                 IF Owner(Initial, f) = None
                 THEN Absent ELSE Owner(Initial, f)]
    /\ mode = "none" /\ todo = <<>> /\ pc = "idle" /\ files = {} /\ rc = "ok"
    /\ batch = {} /\ suspect = {} /\ clean = TRUE
    /\ commands = 0 /\ failures = 0 /\ edits = 0

---------------------------------------------------------------------------
(* The commands.                                                           *)

\* A list of jobs as the solver hands it out, in any order: an installation
\* has nothing installed, a locked package is not upgraded.
SolvedJob(j) ==
    \/ /\ j.type \in {"delete", "upgrade_remove"} /\ j.old = None
       /\ j.pkg \in db.installed
    \/ /\ j.type = "install" /\ j.old = None
       /\ SameName(db, j.pkg) = {}
    \/ /\ j.type = "upgrade" /\ j.old \in SameName(db, j.pkg) \ db.locked

\* pkg_jobs_set_request_priority: an upgrade whose old package conflicts with
\* a new one is split, the removal comes before both.
IsSplit(js, i, k) ==
    /\ Splits /\ i < k
    /\ js[i].type = "upgrade_remove"
    /\ js[k].type = "upgrade" /\ js[k].old = js[i].pkg
    /\ \E n \in DOMAIN js \ 1 .. i :
          FilesOf[js[n].pkg] \cap FilesOf[js[i].pkg] # {} /\ n # k

JobLists ==
    {js \in UNION {[1 .. n -> {j \in Jobs : SolvedJob(j)}] :
                     n \in 1 .. MaxJobs} :
        /\ \A i, k \in DOMAIN js : i < k =>
              NameOf[js[i].pkg] # NameOf[js[k].pkg] \/ IsSplit(js, i, k)
        /\ \A i \in DOMAIN js :
              js[i].type = "upgrade_remove" =>
                  \E k \in DOMAIN js : IsSplit(js, i, k)}

\* pkg_jobs_execute starts.
StartJobs ==
    /\ mode = "none" /\ commands < MaxCommands
    /\ commands' = commands + 1
    /\ todo' \in JobLists
    /\ mode' = "jobs" /\ pc' = "next" /\ rc' = "ok"
    /\ txn' = "savepoint"
    /\ UNCHANGED <<db, stored, disk, files, batch, suspect, clean, failures,
                   edits>>

\* The arguments of pkg add.
AddLists ==
    {js \in UNION {[1 .. n -> {j \in Jobs : /\ j.type = "add" /\ j.old = None
                                           /\ j.pkg \in Archives}] :
                     n \in 1 .. MaxJobs} :
        \A i, k \in DOMAIN js : i # k => js[i].pkg # js[k].pkg}

\* pkg add starts.
StartAdd ==
    /\ mode = "none" /\ commands < MaxCommands
    /\ commands' = commands + 1
    /\ mode' = "add" /\ pc' = "next" /\ rc' = "ok"
    /\ todo' \in AddLists
    /\ UNCHANGED <<db, stored, txn, disk, files, batch, suspect, clean,
                   failures, edits>>

job == todo[1]

\* One more thing can go wrong.
Fails == failures < MaxFailures /\ failures' = failures + 1
Works == UNCHANGED failures

\* The names the process works on from now on.
Touch(p) ==
    /\ batch' = batch \cup {NameOf[p]}
    /\ suspect' = suspect \cup {NameOf[p]}

\* The switch of pkg_jobs_execute.
NextJob ==
    mode = "jobs" /\ pc = "next" /\ todo # <<>>

IsDelete == job.type \in {"delete", "upgrade_remove"}
IsSelf == job.type = "delete" /\ NameOf[job.pkg] = SelfName /\ ~ForceFlag

\* pkg itself is not deleted; the run goes on.
SkipSelf ==
    /\ NextJob /\ IsSelf
    /\ todo' = Tail(todo)
    /\ UNCHANGED <<db, stored, txn, disk, mode, pc, files, rc, batch, suspect,
                   clean, commands, failures, edits>>

\* pkg_delete of a locked package ends the run.
RefuseLocked ==
    /\ NextJob /\ IsDelete /\ ~IsSelf /\ job.pkg \in db.locked
    /\ pc' = "end" /\ rc' = "locked"
    /\ UNCHANGED <<db, stored, txn, disk, mode, todo, files, batch, suspect,
                   clean, commands, failures, edits>>

\* Fault: the lock of the package is not looked at.
BeginDeleteLocked ==
    /\ NextJob /\ IsDelete /\ ~IsSelf
    /\ pc' = "predeinstall"
    /\ Touch(job.pkg)
    /\ UNCHANGED <<db, stored, txn, disk, mode, todo, files, rc, clean,
                   commands, failures, edits>>

BeginDelete ==
    /\ NextJob /\ IsDelete /\ ~IsSelf /\ job.pkg \notin db.locked
    /\ pc' = "predeinstall"
    /\ Touch(job.pkg)
    /\ UNCHANGED <<db, stored, txn, disk, mode, todo, files, rc, clean,
                   commands, failures, edits>>

BeginInstall ==
    /\ NextJob /\ ~IsDelete
    /\ pc' = "open"
    /\ UNCHANGED <<db, stored, txn, disk, mode, todo, files, rc, batch,
                   suspect, clean, commands, failures, edits>>

\* The end of pkg_jobs_execute commits, whatever rc is.  What became of the
\* commit is not asked.
EndJobs ==
    /\ mode = "jobs"
    /\ pc = "end" \/ (pc = "next" /\ todo = <<>>)
    /\ txn' = "none" /\ mode' = "none" /\ pc' = "idle"
    /\ todo' = <<>> /\ files' = {} /\ batch' = {}
    /\ \/ /\ Works
          /\ stored' = db
          /\ suspect' = IF rc = "ok" THEN suspect \ batch ELSE suspect
          /\ clean' = (clean /\ rc = "ok")
          /\ UNCHANGED db
       \/ /\ Fails
          /\ db' = stored
          /\ clean' = FALSE
          /\ UNCHANGED <<stored, suspect>>
    /\ UNCHANGED <<disk, rc, commands, edits>>

---------------------------------------------------------------------------
(* pkg_delete.                                                             *)

\* A result other than EPKG_OK goes to cleanup without a rollback.
DeleteFailed ==
    /\ Fails
    /\ pc' = "end" /\ rc' = "fatal" /\ files' = {}
    /\ UNCHANGED todo

PreDeinstall ==
    /\ pc = "predeinstall"
    /\ \/ /\ Works
          /\ pc' = "delete" /\ files' = FilesIn(db, job.pkg)
          /\ UNCHANGED <<todo, rc>>
       \/ DeleteFailed
    /\ UNCHANGED <<db, stored, txn, disk, mode, batch, suspect, clean,
                   commands, edits>>

\* pkg_delete_file: unlink the path, unless its content is not the one that
\* was registered and nothing forces it.
Unlinked(f, p, forced) ==
    [disk EXCEPT ![f] = IF forced \/ @ = p THEN Absent ELSE @]

DeleteFile ==
    /\ pc = "delete"
    /\ \E f \in files :
        /\ disk' = Unlinked(f, job.pkg, ForceFlag)
        /\ files' = files \ {f}
    /\ UNCHANGED <<db, stored, txn, mode, todo, pc, rc, batch, suspect,
                   clean, commands, failures, edits>>

PostDeinstall ==
    /\ pc = "delete" /\ files = {}
    /\ \/ Works /\ pc' = "unregister" /\ UNCHANGED <<todo, rc, files>>
       \/ DeleteFailed
    /\ UNCHANGED <<db, stored, txn, disk, mode, batch, suspect, clean,
                   commands, edits>>

\* pkgdb_unregister_pkg.  It may fail before or after the row is deleted,
\* when it removes what no package refers to any more.
Unregister ==
    /\ pc = "unregister"
    /\ \/ /\ Works
          /\ db' = Without(db, {job.pkg})
          /\ pc' = "next" /\ todo' = Tail(todo)
          /\ UNCHANGED <<rc, files>>
       \/ /\ DeleteFailed
          /\ db' \in {db, Without(db, {job.pkg})}
    /\ UNCHANGED <<stored, txn, disk, mode, batch, suspect, clean, commands,
                   edits>>

---------------------------------------------------------------------------
(* pkg_add_common.                                                         *)

\* How a failed package leaves: pkg_jobs_handle_install rolls the whole run
\* back; pkg add returns from the calls for the package and for those it is a
\* dependency of, and goes on with its next argument.
AddFailed(code) ==
    /\ rc' = code
    /\ files' = {}
    /\ pc' = IF mode = "jobs" THEN "end" ELSE "unwind"
    /\ UNCHANGED todo

\* The database after a failure that ends with what add did to it.
RollBack(d, t) ==
    IF mode = "jobs" THEN db' = stored /\ UNCHANGED txn
                     ELSE db' = d /\ txn' = t

Unwind ==
    /\ pc = "unwind"
    /\ todo' = Tail(todo)
    /\ pc' = IF job.type = "dep" THEN "unwind" ELSE "next"
    /\ UNCHANGED <<db, stored, txn, disk, mode, files, rc, batch, suspect,
                   clean, commands, failures, edits>>

\* pkg_open2 reads the archive; it may be broken, not valid, or made for
\* another system.
Open ==
    /\ \/ pc = "open"
       \/ mode = "add" /\ pc = "next" /\ todo # <<>>
    /\ \/ /\ Works
          /\ pc' = IF mode = "jobs" THEN "register" ELSE "check"
          /\ UNCHANGED <<db, txn, todo, rc, files>>
       \/ Fails /\ AddFailed("fatal") /\ RollBack(db, txn)
    /\ UNCHANGED <<stored, disk, mode, batch, suspect, clean, commands,
                   edits>>

\* pkg_add_check_pkg_archive, for archives given on the command line: what is
\* installed already is refused, a missing dependency is added first from the
\* same directory, with the flag PKG_ADD_AUTOMATIC alone.
Forced == ForceFlag /\ job.type # "dep"
Accepting == AcceptMissing /\ job.type # "dep"
AlreadyThere(p) ==
    SameName(db, p) # {} /\ (~Forced \/ SameName(db, p) \cap db.locked # {})
Missing(p) ==
    {d \in DepsOf[p] : SameName(db, d) = {} /\ (d \in Archives \/ ~Accepting)}

CheckInstalled ==
    /\ pc = "check"
    /\ \/ /\ AlreadyThere(job.pkg)
          /\ AddFailed("installed")
       \/ /\ ~AlreadyThere(job.pkg)
          /\ pc' = "deps"
          /\ UNCHANGED <<todo, rc, files>>
    /\ UNCHANGED <<db, stored, txn, disk, mode, batch, suspect, clean,
                   commands, failures, edits>>

CheckDeps ==
    /\ pc = "deps"
    /\ \/ /\ Missing(job.pkg) = {}
          /\ pc' = "register"
          /\ UNCHANGED <<todo, rc, files>>
       \/ \E d \in Missing(job.pkg) \cap Archives :
             /\ todo' = <<[type |-> "dep", pkg |-> d, old |-> None]>> \o todo
             /\ pc' = "next"
             /\ UNCHANGED <<rc, files>>
       \/ /\ Missing(job.pkg) \ Archives # {}
          /\ AddFailed("fatal")
    /\ UNCHANGED <<db, stored, txn, disk, mode, batch, suspect, clean,
                   commands, failures, edits>>

\* pkgdb_register_pkg.  A job is inside the savepoint; pkg add begins a
\* transaction, which fails inside another one.
\* Fault: BEGIN inside a transaction is taken for a success.
CanAlwaysBegin == TRUE

CanBegin == mode = "jobs" \/ txn = "none"

\* Fault: a conflict is never an error.
AlwaysAcceptable(p) == p \in Pkg

Acceptable(p) == Forced \/ Permissive \/ Conflicts(db, p) = {}

Register ==
    /\ pc = "register" /\ CanBegin /\ Acceptable(job.pkg)
    /\ txn' = IF mode = "jobs" THEN txn ELSE "begin"
    /\ db' = Registered(db, job.pkg, FilesOf[job.pkg])
    /\ Touch(job.pkg)
    /\ pc' = "mtree"
    /\ UNCHANGED <<stored, disk, mode, todo, files, rc, clean, commands,
                   failures, edits>>

\* BEGIN fails, or a file belongs to another package, or a statement fails:
\* nothing is rolled back here, so what was inserted before stays in the open
\* transaction.
RegisterFailed ==
    /\ pc = "register" /\ AddFailed("fatal")
    /\ \/ ~CanBegin /\ Works /\ UNCHANGED <<db, txn>>
       \/ /\ CanBegin
          /\ (Works /\ ~Acceptable(job.pkg)) \/ Fails
          /\ \E fs \in SUBSET FilesOf[job.pkg] :
                RollBack(Registered(db, job.pkg, fs), "begin")
    /\ UNCHANGED <<stored, disk, mode, batch, suspect, clean, commands,
                   edits>>

\* do_extract_mtree.  A failure rolls back and leaves the disk alone.
ExtractMtree ==
    /\ pc = "mtree"
    /\ \/ /\ Works
          /\ IF job.type = "upgrade"
             THEN pc' = "cleanup_old" /\ files' = FilesIn(stored, job.old)
             ELSE pc' = "extract" /\ files' = FilesOf[job.pkg]
          /\ UNCHANGED <<db, txn, todo, rc>>
       \/ Fails /\ AddFailed("fatal") /\ RollBack(stored, "none")
    /\ UNCHANGED <<stored, disk, mode, batch, suspect, clean, commands,
                   edits>>

\* Fault: the files of the old package are not compared with the new ones.
CleanupOldForgotten ==
    /\ pc = "cleanup_old" /\ Works
    /\ pc' = "delete_old" /\ files' = {}
    /\ UNCHANGED <<db, stored, txn, disk, mode, todo, rc, batch, suspect,
                   clean, commands, edits>>

\* pkg_add_cleanup_old: the old package's script may refuse.
CleanupOld ==
    /\ pc = "cleanup_old"
    /\ \/ /\ Works
          /\ pc' = "delete_old"
          /\ files' = files \ FilesOf[job.pkg]
          /\ UNCHANGED <<db, txn, todo, rc>>
       \/ Fails /\ AddFailed("fatal") /\ RollBack(db, txn)
    /\ UNCHANGED <<stored, disk, mode, batch, suspect, clean, commands,
                   edits>>

\* It unlinks the files the new package no longer has.  Its force argument is
\* "flags & PKG_DELETE_FORCE", the bit that PKG_ADD_UPGRADE is, so it is
\* always forced.
DeleteOldFile ==
    /\ pc = "delete_old"
    /\ IF files = {}
       THEN pc' = "extract" /\ files' = FilesOf[job.pkg] /\ UNCHANGED disk
       ELSE \E f \in files :
              /\ disk' = Unlinked(f, job.old, TRUE)
              /\ files' = files \ {f}
              /\ UNCHANGED pc
    /\ UNCHANGED <<db, stored, txn, mode, todo, rc, batch, suspect, clean,
                   commands, failures, edits>>

\* do_extract writes the files, an existing one by rename.
ExtractFile ==
    /\ pc = "extract"
    /\ \E f \in files :
        /\ disk' = [disk EXCEPT ![f] = job.pkg]
        /\ files' = files \ {f}
    /\ UNCHANGED <<db, stored, txn, mode, todo, pc, rc, batch, suspect,
                   clean, commands, failures, edits>>

\* It fails: pkg_delete_files(pkg, 2) starts to remove every file of the
\* package.
ExtractFailed ==
    /\ pc = "extract" /\ Fails
    /\ pc' = "fail" /\ files' = FilesOf[job.pkg]
    /\ UNCHANGED <<db, stored, txn, disk, mode, todo, rc, batch, suspect,
                   clean, commands, edits>>

\* The files are removed, then the registration is rolled back.
UndoExtract ==
    /\ pc = "fail"
    /\ IF files # {}
       THEN /\ \E f \in files :
                 /\ disk' = Unlinked(f, job.pkg, TRUE)
                 /\ files' = files \ {f}
            /\ UNCHANGED <<db, txn, todo, pc, rc>>
       ELSE /\ AddFailed("fatal") /\ RollBack(stored, "none")
            /\ UNCHANGED disk
    /\ UNCHANGED <<stored, mode, batch, suspect, clean, commands, failures,
                   edits>>

\* The end of a successful pkg_add_common: pkgdb_register_finale commits,
\* unless the package is part of a run of jobs.  What became of the commit is
\* not asked.
Installed ==
    /\ pc = "extract" /\ files = {}
    /\ pc' = IF job.type = "dep" THEN "deps" ELSE "next"
    /\ todo' = Tail(todo)
    /\ \/ /\ mode = "jobs" /\ Works
          /\ UNCHANGED <<stored, txn, batch, suspect, clean>>
       \/ /\ mode = "add" /\ Works
          /\ stored' = db /\ txn' = "none"
          /\ batch' = batch \ {NameOf[job.pkg]}
          /\ suspect' = suspect \ {NameOf[job.pkg]}
          /\ UNCHANGED clean
       \/ /\ mode = "add" /\ Fails
          /\ clean' = FALSE
          /\ UNCHANGED <<stored, txn, batch, suspect>>
    /\ UNCHANGED <<db, disk, mode, files, rc, commands, edits>>

\* The end of pkg add: closing the database undoes an open transaction.
EndAdd ==
    /\ mode = "add" /\ pc = "next" /\ todo = <<>>
    /\ db' = stored /\ txn' = "none"
    /\ mode' = "none" /\ pc' = "idle" /\ batch' = {}
    /\ clean' = (clean /\ rc = "ok")
    /\ UNCHANGED <<stored, disk, todo, files, rc, suspect, commands, failures,
                   edits>>

---------------------------------------------------------------------------
(* The environment.                                                        *)

\* The process is killed: the transaction is gone, the disk stays, with a
\* file half written that was new.
Crash ==
    /\ mode # "none" /\ Fails
    /\ db' = stored /\ txn' = "none"
    /\ mode' = "none" /\ pc' = "idle" /\ todo' = <<>> /\ files' = {}
    /\ rc' = "fatal" /\ batch' = {} /\ clean' = FALSE
    /\ \/ UNCHANGED disk
       \/ /\ pc = "extract"
          /\ \E f \in files : disk[f] = Absent
                              /\ disk' = [disk EXCEPT ![f] = Partial]
    /\ UNCHANGED <<stored, suspect, commands, edits>>

\* The user changes a file.
Edit(f) ==
    /\ mode = "none" /\ edits < MaxEdits
    /\ edits' = edits + 1
    /\ disk' = [disk EXCEPT ![f] = User]
    /\ UNCHANGED <<db, stored, txn, mode, todo, pc, files, rc, batch, suspect,
                   clean, commands, failures>>

---------------------------------------------------------------------------

Step ==
    \/ SkipSelf \/ RefuseLocked \/ BeginDelete \/ BeginInstall \/ EndJobs
    \/ PreDeinstall \/ DeleteFile \/ PostDeinstall \/ Unregister
    \/ Open \/ CheckInstalled \/ CheckDeps \/ Register \/ RegisterFailed
    \/ ExtractMtree \/ CleanupOld \/ DeleteOldFile
    \/ ExtractFile \/ ExtractFailed \/ UndoExtract \/ Unwind
    \/ Installed \/ EndAdd

Next ==
    \/ StartJobs \/ StartAdd
    \/ Step
    \/ Crash
    \/ \E f \in File : Edit(f)

Spec == Init /\ [][Next]_vars

---------------------------------------------------------------------------
(* Properties.                                                             *)

\* Nothing was asked to overlook conflicts between packages.
Strict == ~ForceFlag /\ ~Permissive

\* Whatever fails and whenever the process is killed, the files of a package
\* that no unfinished command worked on are on disk as they were registered,
\* but for what the user changed: registering a package before extracting it
\* keeps pkg_add_common away from the files of the others.
OwnedIntact ==
    (Strict /\ ~Splits) => \A f \in File :
        LET p == stored.owner[f]
        IN  p # None => NameOf[p] \in suspect \/ disk[f] \in {p, User}

\* The committed database has a package with all of its files or not at all,
\* although a failed pkgdb_register_pkg leaves half of it in a transaction
\* that pkg add does not roll back.
NoPartialRegistration ==
    Strict => \A p \in stored.installed : FilesIn(stored, p) = FilesOf[p]

\* As long as every command succeeded, the disk has no file of a package that
\* is not registered for that very package: upgrades and deletions leave
\* nothing behind, files may move from one package to another.
NoStrayFiles ==
    (Strict /\ clean /\ mode = "none") => \A f \in File :
        disk[f] \in Pkg => stored.owner[f] = disk[f]

\* pkg-lock(8): any operation that implies a modification of a locked package
\* is blocked.  Its row, its lock and its files stay.
LockedUntouched ==
    [][\A p \in stored.locked :
         /\ p \in stored'.installed /\ p \in stored'.locked
         /\ \A f \in FilesIn(stored, p) : disk'[f] \in {disk[f], User}]_vars

=============================================================================
