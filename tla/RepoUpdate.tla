---------------------------- MODULE RepoUpdate -----------------------------
(***************************************************************************)
(* How pkg brings its copy of a repository's catalogue up to date:         *)
(* pkg_repo_binary_update and pkg_repo_binary_update_incremental           *)
(* (libpkg/repo/binary/update.c), opening and creating the database        *)
(* (libpkg/repo/binary/init.c), and the download of the three files a      *)
(* repository publishes (libpkg/pkg_repo.c, libpkg/fetch.c).               *)
(*                                                                         *)
(* No command holds a lock while it updates catalogues, so updates of      *)
(* several processes overlap.  A process may die anywhere, any download    *)
(* and any SQL statement may fail, and the server may publish a new        *)
(* catalogue between two downloads.                                        *)
(*                                                                         *)
(* Time is the number of publications.  What is published as number v has  *)
(* the modification time v (pkg_finish_repo gives the archives one time),  *)
(* and a file that is written locally while v is served has the time v.    *)
(*                                                                         *)
(* Left out: digests without a checksum (repositories of old versions),    *)
(* ssh, and the signatures, of which only good and bad are told apart.     *)
(***************************************************************************)
EXTENDS Naturals

CONSTANTS
    Proc,           \* pkg processes
    Origin, Cksum,  \* packages of the catalogue and their checksums
    NoPkg,          \* an origin the catalogue does not have
    Published,      \* bound: the number of publications
    MaxUpdates,     \* bound: the number of updates that are started
    Content,        \* what each publication has
    Inode,          \* database files, unlinked ones too
    NoFile, NoProc

Catalogue == [Origin -> Cksum \cup {NoPkg}]
Empty == [o \in Origin |-> NoPkg]

ASSUME UpdateAssumption ==
    /\ Published \in Nat \ {0}
    /\ MaxUpdates \in Nat
    /\ Content \in [1..Published -> Catalogue]
    /\ NoPkg \notin Cksum
    /\ NoFile \notin Inode
    /\ NoProc \notin Proc

VARIABLES
    served,         \* the publication the server has
    updates,        \* history: the updates started so far
    meta,           \* the file .meta: its time, Absent or Broken
    file,           \* the inode of the database, if any
    node,           \* the committed contents of the inodes
    writer,         \* the process with a write transaction
    pc,
    force, t, got,  \* of pkg_repo_binary_update: force, t, got_meta
    dig, man,       \* the publications digests and packagesite are from
    handle,         \* repo->priv
    ldel, ladd,     \* of pkg_repo_binary_update_incremental
    view,           \* the catalogue as the transaction sees it
    alone,          \* history: no other update has run during this one
    clean,          \* history: no update began to change files and did not
                    \* end well since the last one that did, alone
    whole           \* history: the catalogue was last written by an update
                    \* that ran alone and got files of one publication

disk == <<meta, file, node, writer>>
mine == <<force, t, got, dig, man, handle, ldel, ladd, view>>
history == <<updates, alone, clean, whole>>
vars == <<served, disk, pc, mine, history>>

\* There is no file .meta, or it cannot be loaded.
Absent == 0
Broken == Published + 1
Loaded == 1..Published
----------------------------------------------------------------------------
\* pkg_repo_binary_open: the metafile can be loaded if there is one, and the
\* database has its table repodata.
Openable ==
    /\ meta # Broken
    /\ file # NoFile
    /\ node[file].ready

\* A process can write to the inode unless another one is doing so: SQLite
\* answers SQLITE_BUSY at once.
CanWrite(p) == writer[handle[p]] \in {NoProc, p}

\* There is no database yet, or that of the first publication, with a file
\* .meta or, if the repository had none, without one.
Init ==
    /\ served = 1
    /\ file \in Inode \cup {NoFile}
    /\ meta \in (IF file = NoFile THEN {Absent} ELSE {Absent, 1})
    /\ node = [i \in Inode |->
                 [pkgs |-> IF i = file THEN Content[1] ELSE Empty,
                  mark |-> FALSE, mtime |-> 1, ready |-> i = file]]
    /\ writer = [i \in Inode |-> NoProc]
    /\ pc = [p \in Proc |-> "idle"]
    /\ force = [p \in Proc |-> FALSE]
    /\ t = [p \in Proc |-> 0]
    /\ got = [p \in Proc |-> FALSE]
    /\ dig = [p \in Proc |-> 1] /\ man = [p \in Proc |-> 1]
    /\ handle = [p \in Proc |-> NoFile]
    /\ ldel = [p \in Proc |-> {}] /\ ladd = [p \in Proc |-> {}]
    /\ view = [p \in Proc |-> Empty]
    /\ alone = [p \in Proc |-> FALSE]
    /\ updates = 0 /\ clean = TRUE /\ whole = TRUE

At(p, l) == pc[p] = l
Goto(p, l) == pc' = [pc EXCEPT ![p] = l]

\* The server: pkg repo publishes the next catalogue.
Publish ==
    /\ served < Published
    /\ served' = served + 1
    /\ UNCHANGED <<disk, pc, mine, history>>

\* The function returns, or the process is gone: so is the connection, with
\* what was not committed.
Return(p) ==
    /\ Goto(p, "idle")
    /\ force' = [force EXCEPT ![p] = FALSE]
    /\ t' = [t EXCEPT ![p] = 0]
    /\ got' = [got EXCEPT ![p] = FALSE]
    /\ dig' = [dig EXCEPT ![p] = 1]
    /\ man' = [man EXCEPT ![p] = 1]
    /\ handle' = [handle EXCEPT ![p] = NoFile]
    /\ ldel' = [ldel EXCEPT ![p] = {}]
    /\ ladd' = [ladd EXCEPT ![p] = {}]
    /\ view' = [view EXCEPT ![p] = Empty]
    /\ alone' = [alone EXCEPT ![p] = FALSE]
    /\ writer' = [i \in Inode |-> IF writer[i] = p THEN NoProc ELSE writer[i]]

\* EPKG_FATAL, EPKG_UPTODATE or a crash, without a change to the files.
ReturnOnly(p) ==
    /\ Return(p)
    /\ UNCHANGED <<served, meta, file, node, updates, clean, whole>>
----------------------------------------------------------------------------
(* The beginning of pkg_repo_binary_update.                                *)

\* The age of the local copy: of .meta, or of the database without one.
LocalTime == IF meta # Absent THEN meta ELSE node[file].mtime

Start(p) ==
    /\ At(p, "idle")
    /\ updates < MaxUpdates
    /\ updates' = updates + 1
    /\ \E f \in BOOLEAN :
          IF Openable
          THEN /\ force' = [force EXCEPT ![p] = f]
               /\ got' = [got EXCEPT ![p] = (meta # Absent)]
               /\ t' = [t EXCEPT ![p] = IF f THEN 0 ELSE LocalTime]
          ELSE /\ force' = [force EXCEPT ![p] = TRUE]
               /\ got' = [got EXCEPT ![p] = FALSE]
               /\ t' = [t EXCEPT ![p] = 0]
    /\ LET busy == {q \in Proc \ {p} : pc[q] # "idle"} IN
          alone' = [q \in Proc |->
                      IF q = p THEN busy = {} ELSE alone[q] /\ q \notin busy]
    /\ Goto(p, "meta")
    /\ UNCHANGED <<served, disk, dig, man, handle, ldel, ladd, view,
                   clean, whole>>
----------------------------------------------------------------------------
(* pkg_repo_fetch_meta.                                                    *)

\* pkg_fetch_file_to_fd: the server has something newer.
Newer(p) == served > t[p]

\* There is no newer one, or it cannot be fetched: the update goes on.
KeepMeta(p) ==
    /\ At(p, "meta")
    /\ Goto(p, "digests")
    /\ UNCHANGED <<served, disk, mine, history>>

UnlinkMeta(p) ==
    /\ At(p, "meta") /\ Newer(p)
    /\ meta' = Absent
    /\ clean' = FALSE
    /\ Goto(p, "write meta")
    /\ UNCHANGED <<served, file, node, writer, mine, updates, alone, whole>>

WriteMeta(p) ==
    /\ At(p, "write meta")
    /\ meta' = Broken
    /\ Goto(p, "check meta")
    /\ UNCHANGED <<served, file, node, writer, mine, history>>

\* The last bytes are written and the file is loaded; if another process has
\* unlinked it, that one's file is looked at.
LoadMeta(p) ==
    /\ At(p, "check meta")
    /\ \/ meta = Broken /\ meta' = served
       \/ meta \in Loaded /\ meta' \in {meta, served}
    /\ Goto(p, "digests")
    /\ UNCHANGED <<served, file, node, writer, mine, history>>

\* Extraction or verification fails.  Some of the error paths unlink the file
\* and some leave it behind; the update goes on.
RefuseMeta(p) ==
    /\ At(p, "check meta")
    /\ meta' \in {Absent, meta, IF meta = Broken THEN served ELSE meta}
    /\ Goto(p, "digests")
    /\ UNCHANGED <<served, file, node, writer, mine, history>>
----------------------------------------------------------------------------
(* The download of digests and packagesite.                                *)

UpToDate(p) ==
    /\ At(p, "digests") /\ ~Newer(p)
    /\ ReturnOnly(p)

FetchDigests(p) ==
    /\ At(p, "digests") /\ Newer(p)
    /\ dig' = [dig EXCEPT ![p] = served]
    /\ Goto(p, "packagesite")
    /\ UNCHANGED <<served, disk, force, t, got, man, handle, ldel, ladd, view,
                   history>>

\* Fault: the time of the other file is kept.
FetchManifestTime(p) ==
    /\ At(p, "packagesite") /\ Newer(p)
    /\ man' = [man EXCEPT ![p] = served]
    /\ t' = [t EXCEPT ![p] = served]
    /\ Goto(p, "open")
    /\ UNCHANGED <<served, disk, force, got, dig, handle, ldel, ladd, view,
                   history>>

\* *mtime = digest_t
FetchManifest(p) ==
    /\ At(p, "packagesite") /\ Newer(p)
    /\ man' = [man EXCEPT ![p] = served]
    /\ t' = [t EXCEPT ![p] = dig[p]]
    /\ Goto(p, "open")
    /\ UNCHANGED <<served, disk, force, got, dig, handle, ldel, ladd, view,
                   history>>

FetchFailed(p) ==
    /\ pc[p] \in {"digests", "packagesite"}
    /\ ReturnOnly(p)
----------------------------------------------------------------------------
(* pkg_repo_binary_init_update.                                            *)

OpenRepo(p) ==
    /\ At(p, "open") /\ ~force[p] /\ Openable
    /\ handle' = [handle EXCEPT ![p] = file]
    /\ Goto(p, "mark")
    /\ UNCHANGED <<served, disk, force, t, got, dig, man, ldel, ladd, view,
                   history>>

UnlinkRepo(p) ==
    /\ At(p, "open") /\ (force[p] \/ ~Openable)
    /\ file' = NoFile
    /\ clean' = FALSE
    /\ Goto(p, "create")
    /\ UNCHANGED <<served, meta, node, writer, mine, updates, alone, whole>>

\* An inode no name and no process refers to.
Free(i) == i # file /\ \A p \in Proc : handle[p] # i

\* pkg_repo_binary_create.  Of two processes that find no file one creates
\* the tables; the other fails here, as it does if it finds a file.
CreateRepo(p) ==
    /\ At(p, "create") /\ file = NoFile
    /\ \E i \in {j \in Inode : Free(j)} :
          /\ node' = [node EXCEPT ![i] =
                        [pkgs |-> Empty, mark |-> FALSE, mtime |-> served,
                         ready |-> FALSE]]
          /\ file' = i
          /\ handle' = [handle EXCEPT ![p] = i]
    /\ Goto(p, "tables")
    /\ UNCHANGED <<served, meta, writer, force, t, got, dig, man, ldel, ladd,
                   view, history>>

CreateTables(p) ==
    /\ At(p, "tables")
    /\ node' = [node EXCEPT ![handle[p]].ready = TRUE,
                            ![handle[p]].mtime = served]
    /\ handle' = [handle EXCEPT ![p] = NoFile]
    /\ Goto(p, "reopen")
    /\ UNCHANGED <<served, meta, file, writer, force, t, got, dig, man, ldel,
                   ladd, view, history>>

Reopen(p) ==
    /\ At(p, "reopen") /\ Openable
    /\ handle' = [handle EXCEPT ![p] = file]
    /\ Goto(p, "mark")
    /\ UNCHANGED <<served, disk, force, t, got, dig, man, ldel, ladd, view,
                   history>>

OpenFailed(p) ==
    /\ pc[p] \in {"create", "tables", "reopen"}
    /\ ReturnOnly(p)

\* Fault: the update starts again with the database it has.
RestartUnforced(p) ==
    /\ At(p, "mark")
    /\ node[handle[p]].mark /\ CanWrite(p)
    /\ node' = [node EXCEPT ![handle[p]].mtime = served]
    /\ clean' = FALSE
    /\ handle' = [handle EXCEPT ![p] = NoFile]
    /\ t' = [t EXCEPT ![p] = 0]
    /\ Goto(p, "meta")
    /\ UNCHANGED <<served, meta, file, writer, force, got, dig, man, ldel,
                   ladd, view, updates, alone, whole>>

\* INSERT INTO repo_update succeeds: EPKG_END, and everything starts again
\* with force.
Restart(p) ==
    /\ At(p, "mark")
    /\ node[handle[p]].mark /\ CanWrite(p)
    /\ node' = [node EXCEPT ![handle[p]].mtime = served]
    /\ clean' = FALSE
    /\ handle' = [handle EXCEPT ![p] = NoFile]
    /\ force' = [force EXCEPT ![p] = TRUE]
    /\ t' = [t EXCEPT ![p] = 0]
    /\ Goto(p, "meta")
    /\ UNCHANGED <<served, meta, file, writer, got, dig, man, ldel, ladd, view,
                   updates, alone, whole>>

\* It fails: there is no such table, or another process is writing.
NoRestart(p) ==
    /\ At(p, "mark")
    /\ ~(node[handle[p]].mark /\ CanWrite(p))
    /\ Goto(p, "mark table")
    /\ UNCHANGED <<served, disk, mine, history>>

\* CREATE TABLE IF NOT EXISTS repo_update; nobody looks at the result.
Mark(p) ==
    /\ At(p, "mark table")
    /\ \/ /\ CanWrite(p)
          /\ node' = [node EXCEPT ![handle[p]].mark = TRUE,
                                  ![handle[p]].mtime = served]
       \/ UNCHANGED node
    /\ clean' = FALSE
    /\ Goto(p, "load")
    /\ UNCHANGED <<served, meta, file, writer, mine, updates, alone, whole>>
----------------------------------------------------------------------------
(* The rest of pkg_repo_binary_update_incremental.                         *)

\* Fault: packages the database has are not compared.
LoadNewOnly(p) ==
    /\ At(p, "load")
    /\ LET old == node[handle[p]].pkgs
           new == Content[dig[p]]
       IN  /\ ldel' = [ldel EXCEPT ![p] =
                         {o \in Origin : old[o] # NoPkg /\ new[o] = NoPkg}]
           /\ ladd' = [ladd EXCEPT ![p] =
                         {o \in Origin : new[o] # NoPkg /\ old[o] = NoPkg}]
    /\ Goto(p, "remove")
    /\ UNCHANGED <<served, disk, force, t, got, dig, man, handle, view,
                   history>>

\* What is in the database and not in digests, and what is in digests and has
\* another checksum in the database or is not there.
Load(p) ==
    /\ At(p, "load")
    /\ LET old == node[handle[p]].pkgs
           new == Content[dig[p]]
       IN  /\ ldel' = [ldel EXCEPT ![p] =
                         {o \in Origin : old[o] # NoPkg /\ new[o] = NoPkg}]
           /\ ladd' = [ladd EXCEPT ![p] =
                         {o \in Origin : new[o] # NoPkg /\ old[o] # new[o]}]
    /\ Goto(p, "remove")
    /\ UNCHANGED <<served, disk, force, t, got, dig, man, handle, view,
                   history>>

\* A line of digests or the query is bad; no transaction has begun.
LoadFailed(p) ==
    /\ At(p, "load")
    /\ ReturnOnly(p)

\* What the transaction sees before its next statement.
Current(p) ==
    IF writer[handle[p]] = p THEN view[p] ELSE node[handle[p]].pkgs

Write(p, o, c) ==
    /\ CanWrite(p)
    /\ writer' = [writer EXCEPT ![handle[p]] = p]
    /\ view' = [view EXCEPT ![p] = [Current(p) EXCEPT ![o] = c]]

\* pkgdb_repo_remove_package
Remove(p) ==
    /\ At(p, "remove")
    /\ \E o \in ldel[p] :
          /\ Write(p, o, NoPkg)
          /\ ldel' = [ldel EXCEPT ![p] = @ \ {o}]
    /\ UNCHANGED <<served, meta, file, node, pc, force, t, got, dig, man,
                   handle, ladd, history>>

\* An empty packagesite ends the update with the result it has so far.
EndRemove(p) ==
    /\ At(p, "remove") /\ ldel[p] = {}
    /\ Goto(p, IF Content[man[p]] = Empty THEN "commit" ELSE "push")
    /\ UNCHANGED <<served, disk, mine, history>>

\* pkg_repo_binary_add_from_manifest.  At an offset of another publication
\* there may be anything; only a manifest of the same origin is accepted.
Manifest(p, o) ==
    IF dig[p] = man[p] THEN {Content[dig[p]][o]}
    ELSE {Content[man[p]][o]} \ {NoPkg}

Push(p) ==
    /\ At(p, "push")
    /\ \E o \in ladd[p] : \E c \in Manifest(p, o) :
          /\ Write(p, o, c)
          /\ ladd' = [ladd EXCEPT ![p] = @ \ {o}]
    /\ UNCHANGED <<served, meta, file, node, pc, force, t, got, dig, man,
                   handle, ldel, history>>

EndPush(p) ==
    /\ At(p, "push") /\ ladd[p] = {}
    /\ Goto(p, "commit")
    /\ UNCHANGED <<served, disk, mine, history>>

\* A statement fails, or a manifest is not what it should be: the rest is
\* skipped, and the transaction rolled back.
Fault(p) ==
    \/ At(p, "remove") /\ ldel[p] # {}
    \/ At(p, "push") /\ ladd[p] # {}

\* Fault: what was done is committed.
CommitPart(p) ==
    /\ Fault(p)
    /\ Return(p)
    /\ node' = [node EXCEPT ![handle[p]].pkgs = Current(p)]
    /\ UNCHANGED <<served, meta, file, updates, clean, whole>>

RollBack(p) ==
    /\ Fault(p)
    /\ ReturnOnly(p)

Commit(p) ==
    /\ At(p, "commit")
    /\ node' = [node EXCEPT ![handle[p]].pkgs = Current(p),
                            ![handle[p]].mtime =
                                IF writer[handle[p]] = p THEN served ELSE @]
    /\ writer' = [writer EXCEPT ![handle[p]] = IF @ = p THEN NoProc ELSE @]
    /\ view' = [view EXCEPT ![p] = Empty]
    /\ ladd' = [ladd EXCEPT ![p] = {}]
    /\ whole' = (alone[p] /\ dig[p] = man[p])
    /\ Goto(p, "finish")
    /\ UNCHANGED <<served, meta, file, force, t, got, dig, man, handle, ldel,
                   updates, alone, clean>>

CommitFailed(p) ==
    /\ At(p, "commit")
    /\ ReturnOnly(p)
----------------------------------------------------------------------------
(* The end of pkg_repo_binary_update.                                      *)

\* DROP TABLE repo_update; nobody looks at the result.
Finish(p) ==
    /\ At(p, "finish")
    /\ \/ /\ CanWrite(p)
          /\ node' = [node EXCEPT ![handle[p]].mark = FALSE,
                                  ![handle[p]].mtime = served]
       \/ UNCHANGED node
    /\ Goto(p, "times")
    /\ UNCHANGED <<served, meta, file, writer, mine, history>>

\* utimes of whatever file has the name of the database by now.
SetRepoTime(p) ==
    /\ At(p, "times")
    /\ node' = [i \in Inode |->
                  IF i = file THEN [node[i] EXCEPT !.mtime = t[p]]
                  ELSE node[i]]
    /\ Goto(p, "meta time")
    /\ UNCHANGED <<served, meta, file, writer, mine, history>>

SetMetaTime(p) ==
    /\ At(p, "meta time")
    /\ meta' = IF got[p] /\ meta \in Loaded THEN t[p] ELSE meta
    /\ clean' = alone[p]
    /\ Return(p)
    /\ UNCHANGED <<served, file, node, updates, whole>>

Crash(p) ==
    /\ pc[p] # "idle"
    /\ ReturnOnly(p)
----------------------------------------------------------------------------
Step(p) ==
    \/ KeepMeta(p) \/ UnlinkMeta(p) \/ WriteMeta(p)
    \/ LoadMeta(p) \/ RefuseMeta(p)
    \/ UpToDate(p) \/ FetchDigests(p) \/ FetchManifest(p) \/ FetchFailed(p)
    \/ OpenRepo(p) \/ UnlinkRepo(p) \/ CreateRepo(p) \/ CreateTables(p)
    \/ Reopen(p) \/ OpenFailed(p)
    \/ Restart(p) \/ NoRestart(p) \/ Mark(p)
    \/ Load(p) \/ LoadFailed(p) \/ Remove(p) \/ EndRemove(p)
    \/ Push(p) \/ EndPush(p) \/ RollBack(p) \/ Commit(p) \/ CommitFailed(p)
    \/ Finish(p) \/ SetRepoTime(p) \/ SetMetaTime(p)

Next ==
    \/ Publish
    \/ \E p \in Proc : Start(p) \/ Step(p) \/ Crash(p)

Spec == Init /\ [][Next]_vars

\* A process that updates goes on.
FairSpec == Spec /\ \A p \in Proc : WF_vars(Step(p))
----------------------------------------------------------------------------
(* Properties.                                                             *)

Nodes == [pkgs : Catalogue, mark : BOOLEAN, mtime : Loaded, ready : BOOLEAN]

Opened == {"mark", "mark table", "load", "remove", "push", "commit", "finish",
           "times", "meta time"}

\* The type invariant: a process that works on the database has one.
TypeOK ==
    /\ served \in Loaded
    /\ meta \in Loaded \cup {Absent, Broken}
    /\ file \in Inode \cup {NoFile}
    /\ node \in [Inode -> Nodes]
    /\ writer \in [Inode -> Proc \cup {NoProc}]
    /\ pc \in [Proc -> {"idle", "meta", "write meta", "check meta", "digests",
                        "packagesite", "open", "create", "tables", "reopen"}
                       \cup Opened]
    /\ force \in [Proc -> BOOLEAN] /\ got \in [Proc -> BOOLEAN]
    /\ t \in [Proc -> 0..Published]
    /\ dig \in [Proc -> Loaded] /\ man \in [Proc -> Loaded]
    /\ handle \in [Proc -> Inode \cup {NoFile}]
    /\ \A p \in Proc : pc[p] \in Opened \cup {"tables"} => handle[p] \in Inode
    /\ ldel \in [Proc -> SUBSET Origin] /\ ladd \in [Proc -> SUBSET Origin]
    /\ view \in [Proc -> Catalogue]
    /\ alone \in [Proc -> BOOLEAN]
    /\ updates \in 0..MaxUpdates
    /\ clean \in BOOLEAN /\ whole \in BOOLEAN

\* The catalogue is that of a publication, or empty after a rebuild began:
\* an update that fails or dies between two statements leaves no part of its
\* work.  (Overlapping updates, and files of two publications, may mix.)
CatalogueWhole ==
    (whole /\ file # NoFile) =>
        \/ node[file].pkgs = Empty
        \/ \E v \in 1..served : node[file].pkgs = Content[v]

\* An update that ran alone and got two files of one publication leaves that
\* publication, whatever the database was: empty, mixed, or left behind by an
\* update that died.  The difference that pkg_repo_binary_update_incremental
\* computes is complete.
UpdateIsExact ==
    \A p \in Proc :
        (At(p, "finish") /\ alone[p] /\ dig[p] = man[p]) =>
            handle[p] = file /\ node[file].pkgs = Content[dig[p]]

\* What an update that says "up-to-date" at this point would mean.
SaysUpToDate == \E p \in Proc : At(p, "digests") /\ ~Newer(p)
IsUpToDate == file # NoFile /\ node[file].pkgs = Content[served]

\* A catalogue is called up to date only if it is the published one, as long
\* as every update that changed .meta or the database ended well: the times
\* pkg_repo_binary_update sets are those of the digests it used, so that a
\* catalogue made from files of two publications is fetched again.
UpToDateIsCurrent == (clean /\ SaysUpToDate) => IsUpToDate

\* Every update ends, whatever it finds: the one that starts again because of
\* a mark does not find a mark in the database it creates.
UpdateReturns == \A p \in Proc : pc[p] # "idle" ~> pc[p] = "idle"
============================================================================
