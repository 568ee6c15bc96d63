-------------------------- MODULE PkgExecuteProofs --------------------------
(***************************************************************************)
(* Proofs about PkgExecute, for any packages, files and dependencies and   *)
(* any number of jobs, commands, failures and crashes.                     *)
(***************************************************************************)
EXTENDS PkgExecute, TLAPS

---------------------------------------------------------------------------
(* The inductive invariants.                                               *)

\* Steps between the registration of a package and the end of its job.
Busy == {"mtree", "cleanup_old", "delete_old", "extract", "fail"}

Removals == {"delete", "upgrade_remove"}

\* Which steps and jobs belong to which command.
Control ==
    /\ mode = "none" <=> pc = "idle"
    /\ mode = "none" => db = stored /\ txn = "none" /\ batch = {}
    /\ mode = "jobs" =>
         /\ txn = "savepoint"
         /\ pc \in {"next", "end", "predeinstall", "delete", "unregister",
                    "open", "register"} \cup Busy
         /\ \A i \in DOMAIN todo : todo[i].type \notin {"add", "dep"}
    /\ mode = "add" =>
         /\ pc \in {"next", "check", "deps", "register", "mtree", "extract",
                    "fail", "unwind"}
         /\ \A i \in DOMAIN todo : todo[i].type \in {"add", "dep"}
         /\ txn = "none" => db = stored

\* Every package has all of its files: what is committed always, what the
\* process sees while it runs jobs or has registered a package.
Complete(d) == \A p \in d.installed : FilesIn(d, p) = FilesOf[p]

Registration ==
    /\ Complete(stored)
    /\ mode = "jobs" \/ pc \in Busy => Complete(db)

\* The jobs to do are about different packages, which no job so far touched.
Plan ==
    mode = "jobs" /\ pc # "end" =>
        /\ \A i, k \in DOMAIN todo :
             i # k => NameOf[todo[i].pkg] # NameOf[todo[k].pkg]
        /\ \A i \in DOMAIN todo :
             /\ todo[i].type \in Removals => todo[i].pkg \in db.installed
             /\ todo[i].type = "upgrade" =>
                  /\ todo[i].old \in Pkg
                  /\ NameOf[todo[i].old] = NameOf[todo[i].pkg]
             /\ i # 1 \/ pc \in {"next", "open", "register"} =>
                  NameOf[todo[i].pkg] \notin batch

\* What the database says of the packages nobody touched is what is committed.
Frame ==
    mode = "jobs" \/ pc \in Busy => \A f \in File :
        /\ stored.owner[f] # None /\ NameOf[stored.owner[f]] \notin batch
             => db.owner[f] = stored.owner[f]
        /\ db.owner[f] # None /\ NameOf[db.owner[f]] \notin batch
             => stored.owner[f] = db.owner[f]

\* The paths a step is going to change belong to the package it works on.
Paths ==
    /\ pc \in Busy \cup {"predeinstall", "delete", "unregister"} =>
         job.pkg \in db.installed /\ NameOf[job.pkg] \in batch
    /\ pc \in {"delete", "extract", "fail"} =>
         files \subseteq FilesIn(db, job.pkg)
    /\ pc = "mtree" /\ job.type = "upgrade" =>
         \A f \in FilesIn(stored, job.old) : db.owner[f] \in {None, job.pkg}
    /\ pc \in {"cleanup_old", "delete_old"} =>
         /\ job.type = "upgrade"
         /\ files \subseteq FilesIn(stored, job.old)
         /\ \A f \in files : db.owner[f] \in {None, job.pkg}

\* A path the current job has not dealt with yet.
Pending(f) ==
    /\ db.owner[f] = job.pkg
    /\ \/ pc \in {"predeinstall", "delete", "unregister", "mtree",
                  "cleanup_old", "delete_old"}
       \/ pc = "extract" /\ f \in files

\* What the finished jobs of a run wrote is on disk.
Done ==
    /\ mode = "jobs" /\ pc \notin {"end", "fail"} => \A f \in File :
         db.owner[f] # None /\ NameOf[db.owner[f]] \in batch =>
             disk[f] \in {db.owner[f], User} \/ Pending(f)
    /\ pc = "extract" => \A f \in FilesIn(db, job.pkg) :
         disk[f] \in {job.pkg, User} \/ f \in files
    /\ mode = "jobs" /\ pc = "end" => rc # "ok"

\* The committed packages that are not suspect are on disk.
Intact ==
    \A f \in File :
        stored.owner[f] # None /\ NameOf[stored.owner[f]] \notin suspect
            => disk[f] \in {stored.owner[f], User}

Ownership ==
    batch \subseteq suspect /\ Plan /\ Frame /\ Paths /\ Done /\ Intact

---------------------------------------------------------------------------
(* The operations on the database.                                         *)

\* Deleting rows keeps the keys of the tables.
LEMMA WithoutType ==
    ASSUME NEW d \in Databases, WellFormed(d), NEW ps
    PROVE  Without(d, ps) \in Databases /\ WellFormed(Without(d, ps))
<1>1. Without(d, ps) \in Databases
    BY DEF Without, Databases
<1>2. \A f \in File : Without(d, ps).owner[f]
                       \in Without(d, ps).installed \cup {None}
    BY DEF Without, Databases, WellFormed
<1>3. QED
    BY <1>1, <1>2 DEF Without, WellFormed

\* What the tables hold after INSERT OR REPLACE and the insertion of files.
LEMMA RegisteredFields ==
    ASSUME NEW d \in Databases, NEW p \in Pkg, NEW fs
    PROVE  /\ Registered(d, p, fs) =
                [installed |-> (d.installed \ SameName(d, p)) \cup {p},
                 locked |-> d.locked \ SameName(d, p),
                 owner |-> [f \in File |->
                     IF f \in fs \ Conflicts(d, p) THEN p
                     ELSE IF d.owner[f] \in SameName(d, p)
                          THEN None ELSE d.owner[f]]]
           /\ Conflicts(d, p) =
                {f \in FilesOf[p] : d.owner[f] \notin SameName(d, p)
                                    /\ d.owner[f] # None}
<1>1. FilesOf[p] \subseteq File
    BY ExecuteAssumption
<1>2. Replaced(d, p) = [installed |-> (d.installed \ SameName(d, p)) \cup {p},
                        locked |-> d.locked \ SameName(d, p),
                        owner |-> [f \in File |->
                            IF d.owner[f] \in SameName(d, p) THEN None
                                                       ELSE d.owner[f]]]
    BY DEF Replaced, Without, SameName
<1>3. None \notin SameName(d, p)
    BY ExecuteAssumption DEF SameName, Databases
<1>4. Conflicts(d, p) =
        {f \in FilesOf[p] : d.owner[f] \notin SameName(d, p)
                            /\ d.owner[f] # None}
    BY <1>1, <1>2, <1>3 DEF Conflicts
<1>5. /\ Replaced(d, p).installed = (d.installed \ SameName(d, p)) \cup {p}
      /\ Replaced(d, p).locked = d.locked \ SameName(d, p)
      /\ \A f \in File : Replaced(d, p).owner[f] =
            IF d.owner[f] \in SameName(d, p) THEN None ELSE d.owner[f]
    BY <1>2
<1>6. QED
    BY <1>4, <1>5, Zenon DEF Registered

\* Registering a package keeps the keys of the tables.
LEMMA RegisteredType ==
    ASSUME NEW d \in Databases, WellFormed(d), NEW p \in Pkg, NEW fs
    PROVE  /\ Registered(d, p, fs) \in Databases
           /\ WellFormed(Registered(d, p, fs))
<1> DEFINE r == Registered(d, p, fs)
<1> HIDE DEF r
<1>1. /\ r.installed = (d.installed \ SameName(d, p)) \cup {p}
      /\ r.locked = d.locked \ SameName(d, p)
      /\ r.owner = [f \in File |->
            IF f \in fs \ Conflicts(d, p) THEN p
            ELSE IF d.owner[f] \in SameName(d, p) THEN None ELSE d.owner[f]]
      /\ r = [installed |-> r.installed, locked |-> r.locked,
              owner |-> r.owner]
    BY RegisteredFields DEF r
<1>2. r \in Databases
  <2>1. r.installed \in SUBSET Pkg /\ r.locked \in SUBSET Pkg
    BY <1>1 DEF Databases
  <2>2. r.owner \in [File -> Pkg \cup {None}]
    BY <1>1 DEF Databases
  <2>3. QED
    BY <1>1, <2>1, <2>2 DEF Databases
<1>3. r.locked \subseteq r.installed
    BY <1>1 DEF WellFormed
<1>4. \A f \in File : r.owner[f] \in r.installed \cup {None}
    BY <1>1 DEF WellFormed
<1>5. \A x, y \in r.installed : NameOf[x] = NameOf[y] => x = y
    BY <1>1 DEF WellFormed, SameName
<1>6. QED
    BY <1>2, <1>3, <1>4, <1>5 DEF WellFormed, r

---------------------------------------------------------------------------
(* Types.                                                                  *)

\* The current job.
LEMMA JobType ==
    ASSUME TypeOK, todo # <<>>
    PROVE  /\ job \in Jobs /\ job.pkg \in Pkg /\ NameOf[job.pkg] \in Name
           /\ FilesOf[job.pkg] \subseteq File
           /\ Tail(todo) \in Seq(Jobs)
           /\ Tail(todo) = <<>> => job.type # "dep"
           /\ Tail(todo) # <<>> =>
                Tail(todo)[Len(Tail(todo))] = todo[Len(todo)]
<1>1. job \in Jobs /\ Tail(todo) \in Seq(Jobs)
    BY DEF TypeOK, job
<1>4. Tail(todo) = <<>> => job.type # "dep"
    BY DEF TypeOK, job
<1>5. Tail(todo) # <<>> => Tail(todo)[Len(Tail(todo))] = todo[Len(todo)]
    BY DEF TypeOK
<1>2. job.pkg \in Pkg
    BY <1>1 DEF Jobs
<1>3. QED
    BY <1>1, <1>2, <1>4, <1>5, ExecuteAssumption

\* What the commands start with.
LEMMA ListType ==
    \A js \in JobLists \cup AddLists :
        js \in Seq(Jobs) /\ (js # <<>> => js[Len(js)].type # "dep")
<1>1. ASSUME NEW S \in SUBSET {j \in Jobs : j.type # "dep"},
             NEW n \in 1 .. MaxJobs, NEW js \in [1 .. n -> S]
      PROVE  js \in Seq(Jobs) /\ (js # <<>> => js[Len(js)].type # "dep")
    BY ExecuteAssumption
<1>2. QED
    BY <1>1 DEF JobLists, AddLists, SolvedJob

\* An installed package at the start.
LEMMA InitType == Init => TypeOK
<1> SUFFICES ASSUME Init PROVE TypeOK
    OBVIOUS
<1>1. \A f \in File : Owner(Initial, f) \in Initial \cup {None}
    BY DEF Owner
<1>2. db \in Databases /\ WellFormed(db)
    BY <1>1, ExecuteAssumption, InitialAssumption
    DEF Init, Databases, WellFormed
<1>3. disk \in [File -> Contents]
    BY <1>1, ExecuteAssumption DEF Init, Contents
<1>4. QED
    BY <1>2, <1>3, ExecuteAssumption DEF Init, TypeOK, JobPc

\* Files that are removed leave a disk.
LEMMA UnlinkedType ==
    ASSUME TypeOK, NEW f \in File, NEW p, NEW forced
    PROVE  Unlinked(f, p, forced) \in [File -> Contents]
BY DEF TypeOK, Unlinked, Contents

\* Every step keeps the types and the keys of the tables.
LEMMA NextType == TypeOK /\ [Next]_vars => TypeOK'
<1> SUFFICES ASSUME TypeOK, [Next]_vars PROVE TypeOK'
    OBVIOUS
<1> USE ExecuteAssumption
<1>1. CASE StartJobs
    BY <1>1, ListType DEF StartJobs, TypeOK, JobPc
<1>2. CASE StartAdd
    BY <1>2, ListType DEF StartAdd, TypeOK, JobPc
<1>3. CASE SkipSelf
    BY <1>3, JobType DEF SkipSelf, NextJob, TypeOK, JobPc
<1>4. CASE RefuseLocked
    BY <1>4 DEF RefuseLocked, TypeOK, JobPc
<1>5. CASE BeginDelete
    BY <1>5, JobType DEF BeginDelete, NextJob, Touch, TypeOK, JobPc
<1>6. CASE BeginInstall
    BY <1>6 DEF BeginInstall, NextJob, TypeOK, JobPc
<1>7. CASE EndJobs
  <2>1. clean' \in BOOLEAN
    BY <1>7, Zenon DEF EndJobs, TypeOK
  <2>2. QED
    BY <1>7, <2>1 DEF EndJobs, Works, Fails, TypeOK, JobPc
<1>8. CASE PreDeinstall
    BY <1>8
    DEF PreDeinstall, DeleteFailed, Works, Fails, FilesIn, TypeOK, JobPc
<1>9. CASE DeleteFile
    BY <1>9, UnlinkedType DEF DeleteFile, TypeOK, JobPc
<1>10. CASE PostDeinstall
    BY <1>10 DEF PostDeinstall, DeleteFailed, Works, Fails, TypeOK, JobPc
<1>11. CASE Unregister
  <2>1. Without(db, {job.pkg}) \in Databases
        /\ WellFormed(Without(db, {job.pkg}))
    BY WithoutType DEF TypeOK
  <2>2. db' \in Databases /\ WellFormed(db')
    BY <1>11, <2>1 DEF Unregister, TypeOK
  <2>3. todo # <<>>
    BY <1>11 DEF Unregister, TypeOK, JobPc
  <2>4. /\ todo' \in Seq(Jobs)
        /\ todo' # <<>> => todo'[Len(todo')].type # "dep"
        /\ pc' \in {"next", "end"}
    BY <1>11, <2>3, JobType DEF Unregister, DeleteFailed, TypeOK
  <2>5. /\ files' \in SUBSET File
        /\ rc' \in {"ok", "fatal", "locked", "installed"}
        /\ failures' \in 0 .. MaxFailures
    BY <1>11 DEF Unregister, DeleteFailed, Works, Fails, TypeOK
  <2>6. QED
    BY <1>11, <2>2, <2>4, <2>5 DEF Unregister, TypeOK, JobPc
<1>12. CASE Open
    BY <1>12 DEF Open, AddFailed, RollBack, Works, Fails, TypeOK, JobPc
<1>13. CASE CheckInstalled
    BY <1>13 DEF CheckInstalled, AddFailed, TypeOK, JobPc
<1>14. CASE CheckDeps
  <2>1. ASSUME NEW d \in Missing(job.pkg)
        PROVE  LET t == <<[type |-> "dep", pkg |-> d, old |-> None]>> \o todo
               IN  /\ t \in Seq(Jobs) /\ t # <<>>
                   /\ t[Len(t)] = todo[Len(todo)]
    <3>1. job.pkg \in Pkg
        BY <1>14, JobType DEF CheckDeps, TypeOK, JobPc
    <3>2. [type |-> "dep", pkg |-> d, old |-> None] \in Jobs
        BY <2>1, <3>1 DEF Missing, Jobs, JobTypes
    <3>3. QED
        BY <1>14, <3>2 DEF CheckDeps, TypeOK, JobPc
  <2>2. QED
    BY <1>14, <2>1 DEF CheckDeps, AddFailed, TypeOK, JobPc
<1>15. CASE Register
  <2>1. /\ Registered(db, job.pkg, FilesOf[job.pkg]) \in Databases
        /\ WellFormed(Registered(db, job.pkg, FilesOf[job.pkg]))
    BY <1>15, JobType, RegisteredType DEF Register, TypeOK, JobPc
  <2>2. QED
    BY <1>15, <2>1, JobType DEF Register, Touch, TypeOK, JobPc
<1>16. CASE RegisterFailed
  <2>1. \A fs : /\ Registered(db, job.pkg, fs) \in Databases
                /\ WellFormed(Registered(db, job.pkg, fs))
    BY <1>16, JobType, RegisteredType DEF RegisterFailed, TypeOK, JobPc
  <2>2. QED
    BY <1>16, <2>1
    DEF RegisterFailed, AddFailed, RollBack, Works, Fails, TypeOK, JobPc
<1>17. CASE ExtractMtree
    BY <1>17, JobType
    DEF ExtractMtree, AddFailed, RollBack, Works, Fails, FilesIn, TypeOK,
        JobPc
<1>18. CASE CleanupOld
    BY <1>18 DEF CleanupOld, AddFailed, RollBack, Works, Fails, TypeOK, JobPc
<1>19. CASE DeleteOldFile
  <2>1. todo # <<>>
    BY <1>19 DEF DeleteOldFile, TypeOK, JobPc
  <2>2. disk' \in [File -> Contents] /\ files' \in SUBSET File
    <3>1. CASE files = {}
        BY <1>19, <2>1, <3>1, JobType DEF DeleteOldFile, TypeOK
    <3>2. CASE files # {}
        BY <1>19, <3>2 DEF DeleteOldFile, Unlinked, Contents, TypeOK
    <3>3. QED
        BY <3>1, <3>2
  <2>3. QED
    BY <1>19, <2>1, <2>2 DEF DeleteOldFile, TypeOK, JobPc
<1>20. CASE ExtractFile
  <2>1. job.pkg \in Contents
    BY <1>20, JobType DEF ExtractFile, TypeOK, JobPc, Contents
  <2>2. QED
    BY <1>20, <2>1 DEF ExtractFile, TypeOK, JobPc
<1>21. CASE ExtractFailed
    BY <1>21, JobType DEF ExtractFailed, Fails, TypeOK, JobPc
<1>22. CASE UndoExtract
  <2>1. disk' \in [File -> Contents] /\ files' \in SUBSET File
    <3>1. CASE files = {}
        BY <1>22, <3>1 DEF UndoExtract, AddFailed, TypeOK
    <3>2. CASE files # {}
        BY <1>22, <3>2 DEF UndoExtract, Unlinked, Contents, TypeOK
    <3>3. QED
        BY <3>1, <3>2
  <2>2. QED
    BY <1>22, <2>1 DEF UndoExtract, AddFailed, RollBack, TypeOK, JobPc
<1>23. CASE Unwind
    BY <1>23, JobType DEF Unwind, TypeOK, JobPc
<1>24. CASE Installed
  <2>1. todo # <<>>
    BY <1>24 DEF Installed, TypeOK, JobPc
  <2>2. /\ todo' \in Seq(Jobs)
        /\ todo' # <<>> => todo'[Len(todo')].type # "dep"
        /\ pc' \in JobPc \cup {"idle", "next", "end"}
        /\ pc' \in JobPc => todo' # <<>>
    BY <1>24, <2>1, JobType DEF Installed, TypeOK, JobPc
  <2>3. stored' \in Databases /\ WellFormed(stored')
        /\ txn' \in {"none", "savepoint", "begin"}
        /\ batch' \in SUBSET Name /\ suspect' \in SUBSET Name
    BY <1>24 DEF Installed, TypeOK
  <2>4. clean' \in BOOLEAN
    BY <1>24, Zenon DEF Installed, TypeOK
  <2>5. failures' \in 0 .. MaxFailures
    BY <1>24 DEF Installed, Works, Fails, TypeOK
  <2>6. QED
    BY <1>24, <2>2, <2>3, <2>4, <2>5 DEF Installed, TypeOK
<1>25. CASE EndAdd
    BY <1>25 DEF EndAdd, TypeOK, JobPc
<1>26. CASE Crash
  <2>1. disk' \in [File -> Contents]
    BY <1>26 DEF Crash, TypeOK, Contents
  <2>2. failures' \in 0 .. MaxFailures
    BY <1>26 DEF Crash, Fails, TypeOK
  <2>3. /\ db' = stored /\ txn' = "none" /\ mode' = "none" /\ pc' = "idle"
        /\ todo' = <<>> /\ files' = {} /\ rc' = "fatal" /\ batch' = {}
        /\ clean' \in BOOLEAN
        /\ UNCHANGED <<stored, suspect, commands, edits>>
    BY <1>26 DEF Crash
  <2>4. QED
    BY <2>1, <2>2, <2>3 DEF TypeOK, JobPc
<1>27. CASE \E f \in File : Edit(f)
    BY <1>27 DEF Edit, TypeOK, JobPc, Contents
<1>28. CASE UNCHANGED vars
    BY <1>28 DEF vars, TypeOK
<1>29. QED
    BY <1>1, <1>2, <1>3, <1>4, <1>5, <1>6, <1>7, <1>8, <1>9, <1>10, <1>11,
       <1>12, <1>13, <1>14, <1>15, <1>16, <1>17, <1>18, <1>19, <1>20, <1>21,
       <1>22, <1>23, <1>24, <1>25, <1>26, <1>27, <1>28
    DEF Next, Step

\* The type invariant, with the keys of the tables: one package per name, and
\* no row of files without its row of packages, in the database as the
\* process sees it and as it is committed.
THEOREM TypeCorrect == Spec => []TypeOK
BY InitType, NextType, PTL DEF Spec

---------------------------------------------------------------------------
(* Commands and their steps.                                               *)

\* The elements of the list without the current job.
LEMMA TailElements ==
    ASSUME TypeOK, todo # <<>>
    PROVE  /\ 1 \in DOMAIN todo /\ job = todo[1]
           /\ \A i \in DOMAIN Tail(todo) :
                i + 1 \in DOMAIN todo /\ Tail(todo)[i] = todo[i + 1]
                /\ i + 1 # 1
<1> todo \in Seq(Jobs)
    BY DEF TypeOK
<1> QED
    BY DEF job

\* The jobs of a command are those its solver makes.
LEMMA ListKinds ==
    /\ \A js \in JobLists :
         \A i \in DOMAIN js : js[i].type \notin {"add", "dep"}
    /\ \A js \in AddLists :
         \A i \in DOMAIN js : js[i].type \in {"add", "dep"}
BY DEF JobLists, AddLists, SolvedJob

\* Every step keeps to the steps of its command.
LEMMA NextControl == TypeOK /\ Control /\ [Next]_vars => Control'
<1> SUFFICES ASSUME TypeOK, Control, [Next]_vars PROVE Control'
    OBVIOUS
<1>1. CASE StartJobs
    BY <1>1, ListKinds DEF StartJobs, Control
<1>2. CASE StartAdd
    BY <1>2, ListKinds DEF StartAdd, Control
<1>3. CASE SkipSelf
    BY <1>3, TailElements DEF SkipSelf, NextJob, Control
<1>4. CASE RefuseLocked
    BY <1>4 DEF RefuseLocked, NextJob, Control
<1>5. CASE BeginDelete
    BY <1>5 DEF BeginDelete, NextJob, Control
<1>6. CASE BeginInstall
    BY <1>6 DEF BeginInstall, NextJob, Control
<1>7. CASE EndJobs
    BY <1>7 DEF EndJobs, Control
<1>8. CASE PreDeinstall
    BY <1>8 DEF PreDeinstall, DeleteFailed, Control, Busy
<1>9. CASE DeleteFile
    BY <1>9 DEF DeleteFile, Control
<1>10. CASE PostDeinstall
    BY <1>10 DEF PostDeinstall, DeleteFailed, Control, Busy
<1>11. CASE Unregister
  <2>1. todo # <<>> /\ mode = "jobs"
    BY <1>11 DEF Unregister, TypeOK, JobPc, Control, Busy
  <2>2. QED
    BY <1>11, <2>1, TailElements DEF Unregister, DeleteFailed, Control
<1>12. CASE Open
    BY <1>12 DEF Open, AddFailed, RollBack, Control, Busy
<1>13. CASE CheckInstalled
    BY <1>13 DEF CheckInstalled, AddFailed, Control, Busy
<1>14. CASE CheckDeps
  <2>1. mode = "add"
    BY <1>14 DEF CheckDeps, TypeOK, Control, Busy
  <2>2. ASSUME NEW d
        PROVE  LET t == <<[type |-> "dep", pkg |-> d, old |-> None]>> \o todo
               IN  \A i \in DOMAIN t : t[i].type \in {"add", "dep"}
    <3> DEFINE x == [type |-> "dep", pkg |-> d, old |-> None]
               t == <<x>> \o todo
    <3>1. x.type = "dep"
        OBVIOUS
    <3> HIDE DEF x
    <3>2. todo \in Seq(Jobs)
        BY DEF TypeOK
    <3>3. \A i \in DOMAIN t :
            t[i] = x \/ (i - 1 \in DOMAIN todo /\ t[i] = todo[i - 1])
        BY <3>2
    <3>4. QED
        BY <2>1, <3>1, <3>3 DEF Control, x
  <2>3. QED
    BY <1>14, <2>1, <2>2 DEF CheckDeps, AddFailed, Control, Busy
<1>15. CASE Register
    BY <1>15 DEF Register, CanBegin, Control, Busy
<1>16. CASE RegisterFailed
    BY <1>16 DEF RegisterFailed, AddFailed, RollBack, CanBegin, Control, Busy
<1>17. CASE ExtractMtree
  <2>1. todo # <<>>
    BY <1>17 DEF ExtractMtree, TypeOK, JobPc
  <2>2. QED
    BY <1>17, <2>1, TailElements
    DEF ExtractMtree, AddFailed, RollBack, Control, Busy
<1>18. CASE CleanupOld
    BY <1>18 DEF CleanupOld, AddFailed, RollBack, Control, Busy
<1>19. CASE DeleteOldFile
    BY <1>19 DEF DeleteOldFile, Control, Busy
<1>20. CASE ExtractFile
    BY <1>20 DEF ExtractFile, Control
<1>21. CASE ExtractFailed
    BY <1>21 DEF ExtractFailed, Control, Busy
<1>22. CASE UndoExtract
    BY <1>22 DEF UndoExtract, AddFailed, RollBack, Control, Busy
<1>23. CASE Unwind
  <2>1. todo # <<>>
    BY <1>23 DEF Unwind, TypeOK, JobPc
  <2>2. QED
    BY <1>23, <2>1, TailElements DEF Unwind, Control, Busy
<1>24. CASE Installed
  <2>1. todo # <<>>
    BY <1>24 DEF Installed, TypeOK, JobPc
  <2>2. QED
    BY <1>24, <2>1, TailElements DEF Installed, Control, Busy
<1>25. CASE EndAdd
    BY <1>25 DEF EndAdd, Control
<1>26. CASE Crash
    BY <1>26 DEF Crash, Control
<1>27. CASE \E f \in File : Edit(f)
    BY <1>27 DEF Edit, Control
<1>28. CASE UNCHANGED vars
    BY <1>28 DEF vars, Control
<1>29. QED
    BY <1>1, <1>2, <1>3, <1>4, <1>5, <1>6, <1>7, <1>8, <1>9, <1>10, <1>11,
       <1>12, <1>13, <1>14, <1>15, <1>16, <1>17, <1>18, <1>19, <1>20, <1>21,
       <1>22, <1>23, <1>24, <1>25, <1>26, <1>27, <1>28
    DEF Next, Step

---------------------------------------------------------------------------
(* Registration.                                                           *)

\* Deleting packages keeps the others complete.
LEMMA WithoutComplete ==
    ASSUME NEW d \in Databases, Complete(d), NEW ps
    PROVE  Complete(Without(d, ps))
BY ExecuteAssumption DEF Complete, FilesIn, Without, Databases

\* A package whose files were all inserted is complete, and so are the others.
LEMMA RegisteredComplete ==
    ASSUME NEW d \in Databases, WellFormed(d), Complete(d), NEW p \in Pkg,
           Conflicts(d, p) = {}
    PROVE  Complete(Registered(d, p, FilesOf[p]))
<1> DEFINE r == Registered(d, p, FilesOf[p])
<1> HIDE DEF r
<1>1. FilesOf[p] \subseteq File /\ None \notin Pkg
    BY ExecuteAssumption
<1>2. /\ r.installed = (d.installed \ SameName(d, p)) \cup {p}
      /\ \A f \in File : r.owner[f] =
            IF f \in FilesOf[p] THEN p
            ELSE IF d.owner[f] \in SameName(d, p) THEN None ELSE d.owner[f]
    BY RegisteredFields DEF r
<1>3. \A f \in FilesOf[p] :
        d.owner[f] \in SameName(d, p) \/ d.owner[f] = None
    BY RegisteredFields
<1>4. p \in d.installed => p \in SameName(d, p)
    BY DEF SameName
<1>5. d.installed \subseteq Pkg
    BY DEF Databases
<1>6. \A f \in File : r.owner[f] = p <=> f \in FilesOf[p]
    BY <1>1, <1>2, <1>4 DEF WellFormed
<1>7. ASSUME NEW q \in d.installed, q \notin SameName(d, p), q # p
      PROVE  \A f \in File : r.owner[f] = q <=> d.owner[f] = q
    BY <1>1, <1>2, <1>3, <1>5, <1>7
<1>8. QED
    BY <1>1, <1>2, <1>6, <1>7 DEF Complete, FilesIn, r

\* At first the database is the committed one.
LEMMA InitRegistration == Init => Control /\ Registration
<1> SUFFICES ASSUME Init PROVE Control /\ Registration
    OBVIOUS
<1>1. Control
    BY DEF Init, Control
<1>2. \A p \in Initial, f \in File :
        Owner(Initial, f) = p <=> f \in FilesOf[p]
    BY ExecuteAssumption, InitialAssumption DEF Owner
<1>3. Complete(stored)
    BY <1>2, ExecuteAssumption DEF Init, Complete, FilesIn
<1>4. QED
    BY <1>1, <1>3 DEF Init, Registration, Busy

\* Steps that leave the database alone, or take it back to what is committed.
LEMMA SameRegistration ==
    ASSUME Registration, stored' = stored,
           \/ db' = stored
           \/ db' = db /\ (mode' = "jobs" \/ pc' \in Busy
                             => mode = "jobs" \/ pc \in Busy)
           \/ mode' # "jobs" /\ pc' \notin Busy
    PROVE  Registration'
BY DEF Registration, Complete, FilesIn

\* Every step keeps packages complete.
LEMMA NextRegistration ==
    ASSUME Strict, TypeOK, Control, Registration, [Next]_vars
    PROVE  Registration'
<1>1. CASE StartJobs
    BY <1>1, SameRegistration DEF StartJobs, Control
<1>2. CASE StartAdd
    BY <1>2, SameRegistration DEF StartAdd, Control, Busy
<1>3. CASE SkipSelf \/ RefuseLocked \/ BeginDelete \/ BeginInstall
    BY <1>3, SameRegistration
    DEF SkipSelf, RefuseLocked, BeginDelete, BeginInstall, NextJob
<1>4. CASE EndJobs
  <2>1. CASE stored' = db
    BY <1>4, <2>1 DEF EndJobs, Registration, Complete, FilesIn, Busy
  <2>2. CASE UNCHANGED stored
    BY <1>4, <2>2, SameRegistration DEF EndJobs, Busy
  <2>3. QED
    BY <1>4, <2>1, <2>2 DEF EndJobs
<1>5. CASE PreDeinstall \/ DeleteFile \/ PostDeinstall
    BY <1>5, SameRegistration
    DEF PreDeinstall, DeleteFile, PostDeinstall, DeleteFailed, Busy
<1>6. CASE Unregister
  <2>1. mode = "jobs"
    BY <1>6 DEF Unregister, TypeOK, Control, Busy
  <2>2. Complete(db')
    BY <1>6, <2>1, WithoutComplete DEF Unregister, Registration, TypeOK
  <2>3. QED
    BY <1>6, <2>2 DEF Unregister, Registration, Complete, FilesIn
<1>7. CASE Open
    BY <1>7, SameRegistration DEF Open, AddFailed, RollBack, Busy
<1>8. CASE CheckInstalled \/ CheckDeps
  <2>1. mode = "add"
    BY <1>8 DEF CheckInstalled, CheckDeps, TypeOK, Control, Busy
  <2>2. QED
    BY <1>8, <2>1, SameRegistration
    DEF CheckInstalled, CheckDeps, AddFailed, Busy
<1>9. CASE Register
  <2>1. Complete(db)
    BY <1>9 DEF Register, CanBegin, Registration, TypeOK, Control, Busy
  <2>2. job.pkg \in Pkg
    BY <1>9, JobType DEF Register, TypeOK, JobPc
  <2>3. Conflicts(db, job.pkg) = {}
    BY <1>9 DEF Register, Acceptable, Forced, Strict
  <2>4. Complete(db')
    BY <1>9, <2>1, <2>2, <2>3, RegisteredComplete DEF Register, TypeOK
  <2>5. QED
    BY <1>9, <2>4 DEF Register, Registration, Complete, FilesIn
<1>10. CASE RegisterFailed
    BY <1>10, SameRegistration
    DEF RegisterFailed, AddFailed, RollBack, CanBegin, TypeOK, Control, Busy
<1>11. CASE ExtractMtree \/ CleanupOld
    BY <1>11, SameRegistration
    DEF ExtractMtree, CleanupOld, AddFailed, RollBack, Control, Busy
<1>12. CASE DeleteOldFile \/ ExtractFile \/ ExtractFailed
    BY <1>12, SameRegistration
    DEF DeleteOldFile, ExtractFile, ExtractFailed, Busy
<1>13. CASE UndoExtract
    BY <1>13, SameRegistration DEF UndoExtract, AddFailed, RollBack, Busy
<1>14. CASE Unwind
    BY <1>14, SameRegistration DEF Unwind, Control, Busy
<1>15. CASE Installed
  <2>1. CASE stored' = db
    BY <1>15, <2>1 DEF Installed, Registration, Complete, FilesIn, Busy
  <2>2. CASE UNCHANGED stored
    BY <1>15, <2>2, SameRegistration DEF Installed, Busy
  <2>3. QED
    BY <1>15, <2>1, <2>2 DEF Installed
<1>16. CASE EndAdd \/ Crash
    BY <1>16, SameRegistration DEF EndAdd, Crash, Busy
<1>17. CASE \E f \in File : Edit(f)
    BY <1>17, SameRegistration DEF Edit
<1>18. CASE UNCHANGED vars
    BY <1>18, SameRegistration DEF vars
<1>19. QED
    BY <1>1, <1>2, <1>3, <1>4, <1>5, <1>6, <1>7, <1>8, <1>9, <1>10, <1>11,
       <1>12, <1>13, <1>14, <1>15, <1>16, <1>17, <1>18
    DEF Next, Step

\* A committed package has all of its files, whatever fails or is killed, if
\* conflicts are not overlooked: a half registered package is never committed.
THEOREM WholePackages == Spec => []NoPartialRegistration
<1> DEFINE Inv == TypeOK /\ Control /\ (Strict => Registration)
<1>1. Init => Inv
    BY InitType, InitRegistration
<1>2. Inv /\ [Next]_vars => Inv'
    BY NextType, NextControl, NextRegistration DEF Strict
<1>3. Inv => NoPartialRegistration
    BY DEF NoPartialRegistration, Registration, Complete
<1>4. QED
    BY <1>1, <1>2, <1>3, PTL DEF Spec

---------------------------------------------------------------------------
(* Ownership of files, for runs in which no upgrade is split.              *)

\* The database process and the types a step starts and ends with.
Sound == Strict /\ ~Splits /\ TypeOK /\ Control /\ Registration /\ Ownership

\* The frame is kept by steps that leave the database alone or take it back.
LEMMA SameFrame ==
    ASSUME Frame, stored' = stored, batch \subseteq batch',
           \/ db' = stored
           \/ db' = db /\ (mode' = "jobs" \/ pc' \in Busy
                             => mode = "jobs" \/ pc \in Busy)
           \/ mode' # "jobs" /\ pc' \notin Busy
    PROVE  Frame'
BY DEF Frame

\* Every step leaves the rows of untouched packages alone.
LEMMA NextFrame ==
    ASSUME Sound, [Next]_vars
    PROVE  Frame'
<1> USE DEF Sound
<1>0. Frame
    BY DEF Ownership
<1>1. CASE StartJobs \/ StartAdd
    BY <1>0, <1>1, SameFrame DEF StartJobs, StartAdd, Control, Busy
<1>2. CASE SkipSelf \/ RefuseLocked \/ BeginDelete \/ BeginInstall
    BY <1>0, <1>2, SameFrame
    DEF SkipSelf, RefuseLocked, BeginDelete, BeginInstall, NextJob, Touch
<1>3. CASE EndJobs \/ EndAdd \/ Crash
    BY <1>3 DEF EndJobs, EndAdd, Crash, Frame, Busy
<1>4. CASE PreDeinstall \/ DeleteFile \/ PostDeinstall
    BY <1>0, <1>4, SameFrame
    DEF PreDeinstall, DeleteFile, PostDeinstall, DeleteFailed, Busy
<1>5. CASE Unregister
  <2>1. mode = "jobs" /\ NameOf[job.pkg] \in batch
    BY <1>5 DEF Unregister, TypeOK, Control, Busy, Ownership, Paths
  <2>2. \A f \in File :
          \/ db'.owner[f] = db.owner[f]
          \/ db.owner[f] = job.pkg /\ db'.owner[f] = None
    <3>1. db' = db \/ db' = Without(db, {job.pkg})
        BY <1>5 DEF Unregister
    <3>2. \A f \in File : Without(db, {job.pkg}).owner[f] =
            IF db.owner[f] = job.pkg THEN None ELSE db.owner[f]
        BY DEF Without
    <3>3. QED
        BY <3>1, <3>2
  <2>3. QED
    BY <1>0, <1>5, <2>1, <2>2 DEF Unregister, Frame
<1>6. CASE Open
    BY <1>0, <1>6, SameFrame DEF Open, AddFailed, RollBack, Busy
<1>7. CASE CheckInstalled \/ CheckDeps
  <2>1. mode = "add"
    BY <1>7 DEF CheckInstalled, CheckDeps, TypeOK, Control, Busy
  <2>2. QED
    BY <1>0, <1>7, <2>1, SameFrame
    DEF CheckInstalled, CheckDeps, AddFailed, Busy
<1>8. CASE Register
  <2> DEFINE p == job.pkg
  <2>1. p \in Pkg /\ Conflicts(db, p) = {}
    BY <1>8, JobType DEF Register, Acceptable, Forced, Strict, TypeOK, JobPc
  <2>2. \A f \in File :
          \/ db'.owner[f] = db.owner[f]
          \/ /\ db'.owner[f] \in {None, p}
             /\ db.owner[f] # None => NameOf[db.owner[f]] = NameOf[p]
    <3>1. \A f \in FilesOf[p] :
            db.owner[f] \in SameName(db, p) \/ db.owner[f] = None
        BY <2>1, RegisteredFields DEF TypeOK
    <3>2. \A f \in File : db'.owner[f] =
            IF f \in FilesOf[p] THEN p
            ELSE IF db.owner[f] \in SameName(db, p) THEN None ELSE db.owner[f]
        BY <1>8, <2>1, RegisteredFields DEF Register, TypeOK
    <3>3. QED
        BY <3>1, <3>2 DEF SameName
  <2>3. \A f \in File :
          /\ stored.owner[f] # None /\ NameOf[stored.owner[f]] \notin batch
               => db.owner[f] = stored.owner[f]
          /\ db.owner[f] # None /\ NameOf[db.owner[f]] \notin batch
               => stored.owner[f] = db.owner[f]
    BY <1>0, <1>8 DEF Register, CanBegin, Frame, TypeOK, Control, Busy
  <2>4. batch' = batch \cup {NameOf[p]} /\ stored' = stored
    BY <1>8 DEF Register, Touch
  <2>5. QED
    BY <2>2, <2>3, <2>4 DEF Frame
<1>9. CASE RegisterFailed
    BY <1>0, <1>9, SameFrame
    DEF RegisterFailed, AddFailed, RollBack, CanBegin, TypeOK, Control, Busy
<1>10. CASE ExtractMtree \/ CleanupOld
    BY <1>0, <1>10, SameFrame
    DEF ExtractMtree, CleanupOld, AddFailed, RollBack, Control, Busy
<1>11. CASE DeleteOldFile \/ ExtractFile \/ ExtractFailed
    BY <1>0, <1>11, SameFrame
    DEF DeleteOldFile, ExtractFile, ExtractFailed, Busy
<1>12. CASE UndoExtract
    BY <1>0, <1>12, SameFrame DEF UndoExtract, AddFailed, RollBack, Busy
<1>13. CASE Unwind
    BY <1>0, <1>13, SameFrame DEF Unwind, Control, Busy
<1>14. CASE Installed
  <2>1. CASE mode = "jobs"
    BY <1>0, <1>14, <2>1, SameFrame DEF Installed, Busy
  <2>2. CASE mode # "jobs"
    BY <1>14, <2>2 DEF Installed, Frame, Busy
  <2>3. QED
    BY <2>1, <2>2
<1>15. CASE \E f \in File : Edit(f)
    BY <1>0, <1>15, SameFrame DEF Edit
<1>16. CASE UNCHANGED vars
    BY <1>0, <1>16, SameFrame DEF vars
<1>17. QED
    BY <1>1, <1>2, <1>3, <1>4, <1>5, <1>6, <1>7, <1>8, <1>9, <1>10, <1>11,
       <1>12, <1>13, <1>14, <1>15, <1>16
    DEF Next, Step

\* The plan is kept by steps that leave the jobs and the database alone.
LEMMA SamePlan ==
    ASSUME Plan,
           \/ mode' # "jobs" \/ pc' = "end"
           \/ /\ UNCHANGED <<mode, todo, batch, db>>
              /\ pc # "end"
              /\ pc' \in {"next", "open", "register"}
                   => pc \in {"next", "open", "register"}
    PROVE  Plan'
BY DEF Plan

\* The plan is kept when the current job ends.
LEMMA NextPlanned ==
    ASSUME TypeOK, Plan, mode = "jobs", pc # "end", todo # <<>>,
           todo' = Tail(todo), batch' = batch, db'.installed = db.installed
                \/ db'.installed = db.installed \ {job.pkg}
    PROVE  Plan'
<1>1. \A i, k \in DOMAIN Tail(todo) : i # k =>
        NameOf[Tail(todo)[i].pkg] # NameOf[Tail(todo)[k].pkg]
  <2>1. \A i \in DOMAIN Tail(todo) :
          i + 1 \in DOMAIN todo /\ Tail(todo)[i] = todo[i + 1] /\ i \in Int
    BY TailElements DEF TypeOK
  <2>2. QED
    BY <2>1 DEF Plan
<1>2. ASSUME NEW i \in DOMAIN Tail(todo)
      PROVE  /\ Tail(todo)[i].type \in Removals =>
                   Tail(todo)[i].pkg \in db'.installed
             /\ Tail(todo)[i].type = "upgrade" =>
                   /\ Tail(todo)[i].old \in Pkg
                   /\ NameOf[Tail(todo)[i].old] = NameOf[Tail(todo)[i].pkg]
             /\ NameOf[Tail(todo)[i].pkg] \notin batch
  <2>1. i + 1 \in DOMAIN todo /\ Tail(todo)[i] = todo[i + 1] /\ i + 1 # 1
        /\ 1 \in DOMAIN todo /\ job = todo[1]
    BY TailElements
  <2>2. NameOf[todo[i + 1].pkg] # NameOf[job.pkg]
    BY <2>1 DEF Plan
  <2>3. QED
    BY <2>1, <2>2 DEF Plan
<1>3. QED
    BY <1>1, <1>2 DEF Plan

\* Every step takes the next job, of a package no job touched.
LEMMA NextPlan ==
    ASSUME Sound, [Next]_vars
    PROVE  Plan'
<1> USE DEF Sound
<1>0. Plan
    BY DEF Ownership
<1>1. CASE StartJobs
  <2>1. todo' \in JobLists /\ batch' = {} /\ db' = db /\ db \in Databases
    BY <1>1 DEF StartJobs, Control, TypeOK
  <2>2. \A i \in DOMAIN todo' : todo'[i] \in Jobs /\ SolvedJob(todo'[i])
    BY <2>1 DEF JobLists
  <2>3. \A i, k \in DOMAIN todo' : i < k =>
          NameOf[todo'[i].pkg] # NameOf[todo'[k].pkg]
    BY <2>1 DEF JobLists, IsSplit
  <2>4. DOMAIN todo' \subseteq Int
    BY <2>1, ExecuteAssumption DEF JobLists
  <2>5. \A i, k \in DOMAIN todo' : i # k =>
          NameOf[todo'[i].pkg] # NameOf[todo'[k].pkg]
    BY <2>3, <2>4
  <2>6. \A i \in DOMAIN todo' :
          /\ todo'[i].type \in Removals => todo'[i].pkg \in db'.installed
          /\ todo'[i].type = "upgrade" =>
               /\ todo'[i].old \in Pkg
               /\ NameOf[todo'[i].old] = NameOf[todo'[i].pkg]
    BY <2>1, <2>2 DEF SolvedJob, Removals, SameName, Databases
  <2>7. QED
    BY <2>1, <2>5, <2>6 DEF Plan
<1>2. CASE SkipSelf
    BY <1>0, <1>2, NextPlanned DEF SkipSelf, NextJob
<1>3. CASE BeginDelete
  <2>1. todo # <<>> /\ mode = "jobs" /\ pc = "next"
    BY <1>3 DEF BeginDelete, NextJob
  <2>2. 1 \in DOMAIN todo /\ job = todo[1]
    BY <2>1, TailElements
  <2>3. QED
    BY <1>0, <1>3, <2>1, <2>2 DEF BeginDelete, Touch, Plan
<1>4. CASE Unregister
  <2>1. mode = "jobs" /\ todo # <<>>
    BY <1>4 DEF Unregister, TypeOK, JobPc, Control, Busy
  <2>2. CASE pc' = "end"
    BY <1>0, <2>2, SamePlan
  <2>3. CASE pc' # "end"
    BY <1>0, <1>4, <2>1, <2>3, NextPlanned
    DEF Unregister, DeleteFailed, Without
  <2>4. QED
    BY <2>2, <2>3
<1>5. CASE Register
  <2> DEFINE p == job.pkg
  <2>1. CASE mode = "jobs"
    <3>1. todo # <<>> /\ p \in Pkg
        BY <1>5, JobType DEF Register, TypeOK, JobPc
    <3>2. 1 \in DOMAIN todo /\ job = todo[1]
        BY <3>1, TailElements
    <3>3. db'.installed = (db.installed \ SameName(db, p)) \cup {p}
        BY <1>5, <3>1, RegisteredFields DEF Register, TypeOK
    <3>4. ASSUME NEW i \in DOMAIN todo
          PROVE  /\ todo[i].type \in Removals => todo[i].pkg \in db'.installed
                 /\ i # 1 => NameOf[todo[i].pkg] \notin batch'
        BY <1>0, <1>5, <2>1, <3>2, <3>3
        DEF Register, Touch, Plan, SameName
    <3>5. QED
        BY <1>0, <1>5, <2>1, <3>4 DEF Register, Plan
  <2>2. CASE mode # "jobs"
    BY <1>0, <1>5, <2>2, SamePlan DEF Register
  <2>3. QED
    BY <2>1, <2>2
<1>6. CASE Installed
  <2>1. CASE mode = "jobs"
    BY <1>0, <1>6, <2>1, NextPlanned DEF Installed, TypeOK, JobPc
  <2>2. CASE mode # "jobs"
    BY <1>0, <1>6, <2>2, SamePlan DEF Installed
  <2>3. QED
    BY <2>1, <2>2
<1>7. CASE StartAdd \/ EndJobs \/ EndAdd \/ Crash \/ RefuseLocked
    BY <1>0, <1>7, SamePlan DEF StartAdd, EndJobs, EndAdd, Crash, RefuseLocked
<1>8. CASE BeginInstall \/ PreDeinstall \/ DeleteFile \/ PostDeinstall
    BY <1>0, <1>8, SamePlan
    DEF BeginInstall, NextJob, PreDeinstall, DeleteFile, PostDeinstall,
        DeleteFailed
<1>9. CASE Open \/ RegisterFailed
    BY <1>0, <1>9, SamePlan DEF Open, RegisterFailed, AddFailed, RollBack
<1>10. CASE CheckInstalled \/ CheckDeps \/ Unwind
    BY <1>0, <1>10, SamePlan
    DEF CheckInstalled, CheckDeps, Unwind, AddFailed, Control, Busy
<1>11. CASE ExtractMtree \/ CleanupOld
    BY <1>0, <1>11, SamePlan DEF ExtractMtree, CleanupOld, AddFailed, RollBack
<1>12. CASE DeleteOldFile \/ ExtractFile \/ ExtractFailed \/ UndoExtract
    BY <1>0, <1>12, SamePlan
    DEF DeleteOldFile, ExtractFile, ExtractFailed, UndoExtract, AddFailed,
        RollBack
<1>13. CASE \E f \in File : Edit(f)
    BY <1>0, <1>13, SamePlan DEF Edit
<1>14. CASE UNCHANGED vars
    BY <1>0, <1>14 DEF vars, Plan
<1>15. QED
    BY <1>1, <1>2, <1>3, <1>4, <1>5, <1>6, <1>7, <1>8, <1>9, <1>10, <1>11,
       <1>12, <1>13, <1>14
    DEF Next, Step

\* Every step works on paths of its own package.
LEMMA NextPaths ==
    ASSUME Sound, [Next]_vars
    PROVE  Paths'
<1> USE DEF Sound
<1>0. Paths /\ Plan /\ Frame
    BY DEF Ownership
<1>1. CASE BeginDelete
  <2>1. todo # <<>> /\ 1 \in DOMAIN todo /\ job = todo[1] /\ mode = "jobs"
        /\ pc = "next"
    BY <1>1, TailElements DEF BeginDelete, NextJob
  <2>2. job.pkg \in db.installed
    BY <1>0, <1>1, <2>1 DEF BeginDelete, IsDelete, Removals, Plan
  <2>3. /\ job' = job /\ db' = db /\ pc' = "predeinstall"
        /\ NameOf[job.pkg] \in batch'
    BY <1>1 DEF BeginDelete, Touch, job
  <2>4. QED
    BY <2>2, <2>3 DEF Paths, Busy
<1>2. CASE PreDeinstall \/ DeleteFile \/ PostDeinstall
  <2>1. job' = job
    BY <1>2 DEF PreDeinstall, DeleteFile, PostDeinstall, DeleteFailed, job
  <2>2. QED
    BY <1>0, <1>2, <2>1
    DEF PreDeinstall, DeleteFile, PostDeinstall, DeleteFailed, Paths, Busy,
        FilesIn
<1>3. CASE Register
  <2> DEFINE p == job.pkg
  <2>1. todo # <<>> /\ p \in Pkg /\ 1 \in DOMAIN todo /\ job = todo[1]
    BY <1>3, JobType, TailElements DEF Register, TypeOK, JobPc
  <2>2. job' = job /\ pc' = "mtree" /\ NameOf[p] \in batch'
        /\ stored' = stored
    BY <1>3 DEF Register, Touch, job
  <2>3. p \in db'.installed
    BY <1>3, <2>1, RegisteredFields DEF Register, TypeOK
  <2>4. ASSUME job.type = "upgrade", NEW f \in FilesIn(stored, job.old)
        PROVE  db'.owner[f] \in {None, p}
    <3>1. mode = "jobs"
        BY <1>3, <2>1, <2>4 DEF Register, TypeOK, Control, JobPc
    <3>2. /\ job.old \in Pkg /\ NameOf[job.old] = NameOf[p]
          /\ NameOf[p] \notin batch
        BY <1>0, <1>3, <2>1, <2>4, <3>1 DEF Register, Plan
    <3>3. f \in File /\ stored.owner[f] = job.old /\ job.old # None
        BY <2>4, <3>2, ExecuteAssumption DEF FilesIn
    <3>4. db.owner[f] = job.old
        BY <1>0, <3>1, <3>2, <3>3 DEF Frame
    <3>5. db.owner[f] \in SameName(db, p)
        BY <3>2, <3>3, <3>4 DEF SameName, TypeOK, WellFormed
    <3>6. QED
        BY <1>3, <2>1, <3>3, <3>5, RegisteredFields DEF Register, TypeOK
  <2>5. QED
    BY <2>2, <2>3, <2>4 DEF Paths, Busy
<1>4. CASE ExtractMtree
  <2>1. job' = job /\ FilesIn(stored', job'.old) = FilesIn(stored, job.old)
    BY <1>4 DEF ExtractMtree, AddFailed, job, FilesIn
  <2>2. FilesOf[job.pkg] = FilesIn(db, job.pkg)
    BY <1>0, <1>4 DEF ExtractMtree, Paths, Registration, Complete, Busy
  <2>3. QED
    BY <1>0, <1>4, <2>1, <2>2
    DEF ExtractMtree, AddFailed, RollBack, Paths, Busy, FilesIn
<1>5. CASE CleanupOld
  <2>1. job' = job
    BY <1>5 DEF CleanupOld, AddFailed, job
  <2>2. QED
    BY <1>0, <1>5, <2>1
    DEF CleanupOld, AddFailed, RollBack, Paths, Busy, FilesIn, Control
<1>6. CASE DeleteOldFile
  <2>1. job' = job
    BY <1>6 DEF DeleteOldFile, job
  <2>2. FilesOf[job.pkg] = FilesIn(db, job.pkg)
    BY <1>0, <1>6 DEF DeleteOldFile, Paths, Registration, Complete, Busy
  <2>3. QED
    BY <1>0, <1>6, <2>1, <2>2 DEF DeleteOldFile, Paths, Busy, FilesIn
<1>7. CASE ExtractFile
  <2>1. job' = job
    BY <1>7 DEF ExtractFile, job
  <2>2. QED
    BY <1>0, <1>7, <2>1 DEF ExtractFile, Paths, Busy, FilesIn
<1>8. CASE ExtractFailed
  <2>1. job' = job
    BY <1>8 DEF ExtractFailed, job
  <2>2. FilesOf[job.pkg] = FilesIn(db, job.pkg)
    BY <1>0, <1>8 DEF ExtractFailed, Paths, Registration, Complete, Busy
  <2>3. QED
    BY <1>0, <1>8, <2>1, <2>2 DEF ExtractFailed, Paths, Busy, FilesIn
<1>9. CASE UndoExtract
  <2>1. job' = job
    BY <1>9 DEF UndoExtract, AddFailed, job
  <2>2. QED
    BY <1>0, <1>9, <2>1
    DEF UndoExtract, AddFailed, RollBack, Paths, Busy, FilesIn
<1>10. CASE StartJobs \/ StartAdd \/ EndJobs \/ EndAdd \/ Crash
    BY <1>10 DEF StartJobs, StartAdd, EndJobs, EndAdd, Crash, Paths, Busy
<1>11. CASE SkipSelf \/ RefuseLocked \/ BeginInstall
    BY <1>11 DEF SkipSelf, RefuseLocked, BeginInstall, NextJob, Paths, Busy
<1>12. CASE Unregister \/ Open \/ Unwind \/ Installed
    BY <1>12
    DEF Unregister, DeleteFailed, Open, AddFailed, Unwind, Installed, Paths,
        Busy
<1>13. CASE CheckInstalled \/ CheckDeps \/ RegisterFailed
    BY <1>13
    DEF CheckInstalled, CheckDeps, RegisterFailed, AddFailed, Paths, Busy
<1>14. CASE \E f \in File : Edit(f)
    BY <1>14 DEF Edit, Paths, Busy, Control
<1>15. CASE UNCHANGED vars
    BY <1>0, <1>15 DEF vars, Paths, job, FilesIn
<1>16. QED
    BY <1>1, <1>2, <1>3, <1>4, <1>5, <1>6, <1>7, <1>8, <1>9, <1>10, <1>11,
       <1>12, <1>13, <1>14, <1>15
    DEF Next, Step

\* What the finished jobs wrote stays on disk.
LEMMA NextDone ==
    ASSUME Sound, [Next]_vars
    PROVE  Done'
<1> USE DEF Sound
<1>0. Done /\ Paths /\ Plan
    BY DEF Ownership
<1>1. CASE StartJobs
    BY <1>1 DEF StartJobs, Control, Done
<1>2. CASE SkipSelf
    BY <1>0, <1>2 DEF SkipSelf, NextJob, Done, Pending
<1>3. CASE BeginDelete
  <2>1. todo # <<>> /\ 1 \in DOMAIN todo /\ job = todo[1] /\ mode = "jobs"
        /\ pc = "next"
    BY <1>3, TailElements DEF BeginDelete, NextJob
  <2>2. job.pkg \in db.installed
    BY <1>0, <1>3, <2>1 DEF BeginDelete, IsDelete, Removals, Plan
  <2>3. /\ job' = job /\ UNCHANGED <<db, disk, mode>> /\ pc' = "predeinstall"
        /\ batch' = batch \cup {NameOf[job.pkg]}
    BY <1>3 DEF BeginDelete, Touch, job
  <2>4. \A f \in File : db.owner[f] # None
            /\ NameOf[db.owner[f]] = NameOf[job.pkg] => db.owner[f] = job.pkg
    BY <2>2 DEF TypeOK, WellFormed
  <2>5. QED
    BY <1>0, <2>1, <2>3, <2>4 DEF Done, Pending
<1>4. CASE PreDeinstall \/ PostDeinstall
  <2>1. job' = job
    BY <1>4 DEF PreDeinstall, PostDeinstall, DeleteFailed, job
  <2>2. QED
    BY <1>0, <1>4, <2>1
    DEF PreDeinstall, PostDeinstall, DeleteFailed, Done, Pending
<1>5. CASE DeleteFile
  <2>1. PICK f \in files : disk' = Unlinked(f, job.pkg, ForceFlag)
    BY <1>5 DEF DeleteFile
  <2>2. db.owner[f] = job.pkg /\ f \in File
    BY <1>0, <1>5 DEF DeleteFile, Paths, FilesIn
  <2>3. \A g \in File : g # f => disk'[g] = disk[g]
    BY <2>1 DEF Unlinked, TypeOK
  <2>4. job' = job /\ UNCHANGED <<db, mode, batch, pc>> /\ pc = "delete"
    BY <1>5 DEF DeleteFile, job
  <2>5. QED
    BY <1>0, <2>2, <2>3, <2>4 DEF Done, Pending
<1>6. CASE Unregister
  <2>1. CASE pc' = "end"
    BY <1>6, <2>1 DEF Unregister, DeleteFailed, Done
  <2>2. CASE pc' # "end"
    <3>1. /\ mode = "jobs" /\ pc = "unregister" /\ pc' = "next"
          /\ db' = Without(db, {job.pkg}) /\ UNCHANGED <<disk, batch, mode>>
        BY <1>6, <2>2
        DEF Unregister, DeleteFailed, TypeOK, Control, Busy
    <3>2. \A f \in File : db'.owner[f] # None =>
            db'.owner[f] = db.owner[f] /\ db.owner[f] # job.pkg
        BY <3>1 DEF Without
    <3>3. QED
        BY <1>0, <3>1, <3>2 DEF Done, Pending
  <2>3. QED
    BY <2>1, <2>2
<1>7. CASE Register
  <2> DEFINE p == job.pkg
  <2>1. p \in Pkg
    BY <1>7, JobType DEF Register, TypeOK, JobPc
  <2>2. /\ job' = job /\ UNCHANGED <<disk, mode>> /\ pc = "register"
        /\ pc' = "mtree" /\ batch' = batch \cup {NameOf[p]}
    BY <1>7 DEF Register, Touch, job
  <2>3. \A f \in File :
          \/ db'.owner[f] \in {None, p}
          \/ db'.owner[f] = db.owner[f] /\ db.owner[f] \notin SameName(db, p)
    BY <1>7, <2>1, RegisteredFields DEF Register, TypeOK
  <2>4. \A f \in File : db'.owner[f] \notin {None, p} =>
          db'.owner[f] = db.owner[f] /\ NameOf[db.owner[f]] # NameOf[p]
    BY <2>3 DEF SameName, TypeOK, WellFormed
  <2>5. QED
    BY <1>0, <2>2, <2>4 DEF Done, Pending
<1>8. CASE ExtractMtree \/ CleanupOld
  <2>1. job' = job
    BY <1>8 DEF ExtractMtree, CleanupOld, AddFailed, job
  <2>2. FilesOf[job.pkg] = FilesIn(db, job.pkg)
    BY <1>0, <1>8
    DEF ExtractMtree, CleanupOld, Paths, Registration, Complete, Busy
  <2>3. QED
    BY <1>0, <1>8, <2>1, <2>2
    DEF ExtractMtree, CleanupOld, AddFailed, RollBack, Done, Pending, FilesIn
<1>9. CASE DeleteOldFile
  <2>1. job' = job /\ UNCHANGED <<db, mode, batch>> /\ pc = "delete_old"
    BY <1>9 DEF DeleteOldFile, job
  <2>2. FilesOf[job.pkg] = FilesIn(db, job.pkg)
    BY <1>0, <1>9 DEF DeleteOldFile, Paths, Registration, Complete, Busy
  <2>3. CASE files = {}
    BY <1>0, <1>9, <2>1, <2>2, <2>3 DEF DeleteOldFile, Done, Pending, FilesIn
  <2>4. CASE files # {}
    <3>1. PICK f \in files : disk' = Unlinked(f, job.old, TRUE)
        BY <1>9, <2>4 DEF DeleteOldFile
    <3>2. f \in File /\ db.owner[f] \in {None, job.pkg}
        BY <1>0, <1>9 DEF DeleteOldFile, Paths, FilesIn
    <3>3. \A g \in File : g # f => disk'[g] = disk[g]
        BY <3>1 DEF Unlinked, TypeOK
    <3>4. pc' = "delete_old"
        BY <1>9, <2>4 DEF DeleteOldFile
    <3>5. QED
        BY <1>0, <2>1, <3>2, <3>3, <3>4 DEF Done, Pending
  <2>5. QED
    BY <2>3, <2>4
<1>10. CASE ExtractFile
  <2>1. job' = job /\ UNCHANGED <<db, mode, batch, pc>> /\ pc = "extract"
    BY <1>10 DEF ExtractFile, job
  <2>2. PICK f \in files : disk' = [disk EXCEPT ![f] = job.pkg]
                           /\ files' = files \ {f}
    BY <1>10 DEF ExtractFile
  <2>3. f \in File /\ db.owner[f] = job.pkg
    BY <1>0, <2>1 DEF Paths, FilesIn
  <2>4. disk'[f] = job.pkg /\ \A g \in File : g # f => disk'[g] = disk[g]
    BY <2>2, <2>3 DEF TypeOK
  <2>5. QED
    BY <1>0, <2>1, <2>2, <2>3, <2>4 DEF Done, Pending, FilesIn
<1>11. CASE ExtractFailed
    BY <1>11 DEF ExtractFailed, Done
<1>12. CASE UndoExtract
    BY <1>0, <1>12 DEF UndoExtract, AddFailed, Done
<1>13. CASE Installed
  <2>1. CASE mode = "jobs"
    <3>1. /\ pc = "extract" /\ files = {} /\ pc' = "next"
          /\ UNCHANGED <<db, mode, batch, disk>>
      <4>1. todo # <<>>
        BY <1>13 DEF Installed, TypeOK, JobPc
      <4>2. job.type # "dep"
        BY <2>1, <4>1, TailElements DEF Control
      <4>3. QED
        BY <1>13, <2>1, <4>2 DEF Installed
    <3>2. QED
        BY <1>0, <2>1, <3>1 DEF Done, Pending
  <2>2. CASE mode # "jobs"
    BY <1>13, <2>2 DEF Installed, Done
  <2>3. QED
    BY <2>1, <2>2
<1>14. CASE StartAdd \/ EndJobs \/ EndAdd \/ Crash
    BY <1>14 DEF StartAdd, EndJobs, EndAdd, Crash, Done
<1>15. CASE RefuseLocked \/ BeginInstall
    BY <1>0, <1>15 DEF RefuseLocked, BeginInstall, NextJob, Done, Pending
<1>16. CASE Open \/ RegisterFailed
    BY <1>0, <1>16
    DEF Open, RegisterFailed, AddFailed, RollBack, TypeOK, Control, Done,
        Pending
<1>17. CASE CheckInstalled \/ CheckDeps \/ Unwind
  <2>1. mode = "add"
    BY <1>17 DEF CheckInstalled, CheckDeps, Unwind, TypeOK, Control, Busy
  <2>2. QED
    BY <1>17, <2>1 DEF CheckInstalled, CheckDeps, Unwind, AddFailed, Done
<1>18. CASE \E f \in File : Edit(f)
    BY <1>18 DEF Edit, Done, Control
<1>19. CASE UNCHANGED vars
    BY <1>0, <1>19 DEF vars, Done, Pending, job, FilesIn
<1>20. QED
    BY <1>1, <1>2, <1>3, <1>4, <1>5, <1>6, <1>7, <1>8, <1>9, <1>10, <1>11,
       <1>12, <1>13, <1>14, <1>15, <1>16, <1>17, <1>18, <1>19
    DEF Next, Step

\* A path that the database gives to the package at work belongs to no
\* committed package that is not suspect.
LEMMA Bystander ==
    ASSUME Sound, mode = "jobs" \/ pc \in Busy, NEW f \in File,
           db.owner[f] = job.pkg, NameOf[job.pkg] \in batch,
           stored.owner[f] # None
    PROVE  NameOf[stored.owner[f]] \in suspect
BY DEF Sound, Ownership, Frame

\* Intact is kept by a step that changes the disk at such paths only.
LEMMA SameIntact ==
    ASSUME Intact, stored' = stored, suspect \subseteq suspect',
           \A f \in File : stored.owner[f] # None
                /\ NameOf[stored.owner[f]] \notin suspect
                => disk'[f] \in {disk[f], User}
    PROVE  Intact'
BY DEF Intact

\* No step changes a file of a package that is not suspect.
LEMMA NextIntact ==
    ASSUME Sound, [Next]_vars
    PROVE  Intact' /\ batch' \subseteq suspect'
<1> USE DEF Sound
<1>0. /\ Intact /\ Done /\ Paths /\ Plan /\ Frame /\ batch \subseteq suspect
    BY DEF Ownership
<1>1. CASE EndJobs
  <2>1. batch' = {} /\ UNCHANGED disk
    BY <1>1 DEF EndJobs
  <2>2. CASE stored' = stored /\ UNCHANGED suspect
    BY <1>0, <2>1, <2>2, SameIntact
  <2>3. CASE stored' = db /\ rc # "ok" /\ suspect' = suspect
    <3>1. \A f \in File : db.owner[f] # None
            /\ NameOf[db.owner[f]] \notin suspect
            => stored.owner[f] = db.owner[f]
        BY <1>0, <1>1 DEF EndJobs, Frame
    <3>2. QED
        BY <1>0, <2>1, <2>3, <3>1 DEF Intact
  <2>4. CASE stored' = db /\ rc = "ok" /\ suspect' = suspect \ batch
    <3>1. mode = "jobs" /\ pc = "next"
        BY <1>0, <1>1, <2>4 DEF EndJobs, Done
    <3>2. \A f \in File : db.owner[f] # None
            /\ NameOf[db.owner[f]] \notin suspect
            => stored.owner[f] = db.owner[f]
        BY <1>0, <3>1 DEF Frame
    <3>3. \A f \in File : db.owner[f] # None
            /\ NameOf[db.owner[f]] \in batch
            => disk[f] \in {db.owner[f], User}
        BY <1>0, <3>1 DEF Done, Pending
    <3>4. QED
        BY <1>0, <2>1, <2>4, <3>2, <3>3 DEF Intact
  <2>5. QED
    BY <1>1, <2>2, <2>3, <2>4 DEF EndJobs
<1>2. CASE Installed
  <2>1. UNCHANGED disk /\ pc = "extract" /\ files = {}
    BY <1>2 DEF Installed
  <2>2. CASE UNCHANGED <<stored, suspect, batch>>
    BY <1>0, <2>1, <2>2, SameIntact
  <2>3. CASE /\ stored' = db /\ batch' = batch \ {NameOf[job.pkg]}
             /\ suspect' = suspect \ {NameOf[job.pkg]}
    <3>1. \A f \in File : db.owner[f] # None
            /\ NameOf[db.owner[f]] \notin suspect
            => stored.owner[f] = db.owner[f]
        BY <1>0, <2>1 DEF Frame, Busy
    <3>2. \A f \in File : db.owner[f] # None
            /\ NameOf[db.owner[f]] = NameOf[job.pkg] => db.owner[f] = job.pkg
        BY <1>0, <2>1 DEF Paths, Busy, TypeOK, WellFormed
    <3>3. \A f \in File : db.owner[f] = job.pkg => disk[f] \in {job.pkg, User}
        BY <1>0, <2>1 DEF Done, FilesIn
    <3>4. QED
        BY <1>0, <2>1, <2>3, <3>1, <3>2, <3>3 DEF Intact
  <2>4. QED
    BY <1>2, <2>2, <2>3 DEF Installed
<1>3. CASE DeleteFile
  <2>1. PICK f \in files : disk' = Unlinked(f, job.pkg, ForceFlag)
    BY <1>3 DEF DeleteFile
  <2>2. f \in File /\ db.owner[f] = job.pkg /\ NameOf[job.pkg] \in batch
        /\ mode = "jobs"
    BY <1>0, <1>3 DEF DeleteFile, Paths, FilesIn, TypeOK, Control, Busy
  <2>3. \A g \in File : g # f => disk'[g] = disk[g]
    BY <2>1 DEF Unlinked, TypeOK
  <2>4. UNCHANGED <<stored, batch, suspect>>
    BY <1>3 DEF DeleteFile
  <2>5. QED
    BY <1>0, <2>2, <2>3, <2>4, SameIntact, Bystander
<1>4. CASE DeleteOldFile
  <2>1. UNCHANGED <<stored, batch, suspect>> /\ pc = "delete_old"
    BY <1>4 DEF DeleteOldFile
  <2>2. CASE files = {}
    BY <1>0, <1>4, <2>1, <2>2, SameIntact DEF DeleteOldFile
  <2>3. CASE files # {}
    <3>1. PICK f \in files : disk' = Unlinked(f, job.old, TRUE)
        BY <1>4, <2>3 DEF DeleteOldFile
    <3>2. f \in File /\ stored.owner[f] = job.old /\ job.type = "upgrade"
        BY <1>0, <2>1 DEF Paths, FilesIn
    <3>3. NameOf[job.old] \in suspect
      <4>1. todo # <<>> /\ 1 \in DOMAIN todo /\ job = todo[1]
        BY <2>1, TailElements DEF TypeOK, JobPc
      <4>2. mode = "jobs" /\ NameOf[job.pkg] \in batch
        BY <1>0, <2>1 DEF TypeOK, Control, Paths, Busy
      <4>3. NameOf[job.old] = NameOf[job.pkg]
        BY <1>0, <2>1, <3>2, <4>1, <4>2 DEF Plan
      <4>4. QED
        BY <1>0, <4>2, <4>3
    <3>4. \A g \in File : g # f => disk'[g] = disk[g]
        BY <3>1 DEF Unlinked, TypeOK
    <3>5. QED
        BY <1>0, <2>1, <3>2, <3>3, <3>4, SameIntact
  <2>4. QED
    BY <2>2, <2>3
<1>5. CASE ExtractFile
  <2>1. PICK f \in files : disk' = [disk EXCEPT ![f] = job.pkg]
    BY <1>5 DEF ExtractFile
  <2>2. f \in File /\ db.owner[f] = job.pkg /\ NameOf[job.pkg] \in batch
        /\ pc \in Busy
    BY <1>0, <1>5 DEF ExtractFile, Paths, FilesIn, Busy
  <2>3. \A g \in File : g # f => disk'[g] = disk[g]
    BY <2>1 DEF TypeOK
  <2>4. UNCHANGED <<stored, batch, suspect>>
    BY <1>5 DEF ExtractFile
  <2>5. QED
    BY <1>0, <2>2, <2>3, <2>4, SameIntact, Bystander
<1>6. CASE UndoExtract
  <2>1. UNCHANGED <<stored, batch, suspect>> /\ pc = "fail"
    BY <1>6 DEF UndoExtract
  <2>2. CASE files = {}
    BY <1>0, <1>6, <2>1, <2>2, SameIntact DEF UndoExtract
  <2>3. CASE files # {}
    <3>1. PICK f \in files : disk' = Unlinked(f, job.pkg, TRUE)
        BY <1>6, <2>3 DEF UndoExtract
    <3>2. f \in File /\ db.owner[f] = job.pkg /\ NameOf[job.pkg] \in batch
          /\ pc \in Busy
        BY <1>0, <2>1 DEF Paths, FilesIn, Busy
    <3>3. \A g \in File : g # f => disk'[g] = disk[g]
        BY <3>1 DEF Unlinked, TypeOK
    <3>4. QED
        BY <1>0, <2>1, <3>2, <3>3, SameIntact, Bystander
  <2>4. QED
    BY <2>2, <2>3
<1>7. CASE Crash
  <2>1. UNCHANGED <<stored, suspect>> /\ batch' = {}
    BY <1>7 DEF Crash
  <2>2. CASE UNCHANGED disk
    BY <1>0, <2>1, <2>2, SameIntact
  <2>3. CASE pc = "extract" /\ \E f \in files :
               disk' = [disk EXCEPT ![f] = Partial]
    <3>1. PICK f \in files : disk' = [disk EXCEPT ![f] = Partial]
        BY <2>3
    <3>2. f \in File /\ db.owner[f] = job.pkg /\ NameOf[job.pkg] \in batch
          /\ pc \in Busy
        BY <1>0, <2>3 DEF Paths, FilesIn, Busy
    <3>3. \A g \in File : g # f => disk'[g] = disk[g]
        BY <3>1 DEF TypeOK
    <3>4. QED
        BY <1>0, <2>1, <3>2, <3>3, SameIntact, Bystander
  <2>4. QED
    BY <1>7, <2>2, <2>3 DEF Crash
<1>8. CASE \E f \in File : Edit(f)
  <2>1. UNCHANGED <<stored, batch, suspect>>
        /\ \A g \in File : disk'[g] \in {disk[g], User}
    BY <1>8 DEF Edit, TypeOK
  <2>2. QED
    BY <1>0, <2>1, SameIntact
<1>9. CASE BeginDelete \/ Register
  <2>1. UNCHANGED <<stored, disk>>
        /\ \E n : batch' = batch \cup {n} /\ suspect' = suspect \cup {n}
    BY <1>9 DEF BeginDelete, Register, Touch
  <2>2. QED
    BY <1>0, <2>1, SameIntact
<1>10. CASE \/ StartJobs \/ StartAdd \/ EndAdd \/ SkipSelf \/ RefuseLocked
            \/ BeginInstall \/ PreDeinstall \/ PostDeinstall \/ Unregister
            \/ Open \/ CheckInstalled \/ CheckDeps \/ RegisterFailed
            \/ ExtractMtree \/ CleanupOld \/ ExtractFailed \/ Unwind
            \/ UNCHANGED vars
  <2>1. UNCHANGED <<stored, disk, suspect>> /\ batch' \in {batch, {}}
    BY <1>10
    DEF StartJobs, StartAdd, EndAdd, SkipSelf, RefuseLocked, BeginInstall,
        PreDeinstall, PostDeinstall, Unregister, Open, CheckInstalled,
        CheckDeps, RegisterFailed, ExtractMtree, CleanupOld, ExtractFailed,
        Unwind, vars
  <2>2. QED
    BY <1>0, <2>1, SameIntact
<1>11. QED
    BY <1>1, <1>2, <1>3, <1>4, <1>5, <1>6, <1>7, <1>8, <1>9, <1>10
    DEF Next, Step

\* At first nothing is suspect.
LEMMA InitOwnership == Init => Ownership
<1> SUFFICES ASSUME Init PROVE Ownership
    OBVIOUS
<1>1. Intact
    BY DEF Init, Intact
<1>2. QED
    BY <1>1 DEF Init, Ownership, Plan, Frame, Paths, Done, Busy

\* The files of a committed package that no unfinished command worked on are
\* on disk as registered or as the user left them, through any failures and
\* crashes, if conflicts are not overlooked and no upgrade is split.
THEOREM FilesIntact == Spec => []OwnedIntact
<1> DEFINE Inv == /\ TypeOK /\ Control
                  /\ Strict => Registration
                  /\ Strict /\ ~Splits => Ownership
<1>1. Init => Inv
    BY InitType, InitRegistration, InitOwnership
<1>2. Inv /\ [Next]_vars => Inv'
  <2> SUFFICES ASSUME Inv, [Next]_vars PROVE Inv'
    OBVIOUS
  <2>1. TypeOK' /\ Control' /\ (Strict => Registration')
    BY NextType, NextControl, NextRegistration
  <2>2. ASSUME Strict, ~Splits PROVE Ownership'
    <3>1. Sound
        BY <2>2 DEF Sound
    <3>2. QED
        BY <3>1, NextFrame, NextPlan, NextPaths, NextDone, NextIntact
        DEF Ownership
  <2>3. QED
    BY <2>1, <2>2 DEF Strict
<1>3. Inv => OwnedIntact
    BY DEF OwnedIntact, Ownership, Intact
<1>4. QED
    BY <1>1, <1>2, <1>3, PTL DEF Spec

---------------------------------------------------------------------------
(* Locked packages.                                                        *)

\* The paths that the locked packages have at first.
LockedFiles == {f \in File : Owner(Initial, f) \in InitialLocked}

\* Either conflicts are not overlooked, or no other package lists the paths of
\* a locked one: pkg add -f extracts whatever the manifest lists.
Spared ==
    Strict \/ \A l \in InitialLocked, p \in Pkg :
                 NameOf[l] # NameOf[p] => FilesOf[l] \cap FilesOf[p] = {}

\* No locked package has the name of p.
Free(p) == \A l \in InitialLocked : NameOf[l] # NameOf[p]

\* The locked packages are the ones at first, with the files they had.
Rows(d) ==
    /\ d.locked = InitialLocked
    /\ \A f \in File :
         f \in LockedFiles \/ d.owner[f] \in InitialLocked
             => d.owner[f] = Owner(Initial, f)

\* What is known of the packages and paths that the steps work on: a removal
\* has seen that its package is not locked, an upgrade is of one that was not
\* when the jobs were solved, and the packages that wait for a dependency of
\* theirs have passed the check.
Respect ==
    /\ Rows(db) /\ Rows(stored)
    /\ mode = "jobs" => \A i \in DOMAIN todo :
         /\ todo[i].type \notin Removals => Free(todo[i].pkg)
         /\ todo[i].type = "upgrade" => todo[i].old \notin InitialLocked
    /\ mode = "add" => \A i \in DOMAIN todo :
         i + 1 \in DOMAIN todo /\ todo[i].type = "dep" => Free(todo[i + 1].pkg)
    /\ pc \in {"predeinstall", "delete", "unregister"} =>
         job.pkg \notin InitialLocked
    /\ mode = "jobs" /\ pc = "open" => job.type \notin Removals
    /\ pc \in {"deps", "register"} => Free(job.pkg)
    /\ pc \in Busy => FilesOf[job.pkg] \cap LockedFiles = {}
    /\ pc \in {"delete", "cleanup_old", "delete_old", "extract", "fail"} =>
         files \cap LockedFiles = {}

\* Deleting packages that are not locked keeps the rows of the locked ones.
LEMMA WithoutRows ==
    ASSUME NEW d \in Databases, Rows(d), NEW ps, ps \cap InitialLocked = {}
    PROVE  Rows(Without(d, ps))
<1> DEFINE r == Without(d, ps)
<1>1. /\ r.locked = d.locked \ ps
      /\ \A f \in File : r.owner[f] =
            IF d.owner[f] \in ps THEN None ELSE d.owner[f]
    BY DEF Without
<1>2. None \notin InitialLocked
    BY ExecuteAssumption
<1> HIDE DEF r
<1>3. Rows(r)
    BY <1>1, <1>2 DEF Rows, LockedFiles
<1>4. QED
    BY <1>3 DEF r

\* So does registering a package of another name: its files at the paths of
\* the locked packages are conflicts.
LEMMA RegisteredRows ==
    ASSUME NEW d \in Databases, Rows(d), NEW p \in Pkg, Free(p), NEW fs,
           fs \subseteq FilesOf[p]
    PROVE  Rows(Registered(d, p, fs))
<1> DEFINE r == Registered(d, p, fs)
<1>1. /\ r.locked = d.locked \ SameName(d, p)
      /\ \A f \in File : r.owner[f] =
            IF f \in fs \ Conflicts(d, p) THEN p
            ELSE IF d.owner[f] \in SameName(d, p) THEN None ELSE d.owner[f]
      /\ Conflicts(d, p) =
            {f \in FilesOf[p] : d.owner[f] \notin SameName(d, p)
                                /\ d.owner[f] # None}
    BY RegisteredFields
<1>2. SameName(d, p) \cap InitialLocked = {} /\ p \notin InitialLocked
      /\ None \notin InitialLocked
    BY ExecuteAssumption DEF SameName, Free
<1> HIDE DEF r
<1>3. r.locked = InitialLocked
    BY <1>1, <1>2 DEF Rows
<1>4. ASSUME NEW f \in File, f \in LockedFiles
      PROVE  r.owner[f] = Owner(Initial, f)
  <2>1. d.owner[f] = Owner(Initial, f) /\ d.owner[f] \in InitialLocked
    BY <1>4 DEF Rows, LockedFiles
  <2>2. f \notin fs \ Conflicts(d, p)
    BY <1>1, <1>2, <2>1
  <2>3. QED
    BY <1>1, <1>2, <2>1, <2>2
<1>5. ASSUME NEW f \in File, r.owner[f] \in InitialLocked
      PROVE  r.owner[f] = Owner(Initial, f)
    BY <1>1, <1>2, <1>5 DEF Rows
<1>6. Rows(r)
    BY <1>3, <1>4, <1>5 DEF Rows
<1>7. QED
    BY <1>6 DEF r

\* A package that registers has no file at a path of a locked package.
LEMMA FreeFiles ==
    ASSUME Spared, TypeOK, Rows(db), NEW p \in Pkg, Free(p), Acceptable(p)
    PROVE  FilesOf[p] \cap LockedFiles = {}
<1> SUFFICES ASSUME NEW f \in FilesOf[p], f \in LockedFiles PROVE FALSE
    OBVIOUS
<1>1. f \in File /\ Owner(Initial, f) \in InitialLocked
      /\ db.owner[f] = Owner(Initial, f)
    BY DEF LockedFiles, Rows
<1>2. db.owner[f] # None /\ db.owner[f] \notin SameName(db, p)
    BY <1>1, ExecuteAssumption DEF SameName, Free
<1>3. f \in Conflicts(db, p)
    BY <1>2, RegisteredFields DEF TypeOK
<1>4. ~Strict
    BY <1>3 DEF Strict, Acceptable, Forced
<1>5. f \in FilesOf[Owner(Initial, f)]
  <2>1. \E q \in Initial : f \in FilesOf[q]
    BY <1>1, ExecuteAssumption DEF Owner
  <2>2. QED
    BY <2>1 DEF Owner
<1>6. NameOf[Owner(Initial, f)] # NameOf[p]
    BY <1>1 DEF Free
<1>7. QED
    BY <1>1, <1>4, <1>5, <1>6 DEF Spared

\* The jobs that the solver hands out leave the locked packages alone.
LEMMA FreeJobs ==
    ASSUME TypeOK, Rows(db), NEW js \in JobLists, NEW i \in DOMAIN js
    PROVE  /\ js[i].type \notin Removals => Free(js[i].pkg)
           /\ js[i].type = "upgrade" => js[i].old \notin InitialLocked
<1>1. SolvedJob(js[i])
    BY DEF JobLists
<1>2. db.locked = InitialLocked /\ InitialLocked \subseteq db.installed
    BY DEF Rows, TypeOK, WellFormed
<1>3. \A x, y \in db.installed : NameOf[x] = NameOf[y] => x = y
    BY DEF TypeOK, WellFormed
<1>4. QED
    BY <1>1, <1>2, <1>3 DEF SolvedJob, SameName, Free, Removals

\* The paths of an old version, or of a package to remove, are others.
LEMMA OtherFiles ==
    ASSUME NEW d, Rows(d), NEW p, p \notin InitialLocked
    PROVE  FilesIn(d, p) \cap LockedFiles = {}
BY DEF FilesIn, Rows, LockedFiles

\* What is left of the invariant when the step leaves the jobs alone.
LEMMA SameRespect ==
    ASSUME Respect, Rows(db'), Rows(stored'), todo' = todo, mode' = mode,
           files' \subseteq files, pc' = pc \/ pc' \in {"next", "end", "unwind"}
    PROVE  Respect'
<1>1. job' = job
    BY DEF job
<1>2. (Rows(db))' /\ (Rows(stored))'
    BY DEF Rows, LockedFiles
<1>3. QED
    BY <1>1, <1>2 DEF Respect, LockedFiles, Free, Busy

LEMMA InitRespect == Init => Respect
<1> SUFFICES ASSUME Init PROVE Respect
    OBVIOUS
<1>1. Rows(db)
    BY DEF Init, Rows, LockedFiles
<1>2. QED
    BY <1>1 DEF Init, Respect, Busy

\* Every step respects the locked packages.
LEMMA NextRespect ==
    ASSUME Spared, TypeOK, Control, Respect, [Next]_vars
    PROVE  Respect'
<1>0. /\ Rows(db) /\ Rows(stored)
      /\ (Rows(db))' = Rows(db') /\ (Rows(stored))' = Rows(stored')
    BY DEF Respect, Rows, LockedFiles
<1>1. CASE StartJobs
  <2>1. todo' \in JobLists /\ mode' = "jobs" /\ pc' = "next"
        /\ UNCHANGED <<db, stored, files>>
    BY <1>1 DEF StartJobs
  <2>2. \A i \in DOMAIN todo' :
          /\ todo'[i].type \notin Removals => Free(todo'[i].pkg)
          /\ todo'[i].type = "upgrade" => todo'[i].old \notin InitialLocked
    BY <1>0, <2>1, FreeJobs
  <2>3. QED
    BY <1>0, <2>1, <2>2 DEF Respect, Busy, Free
<1>2. CASE StartAdd
  <2>1. todo' \in AddLists /\ mode' = "add" /\ pc' = "next"
        /\ UNCHANGED <<db, stored, files>>
    BY <1>2 DEF StartAdd
  <2>2. \A i \in DOMAIN todo' : todo'[i].type = "add"
    BY <2>1 DEF AddLists
  <2>3. QED
    BY <1>0, <2>1, <2>2 DEF Respect, Busy, Free
<1>3. CASE SkipSelf
  <2>1. /\ todo # <<>> /\ todo' = Tail(todo) /\ mode = "jobs" /\ pc = "next"
        /\ UNCHANGED <<db, stored, files, mode, pc>>
    BY <1>3 DEF SkipSelf, NextJob
  <2>2. QED
    BY <1>0, <2>1, TailElements DEF Respect, Busy, Free
<1>4. CASE RefuseLocked
    BY <1>0, <1>4, SameRespect DEF RefuseLocked
<1>5. CASE BeginDelete
  <2>1. /\ mode = "jobs" /\ pc' = "predeinstall" /\ job.pkg \notin db.locked
        /\ UNCHANGED <<db, stored, files, mode, todo>>
    BY <1>5 DEF BeginDelete, NextJob
  <2>2. job' = job /\ job.pkg \notin InitialLocked
    BY <1>0, <2>1 DEF job, Rows
  <2>3. QED
    BY <1>0, <2>1, <2>2 DEF Respect, Busy, Free
<1>6. CASE BeginInstall
  <2>1. /\ mode = "jobs" /\ pc' = "open" /\ ~IsDelete
        /\ UNCHANGED <<db, stored, files, mode, todo>>
    BY <1>6 DEF BeginInstall, NextJob
  <2>2. job' = job /\ job.type \notin Removals
    BY <2>1 DEF job, IsDelete, Removals
  <2>3. QED
    BY <1>0, <2>1, <2>2 DEF Respect, Busy, Free
<1>7. CASE EndJobs \/ EndAdd \/ Crash
  <2>1. mode' = "none" /\ pc' = "idle"
        /\ db' \in {db, stored} /\ stored' \in {db, stored}
    BY <1>7 DEF EndJobs, EndAdd, Crash
  <2>2. QED
    BY <1>0, <2>1 DEF Respect, Busy
<1>8. CASE PreDeinstall
  <2>1. CASE pc' = "end"
    BY <1>0, <1>8, <2>1, SameRespect DEF PreDeinstall, DeleteFailed
  <2>2. CASE pc' # "end"
    <3>1. /\ pc = "predeinstall" /\ pc' = "delete"
          /\ files' = FilesIn(db, job.pkg)
          /\ UNCHANGED <<db, stored, mode, todo>>
        BY <1>8, <2>2 DEF PreDeinstall, DeleteFailed
    <3>2. job.pkg \notin InitialLocked /\ job' = job
        BY <3>1 DEF Respect, job
    <3>3. files' \cap LockedFiles = {}
        BY <1>0, <3>1, <3>2, OtherFiles
    <3>4. QED
        BY <1>0, <3>1, <3>2, <3>3 DEF Respect, Busy, Free, LockedFiles
  <2>3. QED
    BY <2>1, <2>2
<1>9. CASE DeleteFile
    BY <1>0, <1>9, SameRespect DEF DeleteFile
<1>10. CASE PostDeinstall
  <2>1. CASE pc' = "end"
    BY <1>0, <1>10, <2>1, SameRespect DEF PostDeinstall, DeleteFailed
  <2>2. CASE pc' # "end"
    <3>1. pc = "delete" /\ pc' = "unregister"
          /\ UNCHANGED <<db, stored, mode, todo, files>>
        BY <1>10, <2>2 DEF PostDeinstall, DeleteFailed
    <3>2. job.pkg \notin InitialLocked /\ job' = job
        BY <3>1 DEF Respect, job
    <3>3. QED
        BY <1>0, <3>1, <3>2 DEF Respect, Busy, Free
  <2>3. QED
    BY <2>1, <2>2
<1>11. CASE Unregister
  <2>1. job.pkg \notin InitialLocked /\ mode = "jobs" /\ todo # <<>>
    BY <1>11 DEF Unregister, Respect, TypeOK, JobPc, Control, Busy
  <2>2. db' \in {db, Without(db, {job.pkg})}
        /\ UNCHANGED <<stored, mode>>
    BY <1>11 DEF Unregister
  <2>3. Rows(db')
    BY <1>0, <2>1, <2>2, WithoutRows DEF TypeOK
  <2>4. CASE pc' = "end"
    BY <1>0, <1>11, <2>2, <2>3, <2>4, SameRespect DEF Unregister, DeleteFailed
  <2>5. CASE pc' # "end"
    <3>1. todo' = Tail(todo) /\ pc' = "next" /\ mode' = "jobs"
        BY <1>11, <2>1, <2>5 DEF Unregister, DeleteFailed
    <3>2. QED
        BY <1>0, <2>1, <2>2, <2>3, <3>1, TailElements DEF Respect, Busy, Free
  <2>6. QED
    BY <2>4, <2>5
<1>12. CASE Open
  <2>1. db' \in {db, stored} /\ UNCHANGED <<stored, mode, todo>>
    BY <1>12 DEF Open, AddFailed, RollBack
  <2>2. CASE pc' \in {"end", "unwind"}
    BY <1>0, <1>12, <2>1, <2>2, SameRespect DEF Open, AddFailed
  <2>3. CASE pc' = "check"
    BY <1>0, <2>1, <2>3 DEF Respect, Busy, Free
  <2>4. CASE mode = "jobs" /\ pc' = "register"
    <3>1. pc = "open"
        BY <1>12, <2>4 DEF Open
    <3>2. 1 \in DOMAIN todo /\ job = todo[1] /\ job' = job
        BY <2>1, <3>1, <2>4, <1>12, TailElements
        DEF Open, TypeOK, JobPc, job
    <3>3. Free(job.pkg)
        BY <2>4, <3>1, <3>2 DEF Respect
    <3>4. QED
        BY <1>0, <2>1, <2>4, <3>2, <3>3 DEF Respect, Busy, Free
  <2>5. QED
    BY <1>12, <2>2, <2>3, <2>4 DEF Open, AddFailed
<1>13. CASE CheckInstalled
  <2>1. mode = "add" /\ todo # <<>> /\ job.pkg \in Pkg
        /\ UNCHANGED <<db, stored, mode, todo>>
    BY <1>13, JobType DEF CheckInstalled, AddFailed, TypeOK, JobPc, Control,
                          Busy
  <2>2. CASE AlreadyThere(job.pkg)
    BY <1>0, <1>13, <2>2, SameRespect DEF CheckInstalled, AddFailed
  <2>3. CASE ~AlreadyThere(job.pkg)
    <3>1. pc' = "deps" /\ job' = job
        BY <1>13, <2>1, <2>3 DEF CheckInstalled, job
    <3>2. Free(job.pkg)
        BY <1>0, <2>1, <2>3
        DEF AlreadyThere, SameName, Free, Rows, TypeOK, WellFormed
    <3>3. QED
        BY <1>0, <2>1, <3>1, <3>2 DEF Respect, Busy, Free
  <2>4. QED
    BY <2>2, <2>3
<1>14. CASE CheckDeps
  <2>1. /\ mode = "add" /\ pc = "deps" /\ Free(job.pkg) /\ todo # <<>>
        /\ UNCHANGED <<db, stored, mode, files>> \/ files' = {}
        /\ UNCHANGED <<db, stored, mode>>
    BY <1>14
    DEF CheckDeps, AddFailed, Respect, TypeOK, JobPc, Control, Busy
  <2>2. CASE todo' = todo /\ pc' = "register"
    <3>1. job' = job
        BY <2>2 DEF job
    <3>2. QED
        BY <1>0, <2>1, <2>2, <3>1 DEF Respect, Busy, Free
  <2>3. CASE todo' = todo /\ pc' = "unwind"
    BY <1>0, <2>1, <2>3, SameRespect
  <2>4. CASE pc' = "next" /\ \E d :
               todo' = <<[type |-> "dep", pkg |-> d, old |-> None]>> \o todo
    <3>1. PICK x : todo' = <<x>> \o todo
        BY <2>4
    <3>2. todo \in Seq(Jobs) /\ 1 \in DOMAIN todo /\ job = todo[1]
        BY <2>1, TailElements DEF TypeOK
    <3>3. \A i \in DOMAIN todo' : i + 1 \in DOMAIN todo' =>
            /\ i \in DOMAIN todo /\ todo'[i + 1] = todo[i]
            /\ i = 1 \/ (i - 1 \in DOMAIN todo /\ todo'[i] = todo[i - 1])
        BY <3>1, <3>2
    <3>4. \A i \in DOMAIN todo' :
            i + 1 \in DOMAIN todo' /\ todo'[i].type = "dep"
                => Free(todo'[i + 1].pkg)
      <4> SUFFICES ASSUME NEW i \in DOMAIN todo', i + 1 \in DOMAIN todo',
                          todo'[i].type = "dep"
                   PROVE  Free(todo'[i + 1].pkg)
        OBVIOUS
      <4>1. CASE i = 1
        BY <2>1, <3>2, <3>3, <4>1
      <4>2. CASE i # 1
        <5>1. /\ i - 1 \in DOMAIN todo /\ todo[i - 1].type = "dep"
              /\ i \in DOMAIN todo /\ todo'[i + 1] = todo[i] /\ i \in Int
            BY <3>2, <3>3, <4>2
        <5>2. (i - 1) + 1 = i
            BY <5>1
        <5>3. QED
            BY <2>1, <5>1, <5>2 DEF Respect
      <4>3. QED
        BY <4>1, <4>2
    <3>5. QED
        BY <1>0, <2>1, <2>4, <3>4 DEF Respect, Busy, Free
  <2>5. QED
    BY <1>14, <2>1, <2>2, <2>3, <2>4 DEF CheckDeps, AddFailed
<1>15. CASE Register
  <2>1. /\ pc' = "mtree" /\ job' = job /\ Free(job.pkg)
        /\ Acceptable(job.pkg) /\ UNCHANGED <<stored, mode, todo, files>>
        /\ db' = Registered(db, job.pkg, FilesOf[job.pkg])
    BY <1>15 DEF Register, Respect, job
  <2>2. job.pkg \in Pkg
    BY <1>15, JobType DEF Register, TypeOK, JobPc
  <2>3. Rows(db')
    BY <1>0, <2>1, <2>2, RegisteredRows DEF TypeOK
  <2>4. FilesOf[job.pkg] \cap LockedFiles = {}
    BY <1>0, <2>1, <2>2, FreeFiles
  <2>5. QED
    BY <1>0, <2>1, <2>3, <2>4 DEF Respect, Busy, Free, LockedFiles
<1>16. CASE RegisterFailed
  <2>1. job.pkg \in Pkg /\ Free(job.pkg)
    BY <1>16, JobType DEF RegisterFailed, Respect, TypeOK, JobPc
  <2>2. \/ db' \in {db, stored}
        \/ \E fs \in SUBSET FilesOf[job.pkg] :
              db' = Registered(db, job.pkg, fs)
    BY <1>16 DEF RegisterFailed, RollBack
  <2>3. Rows(db')
    BY <1>0, <2>1, <2>2, RegisteredRows DEF TypeOK
  <2>4. QED
    BY <1>0, <1>16, <2>3, SameRespect DEF RegisterFailed, AddFailed
<1>17. CASE ExtractMtree
  <2>1. db' \in {db, stored} /\ UNCHANGED <<stored, mode, todo>>
        /\ pc = "mtree" /\ todo # <<>>
    BY <1>17 DEF ExtractMtree, AddFailed, RollBack, TypeOK, JobPc
  <2>2. job' = job /\ FilesOf[job.pkg] \cap LockedFiles = {}
        /\ 1 \in DOMAIN todo /\ job = todo[1]
    BY <2>1, TailElements DEF job, Respect, Busy
  <2>3. CASE pc' \in {"end", "unwind"}
    BY <1>0, <1>17, <2>1, <2>3, SameRespect DEF ExtractMtree, AddFailed
  <2>4. CASE pc' = "extract" /\ files' = FilesOf[job.pkg]
    BY <1>0, <2>1, <2>2, <2>4 DEF Respect, Busy, Free, LockedFiles
  <2>5. CASE /\ pc' = "cleanup_old" /\ files' = FilesIn(stored, job.old)
             /\ job.type = "upgrade"
    <3>1. job.old \notin InitialLocked
        BY <2>1, <2>2, <2>5 DEF Respect, TypeOK, Control
    <3>2. files' \cap LockedFiles = {}
        BY <1>0, <2>5, <3>1, OtherFiles
    <3>3. QED
        BY <1>0, <2>1, <2>2, <2>5, <3>2 DEF Respect, Busy, Free, LockedFiles
  <2>6. QED
    BY <1>17, <2>3, <2>4, <2>5 DEF ExtractMtree, AddFailed
<1>18. CASE CleanupOld
  <2>1. db' \in {db, stored} /\ UNCHANGED <<stored, mode, todo>>
        /\ pc = "cleanup_old" /\ job' = job
    BY <1>18 DEF CleanupOld, AddFailed, RollBack, job
  <2>2. CASE pc' \in {"end", "unwind"}
    BY <1>0, <1>18, <2>1, <2>2, SameRespect DEF CleanupOld, AddFailed
  <2>3. CASE pc' = "delete_old" /\ files' \subseteq files
    BY <1>0, <2>1, <2>3 DEF Respect, Busy, Free, LockedFiles
  <2>4. QED
    BY <1>18, <2>2, <2>3 DEF CleanupOld, AddFailed
<1>19. CASE DeleteOldFile
  <2>1. UNCHANGED <<db, stored, mode, todo>> /\ job' = job /\ pc = "delete_old"
    BY <1>19 DEF DeleteOldFile, job
  <2>2. CASE pc' = "extract" /\ files' = FilesOf[job.pkg]
    BY <1>0, <2>1, <2>2 DEF Respect, Busy, Free, LockedFiles
  <2>3. CASE pc' = pc /\ files' \subseteq files
    BY <1>0, <2>1, <2>3, SameRespect
  <2>4. QED
    BY <1>19, <2>2, <2>3 DEF DeleteOldFile
<1>20. CASE ExtractFile
    BY <1>0, <1>20, SameRespect DEF ExtractFile
<1>21. CASE ExtractFailed
  <2>1. UNCHANGED <<db, stored, mode, todo>> /\ job' = job /\ pc = "extract"
        /\ pc' = "fail" /\ files' = FilesOf[job.pkg]
    BY <1>21 DEF ExtractFailed, job
  <2>2. QED
    BY <1>0, <2>1 DEF Respect, Busy, Free, LockedFiles
<1>22. CASE UndoExtract
  <2>1. db' \in {db, stored} /\ files' \subseteq files
        /\ UNCHANGED <<stored, mode, todo>> /\ pc' \in {pc, "end", "unwind"}
    BY <1>22 DEF UndoExtract, AddFailed, RollBack
  <2>2. QED
    BY <1>0, <2>1, SameRespect
<1>23. CASE Unwind
  <2>1. /\ mode = "add" /\ todo # <<>> /\ todo' = Tail(todo)
        /\ pc' \in {"unwind", "next"} /\ UNCHANGED <<db, stored, mode, files>>
    BY <1>23 DEF Unwind, TypeOK, JobPc, Control, Busy
  <2>2. \A i \in DOMAIN todo' :
          i + 1 \in DOMAIN todo' /\ todo'[i].type = "dep"
              => Free(todo'[i + 1].pkg)
    BY <2>1, TailElements DEF Respect
  <2>3. QED
    BY <1>0, <2>1, <2>2 DEF Respect, Busy, Free
<1>24. CASE Installed
  <2>1. /\ todo # <<>> /\ todo' = Tail(todo) /\ UNCHANGED <<db, mode>>
        /\ stored' \in {db, stored} /\ mode # "none"
        /\ pc' = IF job.type = "dep" THEN "deps" ELSE "next"
    BY <1>24 DEF Installed, TypeOK, JobPc, Control
  <2>2. Rows(stored')
    BY <1>0, <2>1
  <2>3. CASE mode = "jobs"
    <3>1. pc' = "next"
        BY <2>1, <2>3, TailElements DEF Control
    <3>2. QED
        BY <1>0, <2>1, <2>2, <2>3, <3>1, TailElements DEF Respect, Busy, Free
  <2>4. CASE mode = "add"
    <3>1. \A i \in DOMAIN todo' :
            i + 1 \in DOMAIN todo' /\ todo'[i].type = "dep"
                => Free(todo'[i + 1].pkg)
        BY <2>1, <2>4, TailElements DEF Respect
    <3>2. ASSUME job.type = "dep" PROVE Free(job'.pkg)
      <4>1. Tail(todo) # <<>>
        BY <2>1, <3>2, JobType
      <4>2. Tail(todo) \in Seq(Jobs)
        BY <2>1, JobType
      <4>3. 1 \in DOMAIN Tail(todo)
        BY <4>1, <4>2
      <4>4. 1 \in DOMAIN todo /\ job = todo[1] /\ 1 + 1 \in DOMAIN todo
            /\ job' = todo[1 + 1]
        BY <2>1, <4>3, TailElements DEF job
      <4>5. QED
        BY <2>4, <3>2, <4>4 DEF Respect
    <3>3. QED
        BY <1>0, <2>1, <2>2, <2>4, <3>1, <3>2 DEF Respect, Busy, Free
  <2>5. QED
    BY <2>1, <2>3, <2>4 DEF TypeOK
<1>25. CASE \E f \in File : Edit(f)
    BY <1>0, <1>25, SameRespect DEF Edit
<1>26. CASE UNCHANGED vars
    BY <1>0, <1>26, SameRespect DEF vars
<1>27. QED
    BY <1>1, <1>2, <1>3, <1>4, <1>5, <1>6, <1>7, <1>8, <1>9, <1>10, <1>11,
       <1>12, <1>13, <1>14, <1>15, <1>16, <1>17, <1>18, <1>19, <1>20, <1>21,
       <1>22, <1>23, <1>24, <1>25, <1>26
    DEF Next, Step

\* No step changes a file of a locked package, but the user's.
LEMMA LockedDisk ==
    ASSUME TypeOK, Respect, [Next]_vars
    PROVE  \A f \in LockedFiles : disk'[f] \in {disk[f], User}
<1>1. CASE DeleteFile \/ DeleteOldFile \/ UndoExtract
  <2>1. \/ UNCHANGED disk
        \/ \E g \in files : \E p, forced : disk' = Unlinked(g, p, forced)
    BY <1>1 DEF DeleteFile, DeleteOldFile, UndoExtract
  <2>2. \A g \in files : g \notin LockedFiles
    BY <1>1 DEF DeleteFile, DeleteOldFile, UndoExtract, Respect
  <2>3. \A g, p, forced : disk' = Unlinked(g, p, forced) =>
          \A f \in File : f # g => disk'[f] = disk[f]
    BY DEF Unlinked, TypeOK
  <2>4. QED
    BY <2>1, <2>2, <2>3 DEF LockedFiles
<1>2. CASE ExtractFile \/ Crash
  <2>1. \/ UNCHANGED disk
        \/ /\ pc = "extract"
           /\ \E g \in files : \E c : disk' = [disk EXCEPT ![g] = c]
    BY <1>2 DEF ExtractFile, Crash
  <2>2. pc = "extract" => \A g \in files : g \notin LockedFiles
    BY DEF Respect
  <2>3. \A g, c : disk' = [disk EXCEPT ![g] = c] =>
          \A f \in File : f # g => disk'[f] = disk[f]
    BY DEF TypeOK
  <2>4. QED
    BY <2>1, <2>2, <2>3 DEF LockedFiles
<1>3. CASE \E g \in File : Edit(g)
    BY <1>3 DEF Edit, TypeOK, LockedFiles
<1>4. CASE \/ StartJobs \/ StartAdd \/ EndAdd \/ EndJobs \/ SkipSelf
           \/ RefuseLocked \/ BeginDelete \/ BeginInstall \/ PreDeinstall
           \/ PostDeinstall \/ Unregister \/ Open \/ CheckInstalled
           \/ CheckDeps \/ Register \/ RegisterFailed \/ ExtractMtree
           \/ CleanupOld \/ ExtractFailed \/ Unwind \/ Installed
           \/ UNCHANGED vars
  <2>1. UNCHANGED disk
    BY <1>4
    DEF StartJobs, StartAdd, EndAdd, EndJobs, SkipSelf, RefuseLocked,
        BeginDelete, BeginInstall, PreDeinstall, PostDeinstall, Unregister,
        Open, CheckInstalled, CheckDeps, Register, RegisterFailed,
        ExtractMtree, CleanupOld, ExtractFailed, Unwind, Installed, vars
  <2>2. QED
    BY <2>1
<1>5. QED
    BY <1>1, <1>2, <1>3, <1>4 DEF Next, Step

\* A locked package keeps its row, its lock and its files, through any jobs,
\* failures and crashes and with -f too, if no conflict is overlooked or no
\* other package lists its paths.
THEOREM LockedBlocked == Spared /\ Spec => LockedUntouched
<1> DEFINE Inv == TypeOK /\ Control /\ (Spared => Respect)
           Untouched == \A p \in stored.locked :
               /\ p \in stored'.installed /\ p \in stored'.locked
               /\ \A f \in FilesIn(stored, p) : disk'[f] \in {disk[f], User}
<1>1. Init => Inv
    BY InitType, InitRegistration, InitRespect
<1>2. Inv /\ [Next]_vars => Inv'
    BY NextType, NextControl, NextRespect DEF Spared, Strict
<1>3. Inv /\ Inv' /\ [Next]_vars /\ Spared => Untouched
  <2> SUFFICES ASSUME Inv, Inv', [Next]_vars, Spared PROVE Untouched
    OBVIOUS
  <2>1. /\ stored.locked = InitialLocked /\ stored'.locked = InitialLocked
        /\ stored'.locked \subseteq stored'.installed
    BY DEF Respect, Rows, TypeOK, WellFormed, Spared, Strict
  <2>2. \A p \in InitialLocked : FilesIn(stored, p) \subseteq LockedFiles
    BY DEF Respect, Rows, FilesIn, LockedFiles
  <2>3. QED
    BY <2>1, <2>2, LockedDisk
<1>4. QED
  <2>1. Spec => []Inv
    BY <1>1, <1>2, PTL DEF Spec
  <2>2. Spared => (Spec => [][Untouched]_vars)
    <3> SUFFICES ASSUME Spared PROVE Spec => [][Untouched]_vars
        OBVIOUS
    <3>1. Inv /\ Inv' /\ [Next]_vars => [Untouched]_vars
        BY <1>3
    <3>2. QED
        BY <2>1, <3>1, PTL DEF Spec
  <2>3. QED
    BY <2>2 DEF LockedUntouched

---------------------------------------------------------------------------
(* Stray files.                                                            *)

\* The package that the registration for a job replaces.
Replacing(j) == IF j.type = "upgrade" THEN {j.old} ELSE {}

\* The name of the package is free, but for the package that it replaces,
\* which the committed database has.
Ready(d, s, j) ==
    SameName(d, j.pkg) \subseteq Replacing(j)
    /\ Replacing(j) \subseteq s.installed

\* The jobs of a solver are about different names, but for a removal that an
\* upgrade was split into, and ready.
JobWaits ==
    mode = "jobs" =>
        /\ \A i, k \in DOMAIN todo : i < k =>
             \/ NameOf[todo[i].pkg] # NameOf[todo[k].pkg]
             \/ todo[i].type = "upgrade_remove"
        /\ \A i \in DOMAIN todo :
             /\ todo[i].type \notin Removals
             /\ i # 1 \/ pc \in {"next", "open", "register"}
             => Ready(db, stored, todo[i])
        /\ pc \in {"open", "register"} => job.type \notin Removals

\* A package that waits for a dependency is ready, and it has another name
\* than what is installed meanwhile: rank orders the names along dependencies.
AddWaits(rank) ==
    mode = "add" =>
        /\ pc \in {"deps", "register"} => Ready(db, stored, job)
        /\ \A k \in DOMAIN todo :
             k - 1 \in DOMAIN todo /\ todo[k - 1].type = "dep" =>
               /\ Ready(db, stored, todo[k])
               /\ \A i \in DOMAIN todo : i < k =>
                    rank[NameOf[todo[i].pkg]] < rank[NameOf[todo[k].pkg]]
        /\ pc \in {"next", "check", "deps", "register"} => db = stored

\* Paths with the content of a package that the database does not give them.
Strays(d, content) ==
    {f \in File : content[f] \in Pkg /\ d.owner[f] # content[f]}

\* The paths that the current job has yet to deal with.
Tidy ==
    /\ pc \notin Busy => Strays(db, disk) = {}
    /\ pc \in Busy => FilesOf[job.pkg] \subseteq FilesIn(db, job.pkg)
    /\ pc = "delete" =>
         \A f \in FilesIn(db, job.pkg) : disk[f] \in Pkg => f \in files
    /\ pc = "unregister" => \A f \in FilesIn(db, job.pkg) : disk[f] \notin Pkg
    /\ pc = "mtree" => \A f \in Strays(db, disk) :
         job.type = "upgrade" /\ f \in FilesIn(stored, job.old)
    /\ pc \in {"cleanup_old", "extract"} => Strays(db, disk) \subseteq files
    /\ pc = "extract" => files \subseteq FilesOf[job.pkg]
    /\ pc = "delete_old" =>
         Strays(db, disk) \subseteq files \cup FilesOf[job.pkg]

\* No command has failed so far.
Proper == clean /\ (mode = "none" \/ (rc = "ok" /\ pc # "fail"))

\* What holds as long as nothing fails; a failure is not forgotten.
Neat(rank) ==
    /\ pc \in {"end", "unwind"} => rc # "ok"
    /\ Proper => JobWaits /\ AddWaits(rank) /\ Tidy

\* Names can be put in an order in which dependencies come first.
Ranks == {rank \in [Name -> Nat] : \A p \in Pkg : \A d \in DepsOf[p] :
                                     rank[NameOf[d]] < rank[NameOf[p]]}

\* A failure is remembered in the result.
LEMMA FailureNoted ==
    ASSUME TypeOK, Control, NEW rank, Neat(rank), [Next]_vars
    PROVE  pc' \in {"end", "unwind"} => rc' # "ok"
<1>0. pc \in {"end", "unwind"} => rc # "ok"
    BY DEF Neat
<1>1. ASSUME pc' \notin {"end", "unwind"} \/ rc' # "ok"
      PROVE  pc' \in {"end", "unwind"} => rc' # "ok"
    BY <1>1
<1>2. CASE StartJobs \/ StartAdd \/ EndJobs \/ EndAdd \/ Crash
    BY <1>2 DEF StartJobs, StartAdd, EndJobs, EndAdd, Crash
<1>3. CASE SkipSelf \/ RefuseLocked \/ BeginDelete \/ BeginInstall
    BY <1>3 DEF SkipSelf, RefuseLocked, BeginDelete, BeginInstall, NextJob
<1>4. CASE PreDeinstall \/ DeleteFile \/ PostDeinstall \/ Unregister
    BY <1>4 DEF PreDeinstall, DeleteFile, PostDeinstall, Unregister,
                DeleteFailed
<1>5. CASE Open \/ CheckInstalled \/ CheckDeps \/ Register \/ RegisterFailed
    BY <1>5 DEF Open, CheckInstalled, CheckDeps, Register, RegisterFailed,
                AddFailed
<1>6. CASE ExtractMtree \/ CleanupOld \/ DeleteOldFile \/ ExtractFile
    BY <1>6 DEF ExtractMtree, CleanupOld, DeleteOldFile, ExtractFile,
                AddFailed
<1>7. CASE ExtractFailed \/ UndoExtract \/ Installed
    BY <1>7 DEF ExtractFailed, UndoExtract, Installed, AddFailed
<1>8. CASE Unwind
    BY <1>0, <1>8 DEF Unwind
<1>9. CASE \E f \in File : Edit(f)
    BY <1>0, <1>9 DEF Edit
<1>10. CASE UNCHANGED vars
    BY <1>0, <1>10 DEF vars
<1>11. QED
    BY <1>2, <1>3, <1>4, <1>5, <1>6, <1>7, <1>8, <1>9, <1>10 DEF Next, Step

\* A failure stays a failure.
LEMMA ProperBefore ==
    ASSUME TypeOK, Control, NEW rank, Neat(rank), [Next]_vars, Proper'
    PROVE  /\ Proper
           /\ ~Crash /\ ~RefuseLocked /\ ~RegisterFailed /\ ~ExtractFailed
           /\ ~UndoExtract /\ ~Unwind
           /\ mode' # "none" => rc' = "ok"
           /\ EndJobs \/ EndAdd => rc = "ok" /\ pc = "next"
<1>0. pc \in {"end", "unwind"} => rc # "ok"
    BY DEF Neat
<1>1. CASE mode' = "none"
  <2>1. clean' /\ ~Crash
    BY <1>1 DEF Proper, Crash
  <2>2. CASE EndJobs \/ EndAdd
    <3>1. /\ clean /\ rc = "ok" /\ pc = "next" /\ mode \in {"jobs", "add"}
        BY <1>0, <2>1, <2>2 DEF EndJobs, EndAdd
    <3>2. QED
        BY <2>1, <2>2, <3>1
        DEF Proper, EndJobs, EndAdd, RefuseLocked, RegisterFailed,
            ExtractFailed, UndoExtract, Unwind, NextJob, AddFailed
  <2>3. CASE ~EndJobs /\ ~EndAdd
    <3>1. mode = "none" /\ clean' = clean
        BY <1>1, <2>1, <2>3
        DEF Next, Step, StartJobs, StartAdd, SkipSelf, RefuseLocked,
            BeginDelete, BeginInstall, NextJob, PreDeinstall, DeleteFile,
            PostDeinstall, Unregister, Open, CheckInstalled, CheckDeps,
            Register, RegisterFailed, ExtractMtree, CleanupOld,
            DeleteOldFile, ExtractFile, ExtractFailed, UndoExtract, Unwind,
            Installed, Edit, vars
    <3>2. pc = "idle"
        BY <3>1 DEF Control
    <3>3. QED
        BY <1>1, <2>1, <2>3, <3>1, <3>2
        DEF Proper, RefuseLocked, RegisterFailed, ExtractFailed, UndoExtract,
            Unwind, NextJob
  <2>4. QED
    BY <2>2, <2>3
<1>2. CASE mode' # "none"
  <2>1. clean' /\ rc' = "ok" /\ pc' # "fail"
    BY <1>2 DEF Proper
  <2>2. ~EndJobs /\ ~EndAdd /\ ~Crash
    BY <1>2 DEF EndJobs, EndAdd, Crash
  <2>3. ~RefuseLocked /\ ~RegisterFailed /\ ~ExtractFailed
    BY <2>1 DEF RefuseLocked, RegisterFailed, ExtractFailed, AddFailed
  <2>4. ~UndoExtract /\ ~Unwind
    BY <1>0, <2>1 DEF UndoExtract, Unwind, AddFailed
  <2>5. clean
    BY <2>1, <2>2, <2>3, <2>4
    DEF Next, Step, StartJobs, StartAdd, SkipSelf, BeginDelete, BeginInstall,
        PreDeinstall, DeleteFile, PostDeinstall, Unregister, Open,
        CheckInstalled, CheckDeps, Register, ExtractMtree, CleanupOld,
        DeleteOldFile, ExtractFile, Installed, Edit, vars
  <2>6. StartJobs \/ StartAdd => mode = "none"
    BY DEF StartJobs, StartAdd
  <2>7. ~StartJobs /\ ~StartAdd => rc = "ok" /\ pc # "fail"
    <3>1. CASE SkipSelf \/ BeginDelete \/ BeginInstall
        BY <2>1, <3>1 DEF SkipSelf, BeginDelete, BeginInstall, NextJob
    <3>2. CASE PreDeinstall \/ DeleteFile \/ PostDeinstall \/ Unregister
        BY <2>1, <3>2 DEF PreDeinstall, DeleteFile, PostDeinstall, Unregister,
                          DeleteFailed
    <3>3. CASE Open \/ CheckInstalled \/ CheckDeps \/ Register
        BY <2>1, <3>3 DEF Open, CheckInstalled, CheckDeps, Register, AddFailed
    <3>4. CASE ExtractMtree \/ CleanupOld \/ DeleteOldFile \/ ExtractFile
        BY <2>1, <3>4 DEF ExtractMtree, CleanupOld, DeleteOldFile,
                          ExtractFile, AddFailed
    <3>5. CASE Installed
        BY <2>1, <3>5 DEF Installed
    <3>6. CASE \E f \in File : Edit(f)
        BY <1>2, <3>6 DEF Edit
    <3>7. CASE UNCHANGED vars
        BY <2>1, <3>7 DEF vars
    <3>8. QED
        BY <2>2, <2>3, <2>4, <3>1, <3>2, <3>3, <3>4, <3>5, <3>6, <3>7
        DEF Next, Step
  <2>8. QED
    BY <2>1, <2>2, <2>3, <2>4, <2>5, <2>6, <2>7 DEF Proper
<1>3. QED
    BY <1>1, <1>2

\* The jobs wait as before when the step leaves them and the database alone.
LEMMA SameWaits ==
    ASSUME NEW rank, JobWaits, AddWaits(rank),
           UNCHANGED <<todo, mode, db, stored>>,
           pc' \in {"next", "open", "register"} /\ mode = "jobs" =>
               pc \in {"next", "open", "register"},
           pc' \in {"open", "register"} /\ mode = "jobs" =>
               job.type \notin Removals,
           pc' \in {"deps", "register"} /\ mode = "add" =>
               Ready(db, stored, job),
           pc' \in {"next", "check", "deps", "register"} /\ mode = "add" =>
               pc \in {"next", "check", "deps", "register"}
    PROVE  JobWaits' /\ AddWaits(rank)'
<1>1. job' = job
    BY DEF job
<1>2. \A j : Ready(db, stored, j)' = Ready(db, stored, j)
    BY DEF Ready, SameName
<1>3. JobWaits'
    BY <1>1, <1>2 DEF JobWaits
<1>4. Ready(db', stored', job') <=> Ready(db, stored, job)
    BY <1>1
<1>5. AddWaits(rank)'
    BY <1>1, <1>2, <1>4 DEF AddWaits
<1>6. QED
    BY <1>3, <1>5

\* The jobs of a run wait as before when the current one is gone, for the
\* database has no more packages of their names.
LEMMA TailWaits ==
    ASSUME TypeOK, NEW rank, JobWaits, mode = "jobs", mode' = mode,
           todo # <<>>, todo' = Tail(todo), pc' = "next", stored' = stored,
           db'.installed \subseteq db.installed
    PROVE  JobWaits' /\ AddWaits(rank)'
<1>1. \A i \in DOMAIN todo' : i + 1 \in DOMAIN todo /\ i + 1 # 1 /\ i \in Int
                              /\ todo'[i] = todo[i + 1]
    BY TailElements DEF TypeOK
<1>2. \A j : Ready(db, stored, j) => Ready(db', stored', j)
    BY DEF Ready, SameName
<1>3. \A i, k \in DOMAIN todo' : i < k =>
        \/ NameOf[todo'[i].pkg] # NameOf[todo'[k].pkg]
        \/ todo'[i].type = "upgrade_remove"
  <2> SUFFICES ASSUME NEW i \in DOMAIN todo', NEW k \in DOMAIN todo', i < k
               PROVE  \/ NameOf[todo'[i].pkg] # NameOf[todo'[k].pkg]
                      \/ todo'[i].type = "upgrade_remove"
    OBVIOUS
  <2>1. i + 1 < k + 1 /\ i + 1 \in DOMAIN todo /\ k + 1 \in DOMAIN todo
    BY <1>1
  <2>2. QED
    BY <1>1, <2>1 DEF JobWaits
<1>4. \A i \in DOMAIN todo' :
        todo'[i].type \notin Removals => Ready(db', stored', todo'[i])
    BY <1>1, <1>2 DEF JobWaits
<1>5. \A j : Ready(db, stored, j)' = Ready(db', stored', j)
    BY DEF Ready, SameName
<1>6. QED
    BY <1>3, <1>4, <1>5 DEF JobWaits, AddWaits

\* The arguments of pkg add wait as before when one of them is done.
LEMMA TailAddWaits ==
    ASSUME TypeOK, NEW rank, AddWaits(rank), mode = "add", mode' = mode,
           todo # <<>>, todo' = Tail(todo), db' = db, stored' = db,
           pc' = IF job.type = "dep" THEN "deps" ELSE "next",
           \A k \in DOMAIN todo : todo[k].type \in {"add", "dep"}
    PROVE  JobWaits' /\ AddWaits(rank)'
<1>1. \A i \in DOMAIN todo' : i + 1 \in DOMAIN todo /\ i \in Int
                              /\ todo'[i] = todo[i + 1]
    BY TailElements DEF TypeOK
<1>2. \A k \in DOMAIN todo :
        Ready(db, stored, todo[k]) => Ready(db', stored', todo[k])
    BY DEF Ready, SameName, Replacing
<1>3. ASSUME NEW k \in DOMAIN todo', k - 1 \in DOMAIN todo',
             todo'[k - 1].type = "dep"
      PROVE  /\ Ready(db', stored', todo'[k])
             /\ \A i \in DOMAIN todo' : i < k =>
                  rank[NameOf[todo'[i].pkg]] < rank[NameOf[todo'[k].pkg]]
  <2>1. /\ k + 1 \in DOMAIN todo /\ k \in DOMAIN todo /\ todo[k].type = "dep"
        /\ (k + 1) - 1 = k
    BY <1>1, <1>3
  <2>2. /\ Ready(db, stored, todo[k + 1])
        /\ \A i \in DOMAIN todo : i < k + 1 =>
             rank[NameOf[todo[i].pkg]] < rank[NameOf[todo[k + 1].pkg]]
    BY <2>1 DEF AddWaits
  <2>3. QED
    BY <1>1, <1>2, <2>1, <2>2
<1>4. ASSUME job.type = "dep"
      PROVE  Ready(db', stored', job')
  <2>1. 1 \in DOMAIN todo'
    BY <1>4, JobType
  <2>2. 2 \in DOMAIN todo /\ job' = todo[2] /\ 2 - 1 \in DOMAIN todo
        /\ todo[2 - 1] = job
    BY <1>1, <2>1, TailElements DEF job
  <2>3. Ready(db, stored, todo[2])
    BY <1>4, <2>2 DEF AddWaits
  <2>4. QED
    BY <1>2, <2>2, <2>3
<1>5. \A j : Ready(db, stored, j)' = Ready(db', stored', j)
    BY DEF Ready, SameName
<1>6. Ready(db, stored, job)' = Ready(db', stored', job')
    BY DEF Ready, SameName, Replacing
<1>7. QED
    BY <1>3, <1>4, <1>5, <1>6 DEF JobWaits, AddWaits

\* Steps outside of a job's work on the disk.
LEMMA SameTidy ==
    ASSUME Tidy, pc \notin Busy,
           pc' \notin Busy \cup {"delete", "unregister"}, UNCHANGED disk,
           \A f \in File : disk[f] \in Pkg => db'.owner[f] = db.owner[f]
    PROVE  Tidy'
<1>1. Strays(db', disk') = {}
    BY DEF Tidy, Strays
<1>2. Strays(db, disk)' = Strays(db', disk')
    BY DEF Strays
<1>3. QED
    BY <1>1, <1>2 DEF Tidy, Busy

\* A step on one path makes it right or leaves it without a package.
LEMMA FewerStrays ==
    ASSUME TypeOK, NEW f \in File, db' = db,
           \A g \in File : g # f => disk'[g] = disk[g],
           disk'[f] \in Pkg => disk'[f] \in {disk[f], db.owner[f]}
    PROVE  /\ Strays(db', disk') \subseteq Strays(db, disk)
           /\ disk'[f] \notin Pkg \/ disk'[f] = db.owner[f]
                => f \notin Strays(db', disk')
BY DEF Strays

\* A job that registers is ready.
LEMMA RegisterReady ==
    ASSUME TypeOK, Control, NEW rank, JobWaits, AddWaits(rank),
           pc = "register"
    PROVE  /\ Ready(db, stored, job)
           /\ todo # <<>> /\ 1 \in DOMAIN todo /\ job = todo[1]
           /\ mode = "jobs" => job.type \notin Removals
           /\ mode \in {"jobs", "add"}
<1>1. todo # <<>> /\ 1 \in DOMAIN todo /\ job = todo[1]
      /\ mode \in {"jobs", "add"}
    BY TailElements DEF TypeOK, JobPc, Control
<1>2. QED
    BY <1>1 DEF JobWaits, AddWaits

\* A registration does not make the jobs that wait wait longer.
LEMMA RegisterWaits ==
    ASSUME TypeOK, Control, NEW rank \in Ranks, JobWaits, AddWaits(rank),
           Register
    PROVE  JobWaits' /\ AddWaits(rank)'
<1> DEFINE p == job.pkg
<1>1. /\ todo # <<>> /\ 1 \in DOMAIN todo /\ job = todo[1]
      /\ mode = "jobs" => job.type \notin Removals
      /\ mode \in {"jobs", "add"}
    BY RegisterReady DEF Register
<1>2. /\ pc' = "mtree" /\ UNCHANGED <<stored, mode, todo>>
      /\ db' = Registered(db, p, FilesOf[p])
    BY <1>1 DEF Register
<1>3. p \in Pkg /\ db'.installed = (db.installed \ SameName(db, p)) \cup {p}
    BY <1>1, <1>2, JobType, RegisteredFields DEF TypeOK
<1>4. ASSUME NEW j \in Jobs, Ready(db, stored, j), NameOf[j.pkg] # NameOf[p]
      PROVE  Ready(db', stored', j)
    BY <1>2, <1>3, <1>4 DEF Ready, SameName
<1>5. \A j : Ready(db, stored, j)' = Ready(db', stored', j)
    BY DEF Ready, SameName
<1>6. todo \in Seq(Jobs) /\ DOMAIN todo \subseteq Nat \ {0}
      /\ \A i \in DOMAIN todo : todo[i] \in Jobs
    BY DEF TypeOK
<1>7. ASSUME mode = "jobs", NEW i \in DOMAIN todo, i # 1,
             todo[i].type \notin Removals
      PROVE  Ready(db', stored', todo[i])
  <2>1. 1 < i
    BY <1>6, <1>7
  <2>2. NameOf[todo[i].pkg] # NameOf[p]
    BY <1>1, <1>7, <2>1 DEF JobWaits, Removals
  <2>3. Ready(db, stored, todo[i])
    BY <1>7 DEF JobWaits
  <2>4. QED
    BY <1>4, <1>6, <2>2, <2>3
<1>8. ASSUME mode = "add", NEW k \in DOMAIN todo, k - 1 \in DOMAIN todo,
             todo[k - 1].type = "dep"
      PROVE  Ready(db', stored', todo[k])
  <2>1. 1 < k
    BY <1>6, <1>8
  <2>2. rank[NameOf[p]] < rank[NameOf[todo[k].pkg]]
        /\ Ready(db, stored, todo[k])
    BY <1>1, <1>8, <2>1 DEF AddWaits
  <2>3. rank[NameOf[p]] \in Nat
    BY <1>3, ExecuteAssumption DEF Ranks
  <2>4. NameOf[todo[k].pkg] # NameOf[p]
    BY <2>2, <2>3
  <2>5. QED
    BY <1>4, <1>6, <2>2, <2>4
<1>9. JobWaits'
    BY <1>2, <1>5, <1>7 DEF JobWaits
<1>10. AddWaits(rank)'
    BY <1>2, <1>5, <1>8 DEF AddWaits
<1>11. QED
    BY <1>9, <1>10

\* A registration makes stray files only of the package it replaces.
LEMMA RegisterTidy ==
    ASSUME Strict, TypeOK, Control, Registration, NEW rank, JobWaits,
           AddWaits(rank), Tidy, Register
    PROVE  Tidy'
<1> DEFINE p == job.pkg
<1>1. /\ Ready(db, stored, job)
      /\ todo # <<>> /\ 1 \in DOMAIN todo /\ job = todo[1]
      /\ mode \in {"jobs", "add"}
    BY RegisterReady DEF Register
<1>2. /\ pc = "register" /\ pc' = "mtree"
      /\ UNCHANGED <<stored, mode, todo, disk>>
      /\ db' = Registered(db, p, FilesOf[p])
    BY <1>1 DEF Register
<1>3. job' = job /\ p \in Pkg /\ FilesOf[p] \subseteq File
    BY <1>1, <1>2, JobType DEF job
<1>4. Conflicts(db, p) = {}
    BY DEF Register, Acceptable, Forced, Strict
<1>5. \A f \in File : db'.owner[f] =
        IF f \in FilesOf[p] THEN p
        ELSE IF db.owner[f] \in SameName(db, p) THEN None ELSE db.owner[f]
    BY <1>2, <1>3, <1>4, RegisteredFields DEF TypeOK
<1>6. FilesOf[p] \subseteq FilesIn(db', p)
    BY <1>3, <1>5 DEF FilesIn
<1>7. ASSUME NEW f \in Strays(db', disk')
      PROVE  job.type = "upgrade" /\ f \in FilesIn(stored, job.old)
  <2>1. f \in File /\ disk[f] \in Pkg /\ db'.owner[f] # disk[f]
    BY <1>2 DEF Strays
  <2>2. db.owner[f] = disk[f] /\ disk[f] # None
    BY <1>2, <2>1, ExecuteAssumption DEF Tidy, Busy, Strays
  <2>3. db.owner[f] \in SameName(db, p)
    <3>1. CASE f \in FilesOf[p]
        BY <1>3, <1>4, <2>2, <3>1, RegisteredFields DEF TypeOK
    <3>2. CASE f \notin FilesOf[p]
        BY <1>5, <2>1, <2>2, <3>2
    <3>3. QED
        BY <3>1, <3>2
  <2>4. /\ job.type = "upgrade" /\ db.owner[f] = job.old
        /\ job.old \in db.installed /\ job.old \in stored.installed
    BY <1>1, <2>3 DEF Ready, Replacing, SameName
  <2>5. mode = "jobs"
    BY <1>1, <2>4 DEF Control
  <2>6. FilesIn(db, job.old) = FilesIn(stored, job.old)
    BY <2>4, <2>5 DEF Registration, Complete
  <2>7. QED
    BY <2>1, <2>4, <2>6 DEF FilesIn
<1>8. Strays(db, disk)' = Strays(db', disk')
    BY DEF Strays
<1>9. FilesIn(db, job.pkg)' = FilesIn(db', job'.pkg)
      /\ FilesIn(stored, job.old)' = FilesIn(stored', job'.old)
    BY DEF FilesIn
<1>10. FilesIn(stored', job'.old) = FilesIn(stored, job.old)
    BY <1>2, <1>3 DEF FilesIn
<1>11. QED
    BY <1>2, <1>3, <1>6, <1>7, <1>8, <1>9, <1>10 DEF Tidy, Busy

\* A solver's jobs are ready.
LEMMA SolvedReady ==
    ASSUME TypeOK, NEW js \in JobLists
    PROVE  /\ \A i, k \in DOMAIN js : i < k =>
                \/ NameOf[js[i].pkg] # NameOf[js[k].pkg]
                \/ js[i].type = "upgrade_remove"
           /\ \A i \in DOMAIN js :
                js[i].type \notin Removals => Ready(db, db, js[i])
<1>1. ASSUME NEW i \in DOMAIN js, js[i].type \notin Removals
      PROVE  Ready(db, db, js[i])
  <2>1. SolvedJob(js[i])
    BY DEF JobLists
  <2>2. CASE js[i].type = "install"
    BY <2>1, <2>2 DEF SolvedJob, Ready, Replacing
  <2>3. CASE js[i].type = "upgrade"
    <3>1. js[i].old \in SameName(db, js[i].pkg)
        BY <2>1, <2>3 DEF SolvedJob
    <3>2. \A x, y \in db.installed : NameOf[x] = NameOf[y] => x = y
        BY DEF TypeOK, WellFormed
    <3>3. QED
        BY <2>3, <3>1, <3>2 DEF Ready, Replacing, SameName
  <2>4. QED
    BY <1>1, <2>1, <2>2, <2>3 DEF SolvedJob, Removals
<1>2. QED
    BY <1>1 DEF JobLists, IsSplit

\* A dependency that is added first comes before what waits for it.
LEMMA DependencyWaits ==
    ASSUME TypeOK, Control, NEW rank \in Ranks, AddWaits(rank),
           mode = "add", pc = "deps", UNCHANGED <<mode, db, stored>>,
           pc' = "next", NEW x \in Jobs, x.pkg \in DepsOf[job.pkg],
           todo' = <<x>> \o todo
    PROVE  JobWaits' /\ AddWaits(rank)'
<1>1. /\ todo # <<>> /\ todo \in Seq(Jobs) /\ 1 \in DOMAIN todo
      /\ job = todo[1] /\ job.pkg \in Pkg
    BY JobType, TailElements DEF TypeOK, JobPc
<1>2. Ready(db, stored, job) /\ db = stored
    BY DEF AddWaits
<1>3. /\ \A k \in DOMAIN todo' : k = 1 \/ (k - 1 \in DOMAIN todo
                                           /\ todo'[k] = todo[k - 1])
      /\ todo'[1] = x /\ DOMAIN todo' \subseteq Nat \ {0}
    BY <1>1
<1>4. rank[NameOf[x.pkg]] < rank[NameOf[job.pkg]]
    BY <1>1 DEF Ranks
<1>5. \A j \in Jobs : rank[NameOf[j.pkg]] \in Nat
    BY ExecuteAssumption DEF Ranks, Jobs
<1>6. ASSUME NEW k \in DOMAIN todo', k - 1 \in DOMAIN todo',
             todo'[k - 1].type = "dep"
      PROVE  /\ Ready(db, stored, todo'[k])
             /\ \A i \in DOMAIN todo' : i < k =>
                  rank[NameOf[todo'[i].pkg]] < rank[NameOf[todo'[k].pkg]]
  <2>1. k \in Nat /\ k > 1 /\ k - 1 \in DOMAIN todo /\ todo'[k] = todo[k - 1]
    BY <1>3, <1>6
  <2>2. CASE k = 2
    <3>1. todo'[k] = job
        BY <1>1, <2>1, <2>2
    <3>2. \A i \in DOMAIN todo' : i < k => i = 1
        BY <1>3, <2>2
    <3>3. QED
        BY <1>2, <1>3, <1>4, <3>1, <3>2
  <2>3. CASE k # 2
    <3> DEFINE n == k - 1
    <3>1. /\ n \in Nat /\ n > 1 /\ n \in DOMAIN todo /\ n - 1 \in DOMAIN todo
          /\ todo[n - 1].type = "dep" /\ todo'[k] = todo[n]
        BY <1>3, <1>6, <2>1, <2>3
    <3>2. /\ Ready(db, stored, todo[n])
          /\ \A i \in DOMAIN todo : i < n =>
               rank[NameOf[todo[i].pkg]] < rank[NameOf[todo[n].pkg]]
        BY <3>1 DEF AddWaits
    <3>3. rank[NameOf[job.pkg]] < rank[NameOf[todo[n].pkg]]
        BY <1>1, <3>1, <3>2
    <3>4. job \in Jobs /\ todo[n] \in Jobs
        BY <1>1, <3>1
    <3>5. rank[NameOf[x.pkg]] < rank[NameOf[todo[n].pkg]]
      <4>1. /\ rank[NameOf[x.pkg]] \in Nat /\ rank[NameOf[job.pkg]] \in Nat
            /\ rank[NameOf[todo[n].pkg]] \in Nat
        BY <1>5, <3>4
      <4>2. QED
        BY <1>4, <3>3, <4>1
    <3>6. ASSUME NEW i \in DOMAIN todo', i < k
          PROVE  rank[NameOf[todo'[i].pkg]] < rank[NameOf[todo[n].pkg]]
      <4>1. CASE i = 1
        BY <1>3, <3>5, <4>1
      <4>2. CASE i # 1
        <5>1. i - 1 \in DOMAIN todo /\ todo'[i] = todo[i - 1] /\ i - 1 < n
            BY <1>3, <2>1, <3>6, <4>2
        <5>2. QED
            BY <3>2, <5>1
      <4>3. QED
        BY <4>1, <4>2
    <3>7. QED
        BY <3>1, <3>2, <3>6
  <2>4. QED
    BY <2>2, <2>3
<1>7. \A j : Ready(db, stored, j)' = Ready(db, stored, j)
    BY DEF Ready, SameName
<1>8. QED
    BY <1>2, <1>6, <1>7 DEF JobWaits, AddWaits

\* Every step leaves what waits ready.
LEMMA NextWaits ==
    ASSUME Strict, TypeOK, Control, NEW rank \in Ranks, Neat(rank),
           [Next]_vars, Proper'
    PROVE  JobWaits' /\ AddWaits(rank)'
<1>0. /\ JobWaits /\ AddWaits(rank)
      /\ ~Crash /\ ~RefuseLocked /\ ~RegisterFailed /\ ~ExtractFailed
      /\ ~UndoExtract /\ ~Unwind
      /\ mode' # "none" => rc' = "ok"
      /\ clean'
    BY ProperBefore DEF Neat, Proper
<1>1. CASE StartJobs
  <2>1. /\ todo' \in JobLists /\ mode' = "jobs" /\ pc' = "next"
        /\ UNCHANGED <<db, stored>> /\ db = stored
    BY <1>1 DEF StartJobs, Control
  <2>2. /\ \A i, k \in DOMAIN todo' : i < k =>
             \/ NameOf[todo'[i].pkg] # NameOf[todo'[k].pkg]
             \/ todo'[i].type = "upgrade_remove"
        /\ \A i \in DOMAIN todo' :
             todo'[i].type \notin Removals => Ready(db, db, todo'[i])
    BY <2>1, SolvedReady
  <2>3. \A j : Ready(db, stored, j)' = Ready(db, db, j)
    BY <2>1 DEF Ready, SameName
  <2>4. QED
    BY <2>1, <2>2, <2>3 DEF JobWaits, AddWaits
<1>2. CASE StartAdd
  <2>1. /\ mode' = "add" /\ pc' = "next" /\ db' = stored'
    BY <1>2 DEF StartAdd, Control
  <2>2. \A k \in DOMAIN todo' : todo'[k].type = "add"
    BY <1>2 DEF StartAdd, AddLists
  <2>3. QED
    BY <2>1, <2>2 DEF JobWaits, AddWaits
<1>3. CASE SkipSelf
    BY <1>0, <1>3, TailWaits DEF SkipSelf, NextJob
<1>4. CASE BeginDelete
    BY <1>0, <1>4, SameWaits DEF BeginDelete, NextJob
<1>5. CASE BeginInstall
    BY <1>0, <1>5, SameWaits DEF BeginInstall, NextJob, IsDelete, Removals
<1>6. CASE EndJobs \/ EndAdd
    BY <1>6 DEF EndJobs, EndAdd, JobWaits, AddWaits
<1>7. CASE PreDeinstall \/ DeleteFile \/ PostDeinstall
    BY <1>0, <1>7, SameWaits
    DEF PreDeinstall, DeleteFile, PostDeinstall, DeleteFailed
<1>8. CASE Unregister
  <2>1. mode = "jobs" /\ mode' = mode /\ todo # <<>>
    BY <1>8 DEF Unregister, Control, Busy, TypeOK, JobPc
  <2>2. /\ db' = Without(db, {job.pkg}) /\ pc' = "next"
        /\ todo' = Tail(todo) /\ stored' = stored
    BY <1>0, <1>8, <2>1 DEF Unregister, DeleteFailed
  <2>3. db'.installed \subseteq db.installed
    BY <2>2 DEF Without
  <2>4. QED
    BY <1>0, <2>1, <2>2, <2>3, TailWaits
<1>9. CASE Open
  <2>1. mode' = mode /\ mode # "none"
    BY <1>9 DEF Open, Control
  <2>2. /\ pc' = IF mode = "jobs" THEN "register" ELSE "check"
        /\ UNCHANGED <<todo, mode, db, stored>>
    BY <1>0, <1>9, <2>1 DEF Open, AddFailed
  <2>3. /\ mode = "jobs" => pc = "open" /\ job.type \notin Removals
        /\ mode = "add" => pc = "next"
    BY <1>0, <1>9, <2>1 DEF Open, Control, JobWaits, Busy
  <2>4. QED
    BY <1>0, <2>2, <2>3, SameWaits
<1>10. CASE CheckInstalled
  <2>1. mode = "add" /\ mode' = mode /\ todo # <<>> /\ 1 \in DOMAIN todo
    BY <1>10 DEF CheckInstalled, Control, Busy, TypeOK, JobPc
  <2>2. /\ pc' = "deps" /\ UNCHANGED <<todo, mode, db, stored>>
        /\ ~AlreadyThere(job.pkg) /\ pc = "check"
    BY <1>0, <1>10, <2>1 DEF CheckInstalled, AddFailed
  <2>3. SameName(db, job.pkg) = {}
    BY <2>2 DEF AlreadyThere, Forced, Strict
  <2>4. Replacing(job) = {}
    BY <2>1 DEF Control, Replacing, job
  <2>5. Ready(db, stored, job)
    BY <2>3, <2>4 DEF Ready
  <2>6. QED
    BY <1>0, <2>1, <2>2, <2>5, SameWaits
<1>11. CASE CheckDeps
  <2>1. mode = "add" /\ UNCHANGED <<mode, db, stored>> /\ pc = "deps"
    BY <1>11 DEF CheckDeps, Control, Busy, TypeOK
  <2>2. CASE pc' = "register" /\ UNCHANGED todo
    BY <1>0, <2>1, <2>2, SameWaits DEF AddWaits
  <2>3. CASE ~(pc' = "register" /\ UNCHANGED todo)
    <3>1. PICK d \in Missing(job.pkg) \cap Archives :
            /\ todo' = <<[type |-> "dep", pkg |-> d, old |-> None]>> \o todo
            /\ pc' = "next"
        BY <1>0, <1>11, <2>1, <2>3 DEF CheckDeps, AddFailed
    <3> DEFINE x == [type |-> "dep", pkg |-> d, old |-> None]
    <3>2. d \in Pkg /\ d \in DepsOf[job.pkg]
        BY <3>1, ExecuteAssumption DEF Missing
    <3>3. x \in Jobs /\ x.pkg \in DepsOf[job.pkg]
        BY <3>2 DEF Jobs, JobTypes
    <3>4. todo' = <<x>> \o todo
        BY <3>1
    <3> HIDE DEF x
    <3>5. QED
        BY <1>0, <2>1, <3>1, <3>3, <3>4, DependencyWaits
  <2>4. QED
    BY <2>2, <2>3
<1>12. CASE Register
    BY <1>0, <1>12, RegisterWaits
<1>13. CASE ExtractMtree \/ CleanupOld \/ DeleteOldFile \/ ExtractFile
  <2>1. mode' = mode /\ mode # "none"
    BY <1>13
    DEF ExtractMtree, CleanupOld, DeleteOldFile, ExtractFile, Control
  <2>2. UNCHANGED <<todo, mode, db, stored>> /\ pc' \in Busy
    BY <1>0, <1>13, <2>1
    DEF ExtractMtree, CleanupOld, DeleteOldFile, ExtractFile, AddFailed, Busy
  <2>3. QED
    BY <1>0, <2>2, SameWaits DEF Busy
<1>14. CASE Installed
  <2>1. /\ mode' = mode /\ mode \in {"jobs", "add"} /\ todo # <<>>
        /\ 1 \in DOMAIN todo /\ todo' = Tail(todo) /\ db' = db
        /\ pc' = IF job.type = "dep" THEN "deps" ELSE "next"
    BY <1>14 DEF Installed, TypeOK, JobPc
  <2>2. CASE mode = "jobs"
    <3>1. pc' = "next" /\ stored' = stored
        BY <1>14, <2>1, <2>2 DEF Installed, Control, job
    <3>2. QED
        BY <1>0, <2>1, <2>2, <3>1, TailWaits
  <2>3. CASE mode = "add"
    <3>1. stored' = db /\ \A k \in DOMAIN todo : todo[k].type \in {"add", "dep"}
        BY <1>0, <1>14, <2>3 DEF Installed, Control
    <3>2. QED
        BY <1>0, <2>1, <2>3, <3>1, TailAddWaits
  <2>4. QED
    BY <2>1, <2>2, <2>3
<1>15. CASE \E f \in File : Edit(f)
    BY <1>15 DEF Edit, JobWaits, AddWaits
<1>16. CASE UNCHANGED vars
    BY <1>0, <1>16, SameWaits DEF vars, JobWaits, AddWaits
<1>17. QED
    BY <1>0, <1>1, <1>2, <1>3, <1>4, <1>5, <1>6, <1>7, <1>8, <1>9, <1>10,
       <1>11, <1>12, <1>13, <1>14, <1>15, <1>16 DEF Next, Step

\* What Tidy speaks of, while the current job and the database stay.
LEMMA SameJob ==
    ASSUME UNCHANGED <<db, stored, todo>>
    PROVE  /\ job' = job
           /\ FilesIn(db, job.pkg)' = FilesIn(db, job.pkg)
           /\ FilesIn(stored, job.old)' = FilesIn(stored, job.old)
           /\ Strays(db, disk)' = Strays(db, disk')
BY DEF FilesIn, job, Strays

\* A deletion leaves no path of its package behind.
LEMMA DeleteTidy ==
    ASSUME Strict, TypeOK, Control, Tidy,
           \/ DeleteFile
           \/ /\ Unregister
              /\ pc' = "next" /\ db' = Without(db, {job.pkg})
    PROVE  Tidy'
<1>1. Strays(db, disk) = {} /\ pc \notin Busy /\ job.pkg # Absent
  <2>1. todo # <<>> /\ pc \in {"delete", "unregister"}
    BY DEF DeleteFile, Unregister, TypeOK, JobPc
  <2>2. QED
    BY <2>1, JobType, ExecuteAssumption DEF Tidy, Busy
<1>2. CASE DeleteFile
  <2>1. PICK f \in files : /\ disk' = Unlinked(f, job.pkg, ForceFlag)
                           /\ files' = files \ {f}
    BY <1>2 DEF DeleteFile
  <2>2. /\ UNCHANGED <<db, stored, todo, pc>> /\ pc = "delete"
        /\ f \in File
    BY <1>2, <2>1 DEF DeleteFile, TypeOK
  <2>3. /\ \A g \in File : g # f => disk'[g] = disk[g]
        /\ disk'[f] = IF disk[f] = job.pkg THEN Absent ELSE disk[f]
    BY <2>1, <2>2 DEF Unlinked, Strict, TypeOK
  <2>4. Absent \notin Pkg
    BY ExecuteAssumption
  <2>5. Strays(db, disk)' = {}
    BY <1>1, <2>2, <2>3, <2>4, SameJob DEF Strays
  <2>6. ASSUME NEW g \in FilesIn(db, job.pkg), disk'[g] \in Pkg
        PROVE  g \in files'
    <3>1. g \in File /\ db.owner[g] = job.pkg
        BY <2>6 DEF FilesIn
    <3>2. g # f
        BY <1>1, <2>3, <2>4, <2>6, <3>1 DEF Strays
    <3>3. g \in files
        BY <2>2, <2>3, <2>6, <3>1, <3>2 DEF Tidy
    <3>4. QED
        BY <2>1, <3>2, <3>3
  <2>7. QED
    BY <2>2, <2>5, <2>6, SameJob DEF Tidy, Busy
<1>3. CASE ~DeleteFile
  <2>1. /\ pc = "unregister" /\ disk' = disk
        /\ db' = Without(db, {job.pkg}) /\ pc' = "next"
    BY <1>3 DEF Unregister
  <2>2. \A f \in File : db'.owner[f] =
            IF db.owner[f] = job.pkg THEN None ELSE db.owner[f]
    BY <2>1 DEF Without
  <2>3. \A f \in File : disk[f] \in Pkg => db.owner[f] # job.pkg
    BY <2>1 DEF Tidy, FilesIn
  <2>4. QED
    BY <1>1, <2>1, <2>2, <2>3, SameTidy DEF Busy
<1>4. QED
    BY <1>2, <1>3

\* The steps on the files of an upgrade and of a new package.
LEMMA ExtractTidy ==
    ASSUME TypeOK, Control, Tidy, mode' = mode, rc' = "ok",
           ExtractMtree \/ CleanupOld \/ DeleteOldFile \/ ExtractFile
    PROVE  Tidy'
<1>1. /\ UNCHANGED <<db, stored, todo>> /\ pc \in Busy
      /\ todo # <<>>
    BY DEF ExtractMtree, CleanupOld, DeleteOldFile, ExtractFile, AddFailed,
           Busy, TypeOK, JobPc
<1>2. /\ FilesOf[job.pkg] \subseteq FilesIn(db, job.pkg)
      /\ FilesOf[job.pkg] \subseteq File /\ job.pkg \in Pkg
    BY <1>1, JobType DEF Tidy
<1>3. /\ pc = "mtree" => \A f \in Strays(db, disk) :
             job.type = "upgrade" /\ f \in FilesIn(stored, job.old)
      /\ pc \in {"cleanup_old", "extract"} => Strays(db, disk) \subseteq files
      /\ pc = "extract" => files \subseteq FilesOf[job.pkg]
      /\ pc = "delete_old" =>
            Strays(db, disk) \subseteq files \cup FilesOf[job.pkg]
    BY DEF Tidy
<1>4. /\ job' = job
      /\ FilesIn(db, job.pkg)' = FilesIn(db, job.pkg)
      /\ FilesIn(stored, job.old)' = FilesIn(stored, job.old)
      /\ Strays(db, disk)' = Strays(db, disk')
    BY <1>1, SameJob
<1>5. Absent \notin Pkg
    BY ExecuteAssumption
<1>6. CASE ExtractMtree
  <2>1. /\ pc = "mtree" /\ disk' = disk
        /\ IF job.type = "upgrade"
           THEN pc' = "cleanup_old" /\ files' = FilesIn(stored, job.old)
           ELSE pc' = "extract" /\ files' = FilesOf[job.pkg]
    BY <1>6 DEF ExtractMtree, AddFailed
  <2>2. QED
    BY <1>2, <1>3, <1>4, <2>1 DEF Tidy, Busy
<1>7. CASE CleanupOld
  <2>1. /\ pc = "cleanup_old" /\ disk' = disk /\ pc' = "delete_old"
        /\ files' = files \ FilesOf[job.pkg]
    BY <1>7 DEF CleanupOld, AddFailed
  <2>2. QED
    BY <1>2, <1>3, <1>4, <2>1 DEF Tidy, Busy
<1>8. CASE DeleteOldFile
  <2>1. CASE files = {}
    <3>1. /\ pc = "delete_old" /\ disk' = disk /\ pc' = "extract"
          /\ files' = FilesOf[job.pkg]
        BY <1>8, <2>1 DEF DeleteOldFile
    <3>2. QED
        BY <1>2, <1>3, <1>4, <2>1, <3>1 DEF Tidy, Busy
  <2>2. CASE files # {}
    <3>1. PICK f \in files : /\ disk' = Unlinked(f, job.old, TRUE)
                             /\ files' = files \ {f}
        BY <1>8, <2>2 DEF DeleteOldFile
    <3>2. pc = "delete_old" /\ pc' = "delete_old" /\ f \in File
        BY <1>8, <2>2 DEF DeleteOldFile, TypeOK
    <3>3. /\ \A g \in File : g # f => disk'[g] = disk[g]
          /\ disk'[f] = Absent
        BY <3>1, <3>2 DEF Unlinked, TypeOK
    <3>4. Strays(db, disk') \subseteq Strays(db, disk) \ {f}
        BY <1>5, <3>3 DEF Strays
    <3>5. QED
        BY <1>2, <1>3, <1>4, <3>1, <3>2, <3>4 DEF Tidy, Busy
  <2>3. QED
    BY <2>1, <2>2
<1>9. CASE ExtractFile
  <2>1. PICK f \in files : /\ disk' = [disk EXCEPT ![f] = job.pkg]
                           /\ files' = files \ {f}
    BY <1>9 DEF ExtractFile
  <2>2. pc = "extract" /\ pc' = "extract" /\ f \in File
    BY <1>9 DEF ExtractFile, TypeOK
  <2>3. /\ \A g \in File : g # f => disk'[g] = disk[g]
        /\ disk'[f] = job.pkg
    BY <2>1, <2>2 DEF TypeOK
  <2>4. db.owner[f] = job.pkg
    BY <1>2, <1>3, <2>2 DEF FilesIn
  <2>5. Strays(db, disk') \subseteq Strays(db, disk) \ {f}
    BY <2>3, <2>4 DEF Strays
  <2>6. files' \subseteq FilesOf[job.pkg]
    BY <1>3, <2>1, <2>2
  <2>7. QED
    BY <1>2, <1>3, <1>4, <2>1, <2>2, <2>5, <2>6 DEF Tidy, Busy
<1>10. QED
    BY <1>6, <1>7, <1>8, <1>9

\* Every step that does not fail deals with the paths it should.
LEMMA NextTidy ==
    ASSUME Strict, TypeOK, Control, Registration, NEW rank \in Ranks,
           Neat(rank), [Next]_vars, Proper'
    PROVE  Tidy'
<1>0. /\ JobWaits /\ AddWaits(rank) /\ Tidy
      /\ ~Crash /\ ~RefuseLocked /\ ~RegisterFailed /\ ~ExtractFailed
      /\ ~UndoExtract /\ ~Unwind
      /\ mode' # "none" => rc' = "ok"
      /\ EndJobs \/ EndAdd => pc = "next"
      /\ clean'
    BY ProperBefore DEF Neat, Proper
<1>1. CASE StartJobs \/ StartAdd
    BY <1>0, <1>1, SameTidy DEF StartJobs, StartAdd, Control, Busy
<1>2. CASE SkipSelf \/ BeginDelete \/ BeginInstall
    BY <1>0, <1>2, SameTidy
    DEF SkipSelf, BeginDelete, BeginInstall, NextJob, Busy
<1>3. CASE EndJobs \/ EndAdd
  <2>1. pc = "next" /\ pc' = "idle" /\ disk' = disk
    BY <1>0, <1>3 DEF EndJobs, EndAdd
  <2>2. db' = db
    BY <1>0, <1>3, <2>1 DEF EndJobs, EndAdd, AddWaits
  <2>3. QED
    BY <1>0, <2>1, <2>2, SameTidy DEF Busy
<1>4. CASE PreDeinstall \/ PostDeinstall
  <2>1. mode' = mode /\ mode # "none" /\ todo # <<>>
    BY <1>4 DEF PreDeinstall, PostDeinstall, Control, TypeOK, JobPc
  <2>2. /\ UNCHANGED <<db, stored, todo, disk>>
        /\ \/ /\ pc = "predeinstall" /\ pc' = "delete"
              /\ files' = FilesIn(db, job.pkg)
           \/ pc = "delete" /\ files = {} /\ pc' = "unregister"
    BY <1>0, <1>4, <2>1 DEF PreDeinstall, PostDeinstall, DeleteFailed
  <2>3. Strays(db, disk)' = {}
    BY <1>0, <2>2, SameJob DEF Tidy, Busy
  <2>4. QED
    BY <1>0, <2>2, <2>3, SameJob DEF Tidy, Busy
<1>5. CASE DeleteFile
    BY <1>0, <1>5, DeleteTidy
<1>6. CASE Unregister
  <2>1. mode' = mode /\ mode # "none"
    BY <1>6 DEF Unregister, Control
  <2>2. pc' = "next" /\ db' = Without(db, {job.pkg})
    BY <1>0, <1>6, <2>1 DEF Unregister, DeleteFailed
  <2>3. QED
    BY <1>0, <1>6, <2>2, DeleteTidy
<1>7. CASE Open \/ CheckInstalled \/ CheckDeps
  <2>1. mode' = mode /\ mode # "none" /\ pc \notin Busy
    BY <1>7 DEF Open, CheckInstalled, CheckDeps, Control, Busy
  <2>2. /\ UNCHANGED <<db, disk>>
        /\ pc' \in {"register", "check", "deps", "next"}
    BY <1>0, <1>7, <2>1 DEF Open, CheckInstalled, CheckDeps, AddFailed
  <2>3. QED
    BY <1>0, <2>1, <2>2, SameTidy DEF Busy
<1>8. CASE Register
    BY <1>0, <1>8, RegisterTidy
<1>9. CASE ExtractMtree \/ CleanupOld \/ DeleteOldFile \/ ExtractFile
  <2>1. mode' = mode /\ mode # "none"
    BY <1>9
    DEF ExtractMtree, CleanupOld, DeleteOldFile, ExtractFile, Control
  <2>2. QED
    BY <1>0, <1>9, <2>1, ExtractTidy
<1>10. CASE Installed
  <2>1. /\ pc = "extract" /\ files = {} /\ UNCHANGED <<db, disk>>
        /\ pc' \in {"deps", "next"}
    BY <1>10 DEF Installed
  <2>2. Strays(db, disk) = {}
    BY <1>0, <2>1 DEF Tidy
  <2>3. Strays(db, disk)' = Strays(db, disk)
    BY <2>1 DEF Strays
  <2>4. QED
    BY <2>1, <2>2, <2>3 DEF Tidy, Busy
<1>11. CASE \E f \in File : Edit(f)
  <2>1. PICK f \in File : Edit(f)
    BY <1>11
  <2>2. /\ mode = "none" /\ UNCHANGED <<db, pc>>
        /\ disk' = [disk EXCEPT ![f] = User]
    BY <2>1 DEF Edit
  <2>3. pc = "idle"
    BY <2>2 DEF Control
  <2>4. \A g \in File : disk'[g] = disk[g] \/ disk'[g] \notin Pkg
    BY <2>2, ExecuteAssumption DEF TypeOK
  <2>5. Strays(db', disk') = {}
    BY <1>0, <2>2, <2>3, <2>4 DEF Tidy, Busy, Strays
  <2>6. Strays(db, disk)' = Strays(db', disk')
    BY DEF Strays
  <2>7. QED
    BY <2>2, <2>3, <2>5, <2>6 DEF Tidy, Busy
<1>12. CASE UNCHANGED vars
  <2>1. /\ UNCHANGED <<db, stored, todo, disk, pc, files>>
        /\ Strays(db, disk') = Strays(db, disk)
    BY <1>12 DEF vars, Strays
  <2>2. QED
    BY <1>0, <2>1, SameJob DEF Tidy
<1>13. QED
    BY <1>0, <1>1, <1>2, <1>3, <1>4, <1>5, <1>6, <1>7, <1>8, <1>9, <1>10,
       <1>11, <1>12 DEF Next, Step

\* As long as every command succeeded, the disk has no file of a package that
\* is not registered for that very package, if the names of the packages can
\* be put in an order in which dependencies come first: pkg_add_common adds a
\* missing dependency before it registers the package that needs it, and does
\* not ask again what is installed, so a package whose dependencies lead back
\* to its own name would leave the files of the first version behind.
THEOREM NothingStray == Ranks # {} /\ Spec => []NoStrayFiles
<1> SUFFICES ASSUME NEW rank \in Ranks PROVE Spec => []NoStrayFiles
    OBVIOUS
<1> DEFINE Inv == /\ TypeOK /\ Control
                  /\ Strict => Registration /\ Neat(rank)
<1>1. Init => Inv
  <2> SUFFICES ASSUME Init PROVE Neat(rank)
    BY InitType, InitRegistration
  <2>1. /\ mode = "none" /\ pc = "idle"
        /\ \A f \in File : disk[f] \in Pkg => db.owner[f] = disk[f]
    BY ExecuteAssumption DEF Init
  <2>2. Strays(db, disk) = {}
    BY <2>1 DEF Strays
  <2>3. QED
    BY <2>1, <2>2 DEF Neat, JobWaits, AddWaits, Tidy, Busy
<1>2. Inv /\ [Next]_vars => Inv'
  <2> SUFFICES ASSUME Inv, [Next]_vars PROVE Inv'
    OBVIOUS
  <2>1. TypeOK' /\ Control' /\ (Strict => Registration')
    BY NextType, NextControl, NextRegistration
  <2>2. ASSUME Strict PROVE Neat(rank)'
    <3>1. pc' \in {"end", "unwind"} => rc' # "ok"
        BY <2>2, FailureNoted
    <3>2. Proper' => JobWaits' /\ AddWaits(rank)' /\ Tidy'
        BY <2>2, NextWaits, NextTidy
    <3>3. QED
        BY <3>1, <3>2 DEF Neat
  <2>3. QED
    BY <2>1, <2>2 DEF Strict
<1>3. Inv => NoStrayFiles
  <2> SUFFICES ASSUME Inv, Strict, clean, mode = "none",
                      NEW f \in File, disk[f] \in Pkg
               PROVE  stored.owner[f] = disk[f]
    BY DEF NoStrayFiles
  <2>1. Tidy /\ pc = "idle" /\ db = stored
    BY DEF Neat, Proper, Control
  <2>2. QED
    BY <2>1 DEF Tidy, Strays, Busy
<1>4. QED
    BY <1>1, <1>2, <1>3, PTL DEF Spec
=============================================================================
