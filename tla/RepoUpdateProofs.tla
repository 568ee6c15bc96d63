-------------------------- MODULE RepoUpdateProofs --------------------------
(***************************************************************************)
(* Proofs about RepoUpdate, for any number of processes, publications and  *)
(* updates and any catalogues.                                             *)
(***************************************************************************)
EXTENDS RepoUpdate, TLAPS

---------------------------------------------------------------------------
(* The inductive invariant.                                                *)

\* Steps in the transaction, and after it.
Writing == {"remove", "push", "commit"}
Ending == {"finish", "times", "meta time"}
\* Steps after the two downloads, and after the first of them.
Ready == {"open", "create", "tables", "reopen"} \cup Opened
Fetched == Ready \cup {"packagesite"}
\* Steps between the first change of a file and the last.
Changing == {"write meta", "check meta", "create", "tables", "reopen", "load"}
            \cup Writing \cup Ending

\* The time of the digests is kept.
DigestTime == \A p \in Proc : pc[p] \in Ready => t[p] = dig[p]

\* Local files and what was fetched are not newer than what is served, and
\* packagesite is not older than the digests.
InThePast ==
    /\ meta \in Loaded => meta <= served
    /\ \A i \in Inode : node[i].mtime <= served
    /\ \A p \in Proc :
          /\ t[p] <= served /\ dig[p] <= served /\ man[p] <= served
          /\ pc[p] \in Ready => dig[p] <= man[p]

\* While an update is alone the other processes are idle.
AloneMeansAlone ==
    \A p \in Proc : alone[p] =>
        /\ pc[p] # "idle"
        /\ \A q \in Proc \ {p} : pc[q] = "idle"

\* Only a process in its transaction holds a write lock, on its own file.
WritersWrite ==
    /\ \A i \in Inode, p \in Proc :
          writer[i] = p => handle[p] = i /\ pc[p] \in Writing
    /\ \A p \in Proc : pc[p] = "idle" =>
          handle[p] = NoFile /\ ldel[p] = {} /\ ladd[p] = {}

\* A process that is alone works on the file that has the name, and finds no
\* .meta newer than its digests.
OwnFile ==
    \A p \in Proc : alone[p] =>
        /\ pc[p] \in Opened \cup {"tables"} => handle[p] = file
        /\ pc[p] = "create" => file = NoFile
        /\ pc[p] \in Fetched /\ meta \in Loaded => meta <= dig[p]
        /\ pc[p] = "meta time" => node[file].mtime = t[p]

\* What is not in one of the two lists is in the database as in the digests.
Difference ==
    \A p \in Proc : (alone[p] /\ pc[p] \in Writing) =>
        /\ \A o \in Origin :
              /\ (dig[p] = man[p] /\ o \notin ldel[p] \cup ladd[p]) =>
                    Current(p)[o] = Content[dig[p]][o]
              /\ o \in ldel[p] => Content[dig[p]][o] = NoPkg
              /\ o \in ladd[p] => Content[dig[p]][o] # NoPkg
        /\ pc[p] \in {"push", "commit"} => ldel[p] = {}
        /\ pc[p] = "commit" => ladd[p] = {} \/ Content[man[p]] = Empty

\* UpdateIsExact up to the end of the update.
ExactToTheEnd ==
    \A p \in Proc : (alone[p] /\ dig[p] = man[p] /\ pc[p] \in Ending) =>
        node[file].pkgs = Content[dig[p]]

\* An update that has begun to change files is noted.
Dirty == \A p \in Proc : pc[p] \in Changing => ~clean

\* If nothing was left behind by a failure, a local time of now means the
\* catalogue of now.
TimesTell ==
    clean =>
        /\ (Openable /\ LocalTime = served) => node[file].pkgs = Content[served]
        /\ \A p \in Proc :
              (pc[p] \in {"meta", "digests"} /\ t[p] = served) => IsUpToDate

---------------------------------------------------------------------------
(* Types.                                                                  *)

\* The bounds are numbers.
LEMMA Bounds == Published \in Nat \ {0} /\ MaxUpdates \in Nat
BY UpdateAssumption

\* The first catalogue, or none.
LEMMA InitType == Init => TypeOK
BY UpdateAssumption
DEF Init, TypeOK, Catalogue, Empty, Nodes, Opened, Loaded, Absent, Broken

\* The changes of a database file.
LEMMA NodeType ==
    ASSUME NEW n \in [Inode -> Nodes], NEW i \in Inode, NEW v \in Loaded,
           NEW b \in BOOLEAN, NEW c \in Catalogue
    PROVE  /\ [n EXCEPT ![i].mark = b, ![i].mtime = v] \in [Inode -> Nodes]
           /\ [n EXCEPT ![i].ready = b, ![i].mtime = v] \in [Inode -> Nodes]
           /\ [n EXCEPT ![i].mtime = v] \in [Inode -> Nodes]
           /\ [n EXCEPT ![i].pkgs = c, ![i].mtime = v] \in [Inode -> Nodes]
           /\ [n EXCEPT ![i] = [pkgs |-> c, mark |-> b, mtime |-> v,
                                ready |-> b]] \in [Inode -> Nodes]
BY DEF Nodes

\* A process that is gone holds nothing.
LEMMA ReturnType ==
    ASSUME TypeOK, NEW p \in Proc, Return(p),
           served' = served, meta' \in Loaded \cup {Absent, Broken},
           UNCHANGED <<file, node, updates, whole>>, clean' \in BOOLEAN
    PROVE  TypeOK'
<1>1. 1 \in Loaded /\ 0 \in 0..Published /\ Empty \in Catalogue
    BY UpdateAssumption DEF Loaded, Empty, Catalogue
<1>2. "idle" \notin Opened \cup {"tables"}
    BY DEF Opened
<1>3. QED
    BY <1>1, <1>2 DEF TypeOK, Return, Goto

\* So does one that returns without a change to the files.
LEMMA ReturnOnlyType ==
    ASSUME TypeOK, NEW p \in Proc, ReturnOnly(p) PROVE TypeOK'
<1>1. UNCHANGED <<served, meta, file, node, updates, clean, whole>>
      /\ Return(p)
    BY DEF ReturnOnly
<1>2. meta' \in Loaded \cup {Absent, Broken} /\ clean' \in BOOLEAN
    BY <1>1 DEF TypeOK
<1>3. QED
    BY <1>1, <1>2, ReturnType

\* The transaction sees a catalogue.
LEMMA CurrentType ==
    ASSUME TypeOK, NEW p \in Proc, handle[p] \in Inode
    PROVE  Current(p) \in Catalogue
BY DEF TypeOK, Current, Nodes

\* Every step keeps the types.
LEMMA NextType == TypeOK /\ DigestTime /\ [Next]_vars => TypeOK'
<1> SUFFICES ASSUME TypeOK, DigestTime, [Next]_vars PROVE TypeOK'
    OBVIOUS
<1> USE DEF At, Goto, disk, mine, history
<1>1. CASE UNCHANGED vars
    BY <1>1 DEF vars, TypeOK
<1>2. CASE Publish
    <2>1. served' \in Loaded
        <3>1. served \in 1..Published /\ served < Published
              /\ served' = served + 1
            BY <1>2 DEF Publish, TypeOK, Loaded
        <3>2. QED
            BY <3>1, Bounds DEF Loaded
    <2>2. QED
        BY <1>2, <2>1 DEF Publish, TypeOK
<1>3. ASSUME NEW p \in Proc, Start(p) PROVE TypeOK'
    <2>1. Openable => LocalTime \in 0..Published
        <3>1. /\ meta \in (1..Published) \cup {0, Published + 1}
              /\ file \in Inode \cup {NoFile}
              /\ node \in [Inode -> Nodes]
            BY DEF TypeOK, Loaded, Absent, Broken
        <3>2. file # NoFile => node[file].mtime \in 1..Published
            BY <3>1 DEF Nodes, Loaded
        <3>3. QED
            BY <3>1, <3>2, Bounds DEF Openable, LocalTime, Absent, Broken
    <2>2. t' \in [Proc -> 0..Published]
        <3>1. t \in [Proc -> 0..Published]
            BY DEF TypeOK
        <3>2. 0 \in 0..Published
            BY Bounds
        <3>3. QED
            BY <1>3, <2>1, <3>1, <3>2 DEF Start
    <2>3. updates' \in 0..MaxUpdates
        <3>1. updates \in 0..MaxUpdates /\ updates < MaxUpdates
              /\ updates' = updates + 1
            BY <1>3 DEF Start, TypeOK
        <3>2. QED
            BY <3>1, Bounds
    <2>4. force' \in [Proc -> BOOLEAN] /\ got' \in [Proc -> BOOLEAN]
        BY <1>3 DEF Start, TypeOK
    <2>5. alone' \in [Proc -> BOOLEAN]
        BY <1>3 DEF Start, TypeOK
    <2>6. QED
        BY <1>3, <2>2, <2>3, <2>4, <2>5 DEF Start, TypeOK, Opened
<1>4. ASSUME NEW p \in Proc, Crash(p) PROVE TypeOK'
    BY <1>4, ReturnOnlyType DEF Crash
<1>5. ASSUME NEW p \in Proc, Step(p) PROVE TypeOK'
  <2>1. CASE KeepMeta(p)
    BY <2>1 DEF KeepMeta, TypeOK, Opened
  <2>2. CASE UnlinkMeta(p)
    BY <2>2 DEF UnlinkMeta, TypeOK, Opened
  <2>3. CASE WriteMeta(p)
    BY <2>3 DEF WriteMeta, TypeOK, Opened
  <2>4. CASE LoadMeta(p)
    BY <2>4 DEF LoadMeta, TypeOK, Opened
  <2>5. CASE RefuseMeta(p)
    BY <2>5 DEF RefuseMeta, TypeOK, Opened
  <2>6. CASE UpToDate(p)
    BY <2>6, ReturnOnlyType DEF UpToDate
  <2>7. CASE FetchDigests(p)
    BY <2>7 DEF FetchDigests, TypeOK, Opened
  <2>8. CASE FetchManifest(p)
    <3>1. dig[p] \in 0..Published
        <4>1. dig[p] \in 1..Published
            BY DEF TypeOK, Loaded
        <4>2. QED
            BY <4>1, Bounds
    <3>2. QED
        BY <2>8, <3>1 DEF FetchManifest, TypeOK, Opened
  <2>9. CASE FetchFailed(p)
    BY <2>9, ReturnOnlyType DEF FetchFailed
  <2>10. CASE OpenRepo(p)
    BY <2>10 DEF OpenRepo, TypeOK, Opened, Openable
  <2>11. CASE UnlinkRepo(p)
    BY <2>11 DEF UnlinkRepo, TypeOK, Opened
  <2>12. CASE CreateRepo(p)
    <3>1. PICK i \in {j \in Inode : Free(j)} :
              /\ node' = [node EXCEPT ![i] =
                            [pkgs |-> Empty, mark |-> FALSE,
                             mtime |-> served, ready |-> FALSE]]
              /\ file' = i
              /\ handle' = [handle EXCEPT ![p] = i]
        BY <2>12 DEF CreateRepo
    <3>2. Empty \in Catalogue
        BY DEF Empty, Catalogue
    <3>3. node' \in [Inode -> Nodes]
        BY <3>1, <3>2, NodeType DEF TypeOK
    <3>4. QED
        BY <2>12, <3>1, <3>3 DEF CreateRepo, TypeOK, Opened
  <2>13. CASE CreateTables(p)
    <3>1. handle[p] \in Inode
        BY <2>13 DEF CreateTables, TypeOK
    <3>2. node' \in [Inode -> Nodes]
        <4>1. node \in [Inode -> Nodes] /\ served \in Loaded
            BY DEF TypeOK
        <4>2. QED
            BY <2>13, <3>1, <4>1 DEF CreateTables, Nodes
    <3>3. QED
        BY <2>13, <3>1, <3>2 DEF CreateTables, TypeOK, Opened
  <2>14. CASE Reopen(p)
    BY <2>14 DEF Reopen, TypeOK, Opened, Openable
  <2>15. CASE OpenFailed(p)
    BY <2>15, ReturnOnlyType DEF OpenFailed
  <2>16. CASE Restart(p)
    <3>1. handle[p] \in Inode
        BY <2>16 DEF Restart, Opened, TypeOK
    <3>2. node' \in [Inode -> Nodes]
        <4>1. node \in [Inode -> Nodes] /\ served \in Loaded
            BY DEF TypeOK
        <4>2. QED
            BY <2>16, <3>1, <4>1 DEF Restart, Nodes
    <3>3. QED
        <4>1. 0 \in 0..Published
            BY Bounds
        <4>2. QED
            BY <2>16, <3>1, <3>2, <4>1 DEF Restart, TypeOK, Opened
  <2>17. CASE NoRestart(p)
    BY <2>17 DEF NoRestart, TypeOK, Opened
  <2>18. CASE Mark(p)
    <3>1. handle[p] \in Inode
        BY <2>18 DEF Mark, Opened, TypeOK
    <3>2. node' \in [Inode -> Nodes]
        <4>1. node \in [Inode -> Nodes] /\ served \in Loaded
            BY DEF TypeOK
        <4>2. [node EXCEPT ![handle[p]].mark = TRUE,
                            ![handle[p]].mtime = served]
              \in [Inode -> Nodes]
            BY <3>1, <4>1 DEF Nodes
        <4>3. QED
            BY <2>18, <3>1, <4>1, <4>2 DEF Mark
    <3>3. QED
        BY <2>18, <3>1, <3>2 DEF Mark, TypeOK, Opened
  <2>19. CASE Load(p)
    BY <2>19 DEF Load, TypeOK, Opened
  <2>20. CASE LoadFailed(p)
    BY <2>20, ReturnOnlyType DEF LoadFailed
  <2>21. CASE Remove(p)
    <3>1. handle[p] \in Inode
        BY <2>21 DEF Remove, TypeOK, Opened
    <3>2. PICK o \in ldel[p], x \in Cksum \cup {NoPkg} :
              Write(p, o, x) /\ ldel' = [ldel EXCEPT ![p] = @ \ {o}]
        BY <2>21, UpdateAssumption DEF Remove, TypeOK, Manifest, Catalogue
    <3>3. [Current(p) EXCEPT ![o] = x] \in Catalogue
        BY <3>1, <3>2, CurrentType DEF TypeOK, Catalogue
    <3>4. writer' \in [Inode -> Proc \cup {NoProc}]
          /\ view' \in [Proc -> Catalogue]
        BY <3>1, <3>2, <3>3 DEF Write, TypeOK
    <3>5. QED
        BY <2>21, <3>2, <3>4 DEF Remove, TypeOK
  <2>22. CASE EndRemove(p)
    BY <2>22 DEF EndRemove, TypeOK, Opened
  <2>23. CASE Push(p)
    <3>1. handle[p] \in Inode
        BY <2>23 DEF Push, TypeOK, Opened
    <3>2. PICK o \in ladd[p], x \in Cksum \cup {NoPkg} :
              Write(p, o, x) /\ ladd' = [ladd EXCEPT ![p] = @ \ {o}]
        <4>1. Content[dig[p]] \in Catalogue /\ Content[man[p]] \in Catalogue
            BY UpdateAssumption DEF TypeOK, Loaded
        <4>2. \A o \in Origin : Manifest(p, o) \subseteq Cksum \cup {NoPkg}
            BY <4>1 DEF Manifest, Catalogue
        <4>3. ladd[p] \subseteq Origin
            BY DEF TypeOK
        <4>4. QED
            BY <2>23, <4>2, <4>3 DEF Push
    <3>3. [Current(p) EXCEPT ![o] = x] \in Catalogue
        BY <3>1, <3>2, CurrentType DEF TypeOK, Catalogue
    <3>4. writer' \in [Inode -> Proc \cup {NoProc}]
          /\ view' \in [Proc -> Catalogue]
        BY <3>1, <3>2, <3>3 DEF Write, TypeOK
    <3>5. QED
        BY <2>23, <3>2, <3>4 DEF Push, TypeOK
  <2>24. CASE EndPush(p)
    BY <2>24 DEF EndPush, TypeOK, Opened
  <2>25. CASE RollBack(p)
    BY <2>25, ReturnOnlyType DEF RollBack
  <2>26. CASE Commit(p)
    <3>1. handle[p] \in Inode
        BY <2>26 DEF Commit, Opened, TypeOK
    <3>2. Current(p) \in Catalogue /\ Empty \in Catalogue
        BY <3>1, CurrentType DEF Empty, Catalogue
    <3>3. (IF writer[handle[p]] = p THEN served ELSE node[handle[p]].mtime)
          \in Loaded
        BY <3>1 DEF TypeOK, Nodes
    <3>4. node' \in [Inode -> Nodes]
        BY <2>26, <3>1, <3>2, <3>3, NodeType DEF Commit, TypeOK
    <3>5. QED
        BY <2>26, <3>1, <3>2, <3>4 DEF Commit, TypeOK, Opened
  <2>27. CASE CommitFailed(p)
    BY <2>27, ReturnOnlyType DEF CommitFailed
  <2>28. CASE Finish(p)
    <3>1. handle[p] \in Inode
        BY <2>28 DEF Finish, Opened, TypeOK
    <3>2. node' \in [Inode -> Nodes]
        <4>1. node \in [Inode -> Nodes] /\ served \in Loaded
            BY DEF TypeOK
        <4>2. [node EXCEPT ![handle[p]].mark = FALSE,
                            ![handle[p]].mtime = served]
              \in [Inode -> Nodes]
            BY <3>1, <4>1 DEF Nodes
        <4>3. QED
            BY <2>28, <3>1, <4>1, <4>2 DEF Finish
    <3>3. QED
        BY <2>28, <3>1, <3>2 DEF Finish, TypeOK, Opened
  <2>29. CASE SetRepoTime(p)
    <3>1. t[p] \in Loaded
        BY <2>29 DEF SetRepoTime, TypeOK, DigestTime, Ready, Opened
    <3>2. node' \in [Inode -> Nodes]
        <4>1. \A i \in Inode : [node[i] EXCEPT !.mtime = t[p]] \in Nodes
            BY <3>1 DEF TypeOK, Nodes
        <4>2. QED
            BY <2>29, <4>1 DEF SetRepoTime, TypeOK
    <3>3. QED
        BY <2>29, <3>2 DEF SetRepoTime, TypeOK, Opened
  <2>30. CASE SetMetaTime(p)
    <3>1. meta' \in Loaded \cup {Absent, Broken} /\ clean' \in BOOLEAN
        <4>1. t[p] \in Loaded
            BY <2>30 DEF SetMetaTime, TypeOK, DigestTime, Ready, Opened
        <4>2. QED
            BY <2>30, <4>1 DEF SetMetaTime, TypeOK
    <3>2. QED
        BY <2>30, <3>1, ReturnType DEF SetMetaTime
  <2>31. QED
    BY <1>5, <2>1, <2>2, <2>3, <2>4, <2>5, <2>6, <2>7, <2>8, <2>9, <2>10, <2>11, <2>12, <2>13, <2>14, <2>15, <2>16, <2>17, <2>18, <2>19, <2>20, <2>21, <2>22, <2>23, <2>24, <2>25, <2>26, <2>27, <2>28, <2>29, <2>30 DEF Step
<1>6. QED
    BY <1>1, <1>2, <1>3, <1>4, <1>5 DEF Next

\* FetchManifest keeps the time of the digests; nothing changes it later.
LEMMA NextDigestTime ==
    TypeOK /\ DigestTime /\ [Next]_vars => DigestTime'
<1> SUFFICES ASSUME TypeOK, DigestTime, [Next]_vars PROVE DigestTime'
    OBVIOUS
<1> USE DEF At, Goto, disk, mine, history, DigestTime, Ready, Opened
<1>1. CASE UNCHANGED vars \/ Publish
    BY <1>1 DEF vars, Publish
<1>2. ASSUME NEW p \in Proc, Start(p) PROVE DigestTime'
    BY <1>2 DEF Start, TypeOK
<1>3. ASSUME NEW p \in Proc, Return(p) PROVE DigestTime'
    BY <1>3 DEF Return, TypeOK
<1>4. ASSUME NEW p \in Proc, FetchManifest(p) PROVE DigestTime'
    BY <1>4 DEF FetchManifest, TypeOK
<1>5. ASSUME NEW p \in Proc,
             \/ KeepMeta(p) \/ UnlinkMeta(p) \/ WriteMeta(p) \/ LoadMeta(p)
             \/ RefuseMeta(p)
      PROVE  DigestTime'
    BY <1>5 DEF KeepMeta, UnlinkMeta, WriteMeta, LoadMeta, RefuseMeta, TypeOK
<1>6. ASSUME NEW p \in Proc, FetchDigests(p) PROVE DigestTime'
    BY <1>6 DEF FetchDigests, TypeOK
<1>7. ASSUME NEW p \in Proc, Restart(p) PROVE DigestTime'
    BY <1>7 DEF Restart, TypeOK
<1>8. ASSUME NEW p \in Proc,
             \/ OpenRepo(p) \/ UnlinkRepo(p) \/ CreateRepo(p) \/ CreateTables(p)
             \/ Reopen(p) \/ NoRestart(p) \/ Mark(p) \/ Load(p)
      PROVE  DigestTime'
    BY <1>8 DEF OpenRepo, UnlinkRepo, CreateRepo, CreateTables, Reopen,
                NoRestart, Mark, Load, TypeOK
<1>9. ASSUME NEW p \in Proc,
             \/ Remove(p) \/ EndRemove(p) \/ Push(p) \/ EndPush(p) \/ Commit(p)
             \/ Finish(p) \/ SetRepoTime(p)
      PROVE  DigestTime'
    BY <1>9 DEF Remove, EndRemove, Push, EndPush, Commit, Finish, SetRepoTime,
                TypeOK
<1>10. QED
    BY <1>1, <1>2, <1>3, <1>4, <1>5, <1>6, <1>7, <1>8, <1>9
    DEF Next, Step, Crash, UpToDate, FetchFailed, OpenFailed, LoadFailed,
        RollBack, CommitFailed, SetMetaTime, ReturnOnly

---------------------------------------------------------------------------
(* Who runs.                                                               *)

\* The steps that do not return, in three groups.
Fetching(p) ==
    \/ KeepMeta(p) \/ UnlinkMeta(p) \/ WriteMeta(p) \/ LoadMeta(p)
    \/ RefuseMeta(p) \/ FetchDigests(p) \/ FetchManifest(p)

Opening(p) ==
    \/ OpenRepo(p) \/ UnlinkRepo(p) \/ CreateRepo(p) \/ CreateTables(p)
    \/ Reopen(p) \/ Restart(p) \/ NoRestart(p) \/ Mark(p) \/ Load(p)

Applying(p) ==
    \/ Remove(p) \/ EndRemove(p) \/ Push(p) \/ EndPush(p) \/ Commit(p)
    \/ Finish(p) \/ SetRepoTime(p)

Leaving(p) == pc[p] # "idle" /\ (ReturnOnly(p) \/ SetMetaTime(p))

\* Every step of a process belongs to one of the groups.
LEMMA Cases ==
    ASSUME NEW p \in Proc, Step(p) \/ Crash(p)
    PROVE  Fetching(p) \/ Opening(p) \/ Applying(p) \/ Leaving(p)
BY DEF Step, Crash, UpToDate, FetchFailed, OpenFailed, LoadFailed, RollBack,
       CommitFailed, SetMetaTime, Fault, At, Fetching, Opening, Applying,
       Leaving

\* What belongs to other processes is not changed.
Untouched(p) ==
    \A q \in Proc \ {p} :
        /\ pc'[q] = pc[q] /\ handle'[q] = handle[q] /\ alone'[q] = alone[q]
        /\ t'[q] = t[q] /\ dig'[q] = dig[q] /\ man'[q] = man[q]
        /\ ldel'[q] = ldel[q] /\ ladd'[q] = ladd[q] /\ view'[q] = view[q]

Busy(p) == pc[p] # "idle" /\ pc'[p] # "idle" /\ alone' = alone

\* Downloads change what belongs to their process.
LEMMA FetchingFrame ==
    ASSUME TypeOK, NEW p \in Proc, Fetching(p)
    PROVE  Untouched(p) /\ Busy(p)
<1> USE DEF At, Goto, disk, mine, history
<1>1. CASE KeepMeta(p) \/ UnlinkMeta(p) \/ WriteMeta(p)
    BY <1>1 DEF KeepMeta, UnlinkMeta, WriteMeta, Untouched, Busy, TypeOK
<1>2. CASE LoadMeta(p) \/ RefuseMeta(p)
    BY <1>2 DEF LoadMeta, RefuseMeta, Untouched, Busy, TypeOK
<1>3. CASE FetchDigests(p) \/ FetchManifest(p)
    BY <1>3 DEF FetchDigests, FetchManifest, Untouched, Busy, TypeOK
<1>4. QED
    BY <1>1, <1>2, <1>3 DEF Fetching

\* So does opening and creating the database,
LEMMA OpeningFrame ==
    ASSUME TypeOK, NEW p \in Proc, Opening(p)
    PROVE  Untouched(p) /\ Busy(p)
<1> USE DEF At, Goto, disk, mine, history
<1>1. CASE OpenRepo(p) \/ UnlinkRepo(p) \/ Reopen(p)
    BY <1>1 DEF OpenRepo, UnlinkRepo, Reopen, Untouched, Busy, TypeOK
<1>2. CASE CreateRepo(p) \/ CreateTables(p)
    BY <1>2 DEF CreateRepo, CreateTables, Untouched, Busy, TypeOK
<1>3. CASE Restart(p) \/ NoRestart(p) \/ Mark(p) \/ Load(p)
    BY <1>3 DEF Restart, NoRestart, Mark, Load, Untouched, Busy, TypeOK
<1>4. QED
    BY <1>1, <1>2, <1>3 DEF Opening

\* and so does writing to it.
LEMMA ApplyingFrame ==
    ASSUME TypeOK, NEW p \in Proc, Applying(p)
    PROVE  Untouched(p) /\ Busy(p)
<1> USE DEF At, Goto, disk, mine, history
<1>1. CASE Remove(p) \/ Push(p)
    BY <1>1 DEF Remove, Push, Write, Untouched, Busy, TypeOK
<1>2. CASE EndRemove(p) \/ EndPush(p) \/ Finish(p) \/ SetRepoTime(p)
    BY <1>2 DEF EndRemove, EndPush, Finish, SetRepoTime, Untouched, Busy, TypeOK
<1>3. CASE Commit(p)
    BY <1>3 DEF Commit, Untouched, Busy, TypeOK
<1>4. QED
    BY <1>1, <1>2, <1>3 DEF Applying

\* A process that leaves is not alone any more.
LEMMA LeavingFrame ==
    ASSUME TypeOK, NEW p \in Proc, Leaving(p)
    PROVE  Untouched(p) /\ pc[p] # "idle" /\ pc'[p] = "idle"
           /\ alone' = [alone EXCEPT ![p] = FALSE]
BY DEF Leaving, ReturnOnly, SetMetaTime, Return, Goto, Untouched, TypeOK

\* Every step keeps the record of who is alone.
LEMMA NextAlone ==
    TypeOK /\ AloneMeansAlone /\ [Next]_vars => AloneMeansAlone'
<1> SUFFICES ASSUME TypeOK, AloneMeansAlone, [Next]_vars
             PROVE  AloneMeansAlone'
    OBVIOUS
<1>1. CASE UNCHANGED vars \/ Publish
    BY <1>1 DEF vars, Publish, AloneMeansAlone, history
<1>2. ASSUME NEW p \in Proc, Start(p) PROVE AloneMeansAlone'
    BY <1>2 DEF Start, Goto, TypeOK, AloneMeansAlone
<1>3. ASSUME NEW p \in Proc, Step(p) \/ Crash(p) PROVE AloneMeansAlone'
    <2>1. CASE Leaving(p)
        BY <2>1, LeavingFrame DEF Untouched, AloneMeansAlone, TypeOK
    <2>2. CASE Fetching(p) \/ Opening(p) \/ Applying(p)
        BY <2>2, FetchingFrame, OpeningFrame, ApplyingFrame
        DEF Untouched, Busy, AloneMeansAlone
    <2>3. QED
        BY <1>3, <2>1, <2>2, Cases
<1>4. QED
    BY <1>1, <1>2, <1>3 DEF Next

\* A step of a process leaves no other one alone.
LEMMA OnlyMine ==
    ASSUME TypeOK, AloneMeansAlone, NEW p \in Proc, NEW q \in Proc, alone'[q]
    PROVE  /\ Start(p) => q = p
           /\ Fetching(p) \/ Opening(p) \/ Applying(p) => q = p /\ alone[p]
           /\ ~Leaving(p)
<1>1. Start(p) => q = p
    BY DEF Start, TypeOK, AloneMeansAlone
<1>2. Fetching(p) \/ Opening(p) \/ Applying(p) => q = p /\ alone[p]
    BY FetchingFrame, OpeningFrame, ApplyingFrame DEF Busy, AloneMeansAlone
<1>3. ~Leaving(p)
    <2> SUFFICES ASSUME Leaving(p) PROVE FALSE
        OBVIOUS
    <2>1. pc[p] # "idle" /\ alone'[p] = FALSE /\ (q # p => alone[q])
        BY LeavingFrame DEF Untouched, TypeOK
    <2>2. QED
        BY <2>1 DEF AloneMeansAlone
<1>4. QED
    BY <1>1, <1>2, <1>3

\* Every step keeps write locks with the transactions.
LEMMA NextWriters ==
    TypeOK /\ WritersWrite /\ [Next]_vars => WritersWrite'
<1> SUFFICES ASSUME TypeOK, WritersWrite, [Next]_vars PROVE WritersWrite'
    OBVIOUS
<1> USE DEF At, Goto, disk, mine, history, WritersWrite, Writing
<1>1. CASE UNCHANGED vars \/ Publish
    BY <1>1 DEF vars, Publish
<1>2. ASSUME NEW p \in Proc, Start(p) PROVE WritersWrite'
    BY <1>2 DEF Start, TypeOK
<1>3. ASSUME NEW p \in Proc, Leaving(p) PROVE WritersWrite'
    <2>1. /\ \A i \in Inode : writer'[i] \in {writer[i], NoProc} \ {p}
          /\ handle'[p] = NoFile /\ ldel'[p] = {} /\ ladd'[p] = {}
        <3>1. Return(p)
            BY <1>3 DEF Leaving, ReturnOnly, SetMetaTime
        <3>2. \A i \in Inode : writer'[i] \in {writer[i], NoProc} \ {p}
            BY <3>1, UpdateAssumption DEF Return
        <3>3. handle'[p] = NoFile /\ ldel'[p] = {} /\ ladd'[p] = {}
            BY <3>1 DEF Return, TypeOK
        <3>4. QED
            BY <3>2, <3>3
    <2>2. NoProc \notin Proc
        BY UpdateAssumption
    <2>3. QED
        BY <1>3, <2>1, <2>2, LeavingFrame DEF Untouched
<1>4. ASSUME NEW p \in Proc, Fetching(p) PROVE WritersWrite'
    <2>1. UNCHANGED <<writer, handle, ldel, ladd>>
        BY <1>4 DEF Fetching, KeepMeta, UnlinkMeta, WriteMeta, LoadMeta,
                    RefuseMeta, FetchDigests, FetchManifest
    <2>2. pc[p] \notin Writing
        BY <1>4 DEF Fetching, KeepMeta, UnlinkMeta, WriteMeta, LoadMeta,
                    RefuseMeta, FetchDigests, FetchManifest
    <2>3. Untouched(p) /\ Busy(p)
        BY <1>4, FetchingFrame
    <2>4. QED
        BY <2>1, <2>2, <2>3 DEF Untouched, Busy
<1>5. ASSUME NEW p \in Proc, Opening(p) PROVE WritersWrite'
    <2>1. writer' = writer
        BY <1>5 DEF Opening, OpenRepo, UnlinkRepo, CreateRepo, CreateTables,
                    Reopen, Restart, NoRestart, Mark, Load
    <2>2. pc[p] \notin Writing
        BY <1>5 DEF Opening, OpenRepo, UnlinkRepo, CreateRepo, CreateTables,
                    Reopen, Restart, NoRestart, Mark, Load
    <2>3. Untouched(p) /\ Busy(p)
        BY <1>5, OpeningFrame
    <2>4. QED
        BY <2>1, <2>2, <2>3 DEF Untouched, Busy
<1>6. ASSUME NEW p \in Proc, Applying(p) PROVE WritersWrite'
    <2>1. handle' = handle /\ Untouched(p) /\ Busy(p)
        BY <1>6, ApplyingFrame DEF Applying, Remove, EndRemove, Push, EndPush,
                    Commit, Finish, SetRepoTime
    <2>2. CASE Remove(p) \/ Push(p)
        <3>1. /\ pc' = pc /\ pc[p] \in Writing
              /\ writer' = [writer EXCEPT ![handle[p]] = p]
            BY <2>2 DEF Remove, Push, Write
        <3>2. \A i \in Inode : IF i = handle[p] THEN writer'[i] = p
                                ELSE writer'[i] = writer[i]
            BY <3>1 DEF TypeOK
        <3>3. QED
            BY <2>1, <3>1, <3>2 DEF Untouched, Busy
    <2>3. CASE Commit(p)
        <3>1. writer' = [writer EXCEPT ![handle[p]] =
                            IF @ = p THEN NoProc ELSE @]
            BY <2>3 DEF Commit
        <3>2. NoProc \notin Proc
            BY UpdateAssumption
        <3>3. \A i \in Inode :
                  writer'[i] = IF i = handle[p] /\ writer[i] = p THEN NoProc
                               ELSE writer[i]
            BY <3>1 DEF TypeOK
        <3>4. \A i \in Inode : writer'[i] # p
            BY <3>2, <3>3
        <3>5. QED
            BY <2>1, <3>2, <3>3, <3>4 DEF Untouched, Busy
    <2>4. CASE EndRemove(p) \/ EndPush(p) \/ Finish(p) \/ SetRepoTime(p)
        <3>1. /\ writer' = writer
              /\ pc[p] \in Writing => pc'[p] \in Writing
            BY <2>4 DEF EndRemove, EndPush, Finish, SetRepoTime, TypeOK
        <3>2. QED
            BY <2>1, <3>1 DEF Untouched, Busy
    <2>5. QED
        BY <1>6, <2>2, <2>3, <2>4 DEF Applying
<1>7. QED
    BY <1>1, <1>2, <1>3, <1>4, <1>5, <1>6, Cases DEF Next

---------------------------------------------------------------------------
(* Times.                                                                  *)

\* Times are numbers.
LEMMA Times ==
    ASSUME TypeOK
    PROVE  /\ served \in Nat /\ served >= 1
           /\ \A p \in Proc : t[p] \in Nat /\ dig[p] \in Nat /\ man[p] \in Nat
           /\ \A i \in Inode : node[i].mtime \in Nat
<1>1. /\ served \in 1..Published
      /\ \A p \in Proc : /\ t[p] \in 0..Published
                         /\ dig[p] \in 1..Published
                         /\ man[p] \in 1..Published
    BY DEF TypeOK, Loaded
<1>2. \A i \in Inode : node[i].mtime \in 1..Published
    BY DEF TypeOK, Nodes, Loaded
<1>3. QED
    BY <1>1, <1>2, Bounds

\* Every step keeps local times in the past.
LEMMA NextPast ==
    TypeOK /\ DigestTime /\ InThePast /\ [Next]_vars => InThePast'
<1> SUFFICES ASSUME TypeOK, DigestTime, InThePast, [Next]_vars
             PROVE  InThePast'
    OBVIOUS
<1> USE DEF At, Goto, disk, mine, history
<1>1. CASE UNCHANGED vars
    BY <1>1 DEF vars, InThePast
<1>2. CASE Publish
    <2>1. UNCHANGED <<disk, pc, mine>> /\ served' = served + 1
        BY <1>2 DEF Publish
    <2>2. meta \in Loaded => meta \in Nat
        BY Bounds DEF Loaded
    <2>3. QED
        BY <2>1, <2>2, Times DEF InThePast
<1>3. ASSUME NEW p \in Proc, Start(p) PROVE InThePast'
    <2>1. Openable => LocalTime <= served
        BY DEF Openable, LocalTime, InThePast, TypeOK
    <2>2. t'[p] <= served /\ \A q \in Proc \ {p} : t'[q] = t[q]
        <3>1. 0 <= served
            BY Times
        <3>2. QED
            BY <1>3, <2>1, <3>1 DEF Start, TypeOK
    <2>3. QED
        BY <1>3, <2>2 DEF Start, InThePast, Ready, Opened, TypeOK
<1>4. ASSUME NEW p \in Proc, Leaving(p) PROVE InThePast'
    <2>1. t'[p] = 0 /\ dig'[p] = 1 /\ man'[p] = 1 /\ served' = served
          /\ node' = node
        BY <1>4 DEF Leaving, ReturnOnly, SetMetaTime, Return, TypeOK
    <2>2. meta' = meta \/ meta' = t[p]
        BY <1>4 DEF Leaving, ReturnOnly, SetMetaTime
    <2>3. QED
        <3>1. /\ t[p] <= served /\ 0 <= served /\ 1 <= served
              /\ pc'[p] \notin Ready
            <4>1. pc'[p] = "idle" /\ t[p] <= served
                BY <1>4, LeavingFrame DEF InThePast
            <4>2. QED
                BY <4>1, Times DEF Ready, Opened
        <3>2. QED
            BY <1>4, <2>1, <2>2, <3>1, LeavingFrame DEF Untouched, InThePast
<1>5. ASSUME NEW p \in Proc, Fetching(p) PROVE InThePast'
    <2>1. /\ served' = served /\ node' = node
          /\ meta' \in {meta, served, Absent, Broken}
        BY <1>5 DEF Fetching, KeepMeta, UnlinkMeta, WriteMeta, LoadMeta,
                    RefuseMeta, FetchDigests, FetchManifest
    <2>2. /\ t'[p] \in {t[p], dig[p]} /\ dig'[p] \in {dig[p], served}
          /\ man'[p] \in {man[p], served}
          /\ pc'[p] \in Ready => man'[p] = served /\ dig'[p] = dig[p]
        BY <1>5 DEF Fetching, KeepMeta, UnlinkMeta, WriteMeta, LoadMeta,
                    RefuseMeta, FetchDigests, FetchManifest, TypeOK, Ready,
                    Opened
    <2>3. Absent \notin Loaded /\ Broken \notin Loaded
        BY Bounds DEF Absent, Broken, Loaded
    <2>4. QED
        BY <1>5, <2>1, <2>2, <2>3, FetchingFrame, Times
        DEF Untouched, InThePast
<1>6. ASSUME NEW p \in Proc, Opening(p) PROVE InThePast'
    <2>1. UNCHANGED <<served, meta, dig, man>>
        BY <1>6 DEF Opening, OpenRepo, UnlinkRepo, CreateRepo, CreateTables,
                    Reopen, Restart, NoRestart, Mark, Load
    <2>2. t'[p] \in {0, t[p]} /\ (pc'[p] \in Ready => pc[p] \in Ready)
        BY <1>6 DEF Opening, OpenRepo, UnlinkRepo, CreateRepo, CreateTables,
                    Reopen, Restart, NoRestart, Mark, Load, TypeOK, Ready,
                    Opened
    <2>3. \A i \in Inode : node'[i].mtime \in {node[i].mtime, served}
        <3>1. CASE CreateRepo(p)
            <4>1. PICK i \in Inode :
                      node' = [node EXCEPT ![i] =
                                [pkgs |-> Empty, mark |-> FALSE,
                                 mtime |-> served, ready |-> FALSE]]
                BY <3>1 DEF CreateRepo
            <4>2. node \in [Inode -> Nodes]
                BY DEF TypeOK
            <4>3. QED
                BY <4>1, <4>2
        <3>2. CASE CreateTables(p) \/ Restart(p) \/ Mark(p)
            <4>1. node \in [Inode -> Nodes]
                BY DEF TypeOK
            <4>2. CASE CreateTables(p) \/ Restart(p)
                BY <4>1, <4>2 DEF CreateTables, Restart, Nodes
            <4>3. CASE Mark(p)
                BY <4>1, <4>3 DEF Mark, Nodes
            <4>4. QED
                BY <3>2, <4>2, <4>3
        <3>3. CASE ~(CreateRepo(p) \/ CreateTables(p) \/ Restart(p) \/ Mark(p))
            BY <1>6, <3>3 DEF Opening, OpenRepo, UnlinkRepo, Reopen, NoRestart,
                              Load
        <3>4. QED
            BY <3>1, <3>2, <3>3
    <2>4. QED
        BY <1>6, <2>1, <2>2, <2>3, OpeningFrame, Times
        DEF Untouched, InThePast
<1>7. ASSUME NEW p \in Proc, Applying(p) PROVE InThePast'
    <2>1. UNCHANGED <<served, meta, t, dig, man>>
        BY <1>7 DEF Applying, Remove, EndRemove, Push, EndPush, Commit, Finish,
                    SetRepoTime
    <2>2. pc[p] \in Ready
        BY <1>7 DEF Applying, Remove, EndRemove, Push, EndPush, Commit, Finish,
                    SetRepoTime, Ready, Opened
    <2>3. \A i \in Inode : node'[i].mtime \in {node[i].mtime, served, t[p]}
        <3>1. CASE Commit(p) \/ Finish(p)
            <4>1. node \in [Inode -> Nodes]
                BY DEF TypeOK
            <4>2. QED
                BY <3>1, <4>1 DEF Commit, Finish, Nodes
        <3>2. CASE SetRepoTime(p)
            BY <3>2 DEF SetRepoTime, TypeOK, Nodes
        <3>3. CASE ~(Commit(p) \/ Finish(p) \/ SetRepoTime(p))
            BY <1>7, <3>3 DEF Applying, Remove, EndRemove, Push, EndPush
        <3>4. QED
            BY <3>1, <3>2, <3>3
    <2>4. QED
        BY <1>7, <2>1, <2>2, <2>3, ApplyingFrame, Times
        DEF Untouched, InThePast
<1>8. QED
    BY <1>1, <1>2, <1>3, <1>4, <1>5, <1>6, <1>7, Cases DEF Next

---------------------------------------------------------------------------
(* An update that is alone.                                                *)

\* The steps that change .meta, the name of the database or what is open.
LEMMA NextOwnFile ==
    TypeOK /\ DigestTime /\ InThePast /\ AloneMeansAlone /\ OwnFile /\ [Next]_vars
        => OwnFile'
<1> SUFFICES ASSUME TypeOK, DigestTime, InThePast, AloneMeansAlone, OwnFile,
                    [Next]_vars
             PROVE  OwnFile'
    OBVIOUS
<1> USE DEF At, Goto, disk, mine, history
<1>1. CASE UNCHANGED vars \/ Publish
    BY <1>1 DEF vars, Publish, OwnFile
<1>2. ASSUME NEW p \in Proc, Start(p) PROVE OwnFile'
    <2>1. \A q \in Proc : alone'[q] => q = p
        BY <1>2, OnlyMine
    <2>2. pc'[p] = "meta"
        BY <1>2 DEF Start, TypeOK
    <2>3. QED
        BY <2>1, <2>2 DEF OwnFile, Opened, Fetched, Ready
<1>3. ASSUME NEW p \in Proc, Leaving(p) PROVE OwnFile'
    BY <1>3, OnlyMine DEF OwnFile
<1>4. ASSUME NEW p \in Proc, Fetching(p) PROVE OwnFile'
    <2>1. \A q \in Proc : alone'[q] => q = p /\ alone[p]
        BY <1>4, OnlyMine
    <2>2. pc'[p] \notin Opened \cup {"tables", "create"}
        BY <1>4 DEF Fetching, KeepMeta, UnlinkMeta, WriteMeta, LoadMeta,
                    RefuseMeta, FetchDigests, FetchManifest, TypeOK, Opened
    <2>3. CASE FetchDigests(p)
        BY <2>1, <2>2, <2>3 DEF FetchDigests, OwnFile, InThePast, TypeOK, Opened
    <2>4. CASE FetchManifest(p)
        <3>1. UNCHANGED <<meta, dig, alone>> /\ pc[p] = "packagesite"
            BY <2>4 DEF FetchManifest
        <3>2. QED
            BY <2>1, <2>2, <3>1 DEF OwnFile, Fetched, Opened
    <2>5. CASE ~(FetchDigests(p) \/ FetchManifest(p))
        <3>1. pc'[p] \notin Fetched
            BY <1>4, <2>5 DEF Fetching, KeepMeta, UnlinkMeta, WriteMeta,
                    LoadMeta, RefuseMeta, TypeOK, Fetched, Ready, Opened
        <3>2. QED
            BY <2>1, <2>2, <3>1 DEF OwnFile, Opened
    <2>6. QED
        BY <2>3, <2>4, <2>5
<1>5. ASSUME NEW p \in Proc, Opening(p) PROVE OwnFile'
    <2>1. \A q \in Proc : alone'[q] => q = p /\ alone[p]
        BY <1>5, OnlyMine
    <2>2. UNCHANGED <<meta, dig>> /\ pc[p] \in Fetched /\ pc'[p] # "meta time"
        BY <1>5 DEF Opening, OpenRepo, UnlinkRepo, CreateRepo, CreateTables,
                    Reopen, Restart, NoRestart, Mark, Load, TypeOK, Fetched,
                    Ready, Opened
    <2>3. alone[p] /\ pc'[p] \in Opened \cup {"tables"} => handle'[p] = file'
        BY <1>5 DEF Opening, OpenRepo, UnlinkRepo, CreateRepo, CreateTables,
                    Reopen, Restart, NoRestart, Mark, Load, TypeOK, Opened,
                    OwnFile
    <2>4. pc'[p] = "create" => file' = NoFile
        BY <1>5 DEF Opening, OpenRepo, UnlinkRepo, CreateRepo, CreateTables,
                    Reopen, Restart, NoRestart, Mark, Load, TypeOK
    <2>5. QED
        BY <2>1, <2>2, <2>3, <2>4 DEF OwnFile
<1>6. ASSUME NEW p \in Proc, Applying(p) PROVE OwnFile'
    <2>1. \A q \in Proc : alone'[q] => q = p /\ alone[p]
        BY <1>6, OnlyMine
    <2>2. UNCHANGED <<meta, dig, file, handle, t>> /\ pc[p] \in Opened
        BY <1>6 DEF Applying, Remove, EndRemove, Push, EndPush, Commit, Finish,
                    SetRepoTime, Opened
    <2>3. pc[p] \in Fetched /\ pc'[p] # "create"
        BY <1>6 DEF Applying, Remove, EndRemove, Push, EndPush, Commit, Finish,
                    SetRepoTime, Opened, Fetched, Ready, TypeOK
    <2>4. alone[p] /\ pc'[p] = "meta time" => node'[file].mtime = t[p]
        <3>1. alone[p] => file \in Inode
            BY <2>2 DEF OwnFile, TypeOK
        <3>2. pc'[p] = "meta time" => SetRepoTime(p)
            BY <1>6 DEF Applying, Remove, EndRemove, Push, EndPush, Commit,
                        Finish, TypeOK
        <3>3. alone[p] => [node[file] EXCEPT !.mtime = t[p]].mtime = t[p]
            BY <3>1 DEF TypeOK, Nodes
        <3>4. QED
            BY <3>1, <3>2, <3>3 DEF SetRepoTime
    <2>5. QED
        BY <2>1, <2>2, <2>3, <2>4 DEF OwnFile
<1>7. QED
    BY <1>1, <1>2, <1>3, <1>4, <1>5, <1>6, Cases DEF Next

\* Every change of a file is noted.
LEMMA NextDirty == TypeOK /\ AloneMeansAlone /\ Dirty /\ [Next]_vars => Dirty'
<1> SUFFICES ASSUME TypeOK, AloneMeansAlone, Dirty, [Next]_vars PROVE Dirty'
    OBVIOUS
<1> USE DEF At, Goto, disk, mine, history, Changing, Writing, Ending
<1>1. CASE UNCHANGED vars \/ Publish
    BY <1>1 DEF vars, Publish, Dirty
<1>2. ASSUME NEW p \in Proc, Start(p) PROVE Dirty'
    BY <1>2 DEF Start, Dirty, TypeOK
<1>3. ASSUME NEW p \in Proc, Leaving(p) PROVE Dirty'
    <2>1. CASE ReturnOnly(p)
        BY <1>3, <2>1, LeavingFrame DEF ReturnOnly, Untouched, Dirty
    <2>2. CASE SetMetaTime(p)
        <3>1. clean' => alone[p]
            BY <2>2 DEF SetMetaTime
        <3>2. QED
            BY <1>3, <3>1, LeavingFrame DEF Untouched, Dirty, AloneMeansAlone
    <2>3. QED
        BY <1>3, <2>1, <2>2 DEF Leaving
<1>4. ASSUME NEW p \in Proc, Fetching(p) PROVE Dirty'
    <2>1. /\ clean' = clean \/ clean' = FALSE
          /\ pc'[p] \in Changing => pc[p] \in Changing \/ clean' = FALSE
        BY <1>4 DEF Fetching, KeepMeta, UnlinkMeta, WriteMeta, LoadMeta,
                    RefuseMeta, FetchDigests, FetchManifest, TypeOK
    <2>2. QED
        BY <1>4, <2>1, FetchingFrame DEF Untouched, Dirty
<1>5. ASSUME NEW p \in Proc, Opening(p) PROVE Dirty'
    <2>1. /\ clean' = clean \/ clean' = FALSE
          /\ pc'[p] \in Changing => pc[p] \in Changing \/ clean' = FALSE
        BY <1>5 DEF Opening, OpenRepo, UnlinkRepo, CreateRepo, CreateTables,
                    Reopen, Restart, NoRestart, Mark, Load, TypeOK
    <2>2. QED
        BY <1>5, <2>1, OpeningFrame DEF Untouched, Dirty
<1>6. ASSUME NEW p \in Proc, Applying(p) PROVE Dirty'
    <2>1. clean' = clean /\ pc[p] \in Changing
        BY <1>6 DEF Applying, Remove, EndRemove, Push, EndPush, Commit, Finish,
                    SetRepoTime
    <2>2. QED
        BY <1>6, <2>1, ApplyingFrame DEF Untouched, Dirty
<1>7. QED
    BY <1>1, <1>2, <1>3, <1>4, <1>5, <1>6, Cases DEF Next

---------------------------------------------------------------------------
(* What an update leaves in the database.                                  *)

\* Publications are catalogues.
LEMMA ContentType ==
    ASSUME TypeOK, NEW p \in Proc
    PROVE  Content[dig[p]] \in Catalogue /\ Content[man[p]] \in Catalogue
BY UpdateAssumption DEF TypeOK, Loaded

\* A statement of the transaction changes one package.
LEMMA WriteCurrent ==
    ASSUME TypeOK, NEW p \in Proc, NEW o, NEW c, handle[p] \in Inode,
           Write(p, o, c), handle' = handle
    PROVE  Current(p)' = [Current(p) EXCEPT ![o] = c]
<1>1. writer'[handle[p]] = p
    BY DEF Write, TypeOK
<1>2. view'[p] = [Current(p) EXCEPT ![o] = c]
    BY DEF Write, TypeOK
<1>3. QED
    BY <1>1, <1>2 DEF Current

\* Load computes the difference; each statement makes it smaller.
LEMMA NextDifference ==
    TypeOK /\ AloneMeansAlone /\ WritersWrite /\ Difference /\ [Next]_vars
        => Difference'
<1> SUFFICES ASSUME TypeOK, AloneMeansAlone, WritersWrite, Difference,
                    [Next]_vars
             PROVE  Difference'
    OBVIOUS
<1> USE DEF At, Goto, disk, mine, history
<1>1. CASE UNCHANGED vars \/ Publish
    BY <1>1 DEF vars, Publish, Difference, Current
<1>2. ASSUME NEW p \in Proc, Start(p) PROVE Difference'
    <2>1. \A q \in Proc : alone'[q] => q = p
        BY <1>2, OnlyMine
    <2>2. pc'[p] = "meta"
        BY <1>2 DEF Start, TypeOK
    <2>3. QED
        BY <2>1, <2>2 DEF Difference, Writing
<1>3. ASSUME NEW p \in Proc, Leaving(p) PROVE Difference'
    BY <1>3, OnlyMine DEF Difference
<1>4. ASSUME NEW p \in Proc, Fetching(p) \/ (Opening(p) /\ ~Load(p))
      PROVE  Difference'
    <2>1. \A q \in Proc : alone'[q] => q = p
        BY <1>4, OnlyMine
    <2>2. pc'[p] \notin Writing
        BY <1>4 DEF Fetching, KeepMeta, UnlinkMeta, WriteMeta, LoadMeta,
                    RefuseMeta, FetchDigests, FetchManifest,
                    Opening, OpenRepo, UnlinkRepo, CreateRepo, CreateTables,
                    Reopen, Restart, NoRestart, Mark, TypeOK, Writing
    <2>3. QED
        BY <2>1, <2>2 DEF Difference
<1>5. ASSUME NEW p \in Proc, Load(p) PROVE Difference'
    <2>1. \A q \in Proc : alone'[q] => q = p
        BY <1>5, OnlyMine DEF Opening
    <2>2. handle[p] \in Inode /\ writer[handle[p]] # p
        BY <1>5 DEF Load, TypeOK, WritersWrite, Writing, Opened
    <2>3. Current(p)' = node[handle[p]].pkgs
        BY <1>5, <2>2 DEF Load, Current
    <2>4. /\ ldel'[p] = {o \in Origin : /\ node[handle[p]].pkgs[o] # NoPkg
                                        /\ Content[dig[p]][o] = NoPkg}
          /\ ladd'[p] = {o \in Origin : /\ Content[dig[p]][o] # NoPkg
                                        /\ node[handle[p]].pkgs[o]
                                             # Content[dig[p]][o]}
          /\ dig' = dig /\ pc'[p] = "remove"
        BY <1>5 DEF Load, TypeOK
    <2>5. QED
        BY <2>1, <2>3, <2>4 DEF Difference
<1>6. ASSUME NEW p \in Proc, Applying(p) PROVE Difference'
    <2>1. \A q \in Proc : alone'[q] => q = p /\ alone[p]
        BY <1>6, OnlyMine
    <2> SUFFICES ASSUME alone[p]
                 PROVE  pc'[p] \in Writing =>
                          /\ \A o \in Origin :
                             /\ (dig'[p] = man'[p]
                                   /\ o \notin ldel'[p] \cup ladd'[p]) =>
                                  Current(p)'[o] = Content[dig'[p]][o]
                             /\ o \in ldel'[p] => Content[dig'[p]][o] = NoPkg
                             /\ o \in ladd'[p] => Content[dig'[p]][o] # NoPkg
                          /\ pc'[p] \in {"push", "commit"} => ldel'[p] = {}
                          /\ pc'[p] = "commit" =>
                               ladd'[p] = {} \/ Content[man'[p]] = Empty
        BY <2>1 DEF Difference
    <2>2. CASE Remove(p)
        <3>1. PICK o \in ldel[p] : /\ Write(p, o, NoPkg)
                                   /\ ldel' = [ldel EXCEPT ![p] = @ \ {o}]
            BY <2>2 DEF Remove
        <3>2. /\ UNCHANGED <<pc, dig, man, handle, ladd>> /\ pc[p] = "remove"
              /\ ldel'[p] = ldel[p] \ {o}
            BY <2>2, <3>1 DEF Remove, TypeOK
        <3>3. handle[p] \in Inode /\ o \in Origin
            BY <3>2 DEF TypeOK, Opened
        <3>4. Current(p) \in Catalogue
            BY <3>3, CurrentType
        <3>5. Current(p)' = [Current(p) EXCEPT ![o] = NoPkg]
            BY <3>1, <3>2, <3>3, WriteCurrent
        <3>6. QED
            BY <3>2, <3>3, <3>4, <3>5 DEF Difference, Writing, Catalogue
    <2>3. CASE Push(p)
        <3>1. PICK o \in ladd[p] : \E c \in Manifest(p, o) :
                  /\ Write(p, o, c)
                  /\ ladd' = [ladd EXCEPT ![p] = @ \ {o}]
            BY <2>3 DEF Push
        <3>2. PICK c \in Manifest(p, o) :
                  /\ Write(p, o, c)
                  /\ ladd' = [ladd EXCEPT ![p] = @ \ {o}]
            BY <3>1
        <3>3. /\ UNCHANGED <<pc, dig, man, handle, ldel>> /\ pc[p] = "push"
              /\ ladd'[p] = ladd[p] \ {o}
            BY <2>3, <3>2 DEF Push, TypeOK
        <3>4. handle[p] \in Inode /\ o \in Origin
            BY <3>3 DEF TypeOK, Opened
        <3>5. Current(p) \in Catalogue
            BY <3>4, CurrentType
        <3>6. Current(p)' = [Current(p) EXCEPT ![o] = c]
            BY <3>2, <3>3, <3>4, WriteCurrent
        <3>7. dig[p] = man[p] => c = Content[dig[p]][o]
            BY <3>2 DEF Manifest
        <3>8. QED
            BY <3>3, <3>4, <3>5, <3>6, <3>7 DEF Difference, Writing, Catalogue
    <2>4. CASE EndRemove(p) \/ EndPush(p)
        <3>1. /\ UNCHANGED <<dig, man, ldel, ladd>> /\ Current(p)' = Current(p)
              /\ pc[p] \in Writing
              /\ ldel[p] = {} \/ pc[p] = "push"
              /\ pc'[p] = "commit" => ladd[p] = {} \/ Content[man[p]] = Empty
            BY <2>4 DEF EndRemove, EndPush, Current, Writing, TypeOK
        <3>2. QED
            BY <3>1 DEF Difference
    <2>5. CASE Commit(p) \/ Finish(p) \/ SetRepoTime(p)
        BY <2>5 DEF Commit, Finish, SetRepoTime, TypeOK, Writing
    <2>6. QED
        BY <1>6, <2>2, <2>3, <2>4, <2>5 DEF Applying
<1>7. QED
    BY <1>1, <1>2, <1>3, <1>4, <1>5, <1>6, Cases DEF Next

\* What Commit makes of the database, if the update is alone.
LEMMA CommitExact ==
    ASSUME TypeOK, OwnFile, Difference, NEW p \in Proc, Commit(p), alone[p],
           dig[p] = man[p]
    PROVE  /\ file' = file /\ file \in Inode
           /\ node'[file].pkgs = Content[dig[p]]
<1>1. pc[p] = "commit" /\ file' = file
      /\ node' = [node EXCEPT ![handle[p]].pkgs = Current(p),
                              ![handle[p]].mtime =
                                  IF writer[handle[p]] = p THEN served ELSE @]
    BY DEF Commit, At
<1>2. handle[p] = file /\ file \in Inode
    BY <1>1 DEF OwnFile, TypeOK, Opened
<1>3. ldel[p] = {} /\ ladd[p] = {}
    <2>1. \A o \in Origin : o \in ladd[p] => Content[dig[p]][o] # NoPkg
        BY <1>1 DEF Difference, Writing
    <2>2. Content[man[p]] = Empty => ladd[p] = {}
        <3>1. ladd[p] \subseteq Origin
            BY DEF TypeOK
        <3>2. \A o \in Origin : Empty[o] = NoPkg
            BY DEF Empty
        <3>3. QED
            BY <2>1, <3>1, <3>2
    <2>3. QED
        BY <1>1, <2>2 DEF Difference, Writing
<1>4. \A o \in Origin : Current(p)[o] = Content[dig[p]][o]
    BY <1>1, <1>3 DEF Difference, Writing
<1>5. Current(p) \in Catalogue /\ Content[dig[p]] \in Catalogue
    BY <1>2, CurrentType, ContentType
<1>6. Current(p) = Content[dig[p]]
    BY <1>4, <1>5 DEF Catalogue
<1>7. node \in [Inode -> Nodes]
    BY DEF TypeOK
<1>8. node'[file].pkgs = Current(p)
    BY <1>1, <1>2, <1>7 DEF Nodes
<1>9. QED
    BY <1>1, <1>2, <1>6, <1>8

\* Commit makes the database exact, and nothing changes it afterwards.
LEMMA NextExact ==
    TypeOK /\ AloneMeansAlone /\ OwnFile /\ Difference /\ ExactToTheEnd
    /\ [Next]_vars => ExactToTheEnd'
<1> SUFFICES ASSUME TypeOK, AloneMeansAlone, OwnFile, Difference,
                    ExactToTheEnd, [Next]_vars
             PROVE  ExactToTheEnd'
    OBVIOUS
<1> USE DEF At, Goto, disk, mine, history
<1>1. CASE UNCHANGED vars \/ Publish
    BY <1>1 DEF vars, Publish, ExactToTheEnd
<1>2. ASSUME NEW p \in Proc, Start(p) PROVE ExactToTheEnd'
    <2>1. \A q \in Proc : alone'[q] => q = p
        BY <1>2, OnlyMine
    <2>2. pc'[p] = "meta"
        BY <1>2 DEF Start, TypeOK
    <2>3. QED
        BY <2>1, <2>2 DEF ExactToTheEnd, Ending
<1>3. ASSUME NEW p \in Proc, Leaving(p) PROVE ExactToTheEnd'
    BY <1>3, OnlyMine DEF ExactToTheEnd
<1>4. ASSUME NEW p \in Proc, Fetching(p) \/ Opening(p) PROVE ExactToTheEnd'
    <2>1. \A q \in Proc : alone'[q] => q = p
        BY <1>4, OnlyMine
    <2>2. pc'[p] \notin Ending
        BY <1>4 DEF Fetching, KeepMeta, UnlinkMeta, WriteMeta, LoadMeta,
                    RefuseMeta, FetchDigests, FetchManifest,
                    Opening, OpenRepo, UnlinkRepo, CreateRepo, CreateTables,
                    Reopen, Restart, NoRestart, Mark, Load, TypeOK, Ending
    <2>3. QED
        BY <2>1, <2>2 DEF ExactToTheEnd
<1>5. ASSUME NEW p \in Proc, Applying(p) PROVE ExactToTheEnd'
    <2>1. \A q \in Proc : alone'[q] => q = p /\ alone[p]
        BY <1>5, OnlyMine
    <2>2. CASE Commit(p)
        <3>1. dig' = dig /\ man' = man
            BY <2>2 DEF Commit
        <3>2. QED
            BY <2>1, <2>2, <3>1, CommitExact DEF ExactToTheEnd
    <2>3. CASE Finish(p) \/ SetRepoTime(p)
        <3>1. /\ UNCHANGED <<dig, man, file, handle>>
              /\ pc[p] \in Ending \cap Opened
            BY <2>3 DEF Finish, SetRepoTime, Ending, Opened
        <3>2. alone[p] => file \in Inode
            BY <3>1 DEF OwnFile, TypeOK
        <3>3. alone[p] => node'[file].pkgs = node[file].pkgs
            <4>1. node \in [Inode -> Nodes]
                BY DEF TypeOK
            <4>2. handle[p] \in Inode
                BY <3>1 DEF TypeOK
            <4>3. CASE Finish(p)
                BY <3>2, <4>1, <4>2, <4>3 DEF Finish, Nodes
            <4>4. CASE SetRepoTime(p)
                BY <3>2, <4>1, <4>4 DEF SetRepoTime, Nodes
            <4>5. QED
                BY <2>3, <4>3, <4>4
        <3>4. QED
            BY <2>1, <3>1, <3>3 DEF ExactToTheEnd
    <2>4. CASE Remove(p) \/ EndRemove(p) \/ Push(p) \/ EndPush(p)
        <3>1. pc'[p] \notin Ending
            BY <2>4 DEF Remove, EndRemove, Push, EndPush, TypeOK, Ending
        <3>2. QED
            BY <2>1, <3>1 DEF ExactToTheEnd
    <2>5. QED
        BY <1>5, <2>2, <2>3, <2>4 DEF Applying
<1>6. QED
    BY <1>1, <1>2, <1>3, <1>4, <1>5, Cases DEF Next

\* The catalogue that has the name changes only when it is created and when a
\* transaction is committed.
LEMMA PkgsKept ==
    ASSUME TypeOK, NEW p \in Proc,
           Start(p) \/ Fetching(p) \/ Opening(p) \/ Applying(p) \/ Leaving(p),
           ~CreateRepo(p), ~Commit(p)
    PROVE  /\ served' = served /\ whole' = whole
           /\ file' = file \/ file' = NoFile
           /\ \A i \in Inode : node'[i].pkgs = node[i].pkgs
<1> USE DEF At, Goto, disk, mine, history
<1>1. node \in [Inode -> Nodes]
    BY DEF TypeOK
<1>2. CASE CreateTables(p) \/ Restart(p) \/ Mark(p) \/ Finish(p)
    <2>1. handle[p] \in Inode
        BY <1>2 DEF CreateTables, Restart, Mark, Finish, TypeOK, Opened
    <2>2. CASE CreateTables(p) \/ Restart(p)
        BY <1>1, <2>1, <2>2 DEF CreateTables, Restart, Nodes
    <2>3. CASE Mark(p)
        <3>1. \/ node' = node
              \/ node' = [node EXCEPT ![handle[p]].mark = TRUE,
                                      ![handle[p]].mtime = served]
            BY <2>3 DEF Mark
        <3>2. QED
            <4>1. \A i \in Inode : node'[i].pkgs = node[i].pkgs
                BY <1>1, <2>1, <3>1 DEF Nodes
            <4>2. QED
                BY <2>3, <4>1 DEF Mark
    <2>4. CASE Finish(p)
        BY <1>1, <2>1, <2>4 DEF Finish, Nodes
    <2>5. QED
        BY <1>2, <2>2, <2>3, <2>4
<1>3. CASE SetRepoTime(p)
    BY <1>1, <1>3 DEF SetRepoTime, Nodes
<1>4. CASE Start(p) \/ Leaving(p) \/ Fetching(p)
    BY <1>4 DEF Start, Leaving, ReturnOnly, SetMetaTime, Fetching, KeepMeta,
                UnlinkMeta, WriteMeta, LoadMeta, RefuseMeta, FetchDigests,
                FetchManifest
<1>5. CASE \/ OpenRepo(p) \/ UnlinkRepo(p) \/ Reopen(p) \/ NoRestart(p)
           \/ Load(p) \/ Remove(p) \/ EndRemove(p) \/ Push(p) \/ EndPush(p)
    BY <1>5 DEF OpenRepo, UnlinkRepo, Reopen, NoRestart, Load, Remove,
                EndRemove, Push, EndPush
<1>6. QED
    BY <1>2, <1>3, <1>4, <1>5 DEF Opening, Applying

\* No step leaves half a catalogue.
LEMMA NextWhole ==
    TypeOK /\ InThePast /\ OwnFile /\ Difference /\ CatalogueWhole /\ [Next]_vars
        => CatalogueWhole'
<1> SUFFICES ASSUME TypeOK, InThePast, OwnFile, Difference, CatalogueWhole,
                    [Next]_vars
             PROVE  CatalogueWhole'
    OBVIOUS
<1>1. CASE UNCHANGED vars
    BY <1>1 DEF vars, disk, history, CatalogueWhole
<1>2. CASE Publish
    <2>1. /\ UNCHANGED <<file, node, whole>>
          /\ served' = served + 1
        BY <1>2 DEF Publish, disk, history
    <2>2. \A v \in 1..served : v \in 1..served'
        BY <2>1, Times
    <2>3. QED
        BY <2>1, <2>2 DEF CatalogueWhole
<1>3. ASSUME NEW p \in Proc, CreateRepo(p) PROVE CatalogueWhole'
    <2>1. PICK i \in Inode :
              /\ node' = [node EXCEPT ![i] =
                            [pkgs |-> Empty, mark |-> FALSE,
                             mtime |-> served, ready |-> FALSE]]
              /\ file' = i
        BY <1>3 DEF CreateRepo
    <2>2. node'[file'].pkgs = Empty
        BY <2>1 DEF TypeOK
    <2>3. Empty' = Empty
        BY DEF Empty
    <2>4. QED
        BY <2>2, <2>3 DEF CatalogueWhole
<1>4. ASSUME NEW p \in Proc, Commit(p) PROVE CatalogueWhole'
    <2>1. (whole' => alone[p] /\ dig[p] = man[p]) /\ served' = served
        BY <1>4 DEF Commit
    <2>2. dig[p] \in 1..served
        <3>1. dig[p] \in 1..Published /\ dig[p] <= served
            BY DEF InThePast, TypeOK, Loaded
        <3>2. QED
            BY <3>1, Bounds, Times
    <2>3. QED
        BY <1>4, <2>1, <2>2, CommitExact DEF CatalogueWhole
<1>5. ASSUME NEW p \in Proc,
             Start(p) \/ Fetching(p) \/ Opening(p) \/ Applying(p) \/ Leaving(p),
             ~CreateRepo(p), ~Commit(p)
      PROVE  CatalogueWhole'
    <2>1. file \in Inode \cup {NoFile}
        BY DEF TypeOK
    <2>2. QED
        BY <1>5, <2>1, PkgsKept DEF CatalogueWhole
<1>6. QED
    BY <1>1, <1>2, <1>3, <1>4, <1>5, Cases DEF Next

\* The last step of an update makes the times tell the truth.
LEMMA NextTimes ==
    TypeOK /\ DigestTime /\ InThePast /\ AloneMeansAlone /\ OwnFile
    /\ ExactToTheEnd /\ Dirty /\ TimesTell /\ [Next]_vars
        => TimesTell'
<1> SUFFICES ASSUME TypeOK, DigestTime, InThePast, AloneMeansAlone, OwnFile,
                    ExactToTheEnd, Dirty, TimesTell, [Next]_vars
             PROVE  TimesTell'
    OBVIOUS
<1> USE DEF At, Goto, disk, mine, history
<1>1. CASE UNCHANGED vars
    BY <1>1 DEF vars, TimesTell, Openable, LocalTime, IsUpToDate
<1>2. CASE Publish
    <2>1. UNCHANGED <<meta, file, node, pc, t>> /\ served' = served + 1
        BY <1>2 DEF Publish
    <2>2. Openable => LocalTime <= served /\ LocalTime \in Nat
        <3>1. meta \in Loaded => meta \in Nat
            BY Bounds DEF Loaded
        <3>2. QED
            BY <3>1, Times DEF Openable, LocalTime, InThePast, TypeOK
    <2>3. Openable' = Openable /\ LocalTime' = LocalTime
        BY <2>1 DEF Openable, LocalTime
    <2>4. Openable => LocalTime' # served'
        BY <2>1, <2>2, <2>3, Times
    <2>5. \A p \in Proc : t'[p] # served'
        BY <2>1, Times DEF InThePast
    <2>6. QED
        BY <2>3, <2>4, <2>5 DEF TimesTell
<1>3. ASSUME NEW p \in Proc, Start(p) PROVE TimesTell'
    <2>1. /\ UNCHANGED <<served, meta, file, node, clean>>
          /\ \A q \in Proc \ {p} : t'[q] = t[q] /\ pc'[q] = pc[q]
          /\ t'[p] \in {0, LocalTime}
          /\ t'[p] = LocalTime => t'[p] = 0 \/ Openable
        BY <1>3 DEF Start, TypeOK
    <2>2. served # 0
        BY Times
    <2>3. clean /\ t'[p] = served => IsUpToDate
        BY <2>1, <2>2 DEF TimesTell, Openable, IsUpToDate
    <2>4. QED
        BY <2>1, <2>3 DEF TimesTell, Openable, LocalTime, IsUpToDate
<1>4. ASSUME NEW p \in Proc, ReturnOnly(p) PROVE TimesTell'
    BY <1>4 DEF ReturnOnly, Return, TypeOK, TimesTell, Openable, LocalTime,
                IsUpToDate
<1>5. ASSUME NEW p \in Proc, SetMetaTime(p) PROVE TimesTell'
    <2>1. /\ UNCHANGED <<served, file, node>> /\ clean' = alone[p]
          /\ meta' = IF got[p] /\ meta \in Loaded THEN t[p] ELSE meta
          /\ pc[p] = "meta time" /\ pc'[p] = "idle"
          /\ \A q \in Proc \ {p} : pc'[q] = pc[q]
        BY <1>5 DEF SetMetaTime, Return, TypeOK
    <2> SUFFICES ASSUME alone[p]
                 PROVE  TimesTell'
        BY <2>1 DEF TimesTell
    <2>2. \A q \in Proc : pc'[q] = "idle"
        BY <2>1 DEF AloneMeansAlone
    <2>3. t[p] = dig[p] /\ dig[p] <= man[p] /\ node[file].mtime = dig[p]
        BY <2>1 DEF DigestTime, InThePast, OwnFile, Ready, Opened
    <2>4. meta \in Loaded => meta <= dig[p]
        BY <2>1 DEF OwnFile, Fetched, Ready, Opened
    <2>5. Openable' /\ LocalTime' = served => dig[p] = served /\ man[p] = served
        <3>1. meta \in Loaded => meta \in Nat
            BY Bounds DEF Loaded
        <3>2. Openable' => LocalTime' \in Nat /\ LocalTime' <= dig[p]
            <4>1. meta \in Loaded \cup {Absent, Broken}
                BY DEF TypeOK
            <4>2. Openable' => meta' # Broken
                BY DEF Openable, Broken
            <4>3. LocalTime' = IF meta' # Absent THEN meta' ELSE node[file].mtime
                BY <2>1 DEF LocalTime, Absent
            <4>4. dig[p] \in Nat /\ dig[p] <= dig[p]
                BY Times
            <4>5. Openable' => \/ meta' \in {dig[p], Absent}
                               \/ meta' = meta /\ meta \in Loaded
                BY <2>1, <2>3, <4>1, <4>2
            <4>6. QED
                BY <2>3, <2>4, <3>1, <4>3, <4>4, <4>5
        <3>3. dig[p] <= served /\ man[p] <= served
            BY DEF InThePast
        <3>4. QED
            BY <2>3, <3>2, <3>3, Times
    <2>6. dig[p] = man[p] => node[file].pkgs = Content[dig[p]]
        BY <2>1 DEF ExactToTheEnd, Ending
    <2>7. QED
        BY <2>1, <2>2, <2>5, <2>6 DEF TimesTell
<1>6. ASSUME NEW p \in Proc, Fetching(p) PROVE TimesTell'
    <2>1. \/ clean' = FALSE
          \/ /\ UNCHANGED <<served, meta, file, node, clean>>
             /\ \/ t' = t /\ pc[p] = "meta"
                \/ pc'[p] \notin {"meta", "digests"}
        BY <1>6 DEF Fetching, KeepMeta, UnlinkMeta, WriteMeta, LoadMeta,
                    RefuseMeta, FetchDigests, FetchManifest, TypeOK, Dirty,
                    Changing
    <2>2. QED
        BY <1>6, <2>1, FetchingFrame
        DEF Untouched, TimesTell, Openable, LocalTime, IsUpToDate
<1>7. ASSUME NEW p \in Proc, Opening(p) \/ Applying(p) PROVE TimesTell'
    <2>1. \/ clean' = FALSE
          \/ /\ UNCHANGED <<served, meta, file, node, clean>>
             /\ pc'[p] \notin {"meta", "digests"}
        BY <1>7 DEF Opening, OpenRepo, UnlinkRepo, CreateRepo, CreateTables,
                    Reopen, Restart, NoRestart, Mark, Load,
                    Applying, Remove, EndRemove, Push, EndPush, Commit, Finish,
                    SetRepoTime, TypeOK, Dirty, Changing, Writing, Ending
    <2>2. QED
        BY <1>7, <2>1, OpeningFrame, ApplyingFrame
        DEF Untouched, TimesTell, Openable, LocalTime, IsUpToDate
<1>8. QED
    BY <1>1, <1>2, <1>3, <1>4, <1>5, <1>6, <1>7, Cases DEF Next, Leaving

---------------------------------------------------------------------------
(* The theorems.                                                           *)

IInv ==
    /\ TypeOK /\ DigestTime /\ InThePast /\ AloneMeansAlone /\ WritersWrite
    /\ OwnFile /\ Difference /\ ExactToTheEnd /\ CatalogueWhole /\ Dirty
    /\ TimesTell

\* The invariant holds at first,
LEMMA InitIInv == Init => IInv
<1> SUFFICES ASSUME Init PROVE IInv
    OBVIOUS
<1> USE DEF Init
<1>1. TypeOK
    BY InitType
<1>2. DigestTime /\ AloneMeansAlone /\ OwnFile /\ Difference /\ ExactToTheEnd
    BY DEF DigestTime, AloneMeansAlone, OwnFile, Difference, ExactToTheEnd,
           Ready, Opened
<1>3. WritersWrite
    BY UpdateAssumption DEF WritersWrite
<1>4. Dirty
    BY DEF Dirty, Changing, Writing, Ending
<1>5. InThePast
    BY Bounds DEF InThePast, Ready, Opened, Absent
<1>6. CatalogueWhole
    <2>1. 1 \in 1..served
        OBVIOUS
    <2>2. file # NoFile => node[file].pkgs = Content[1]
        OBVIOUS
    <2>3. QED
        BY <2>1, <2>2 DEF CatalogueWhole
<1>7. TimesTell
    <2>1. file # NoFile => node[file].pkgs = Content[1]
        OBVIOUS
    <2>2. QED
        BY <2>1 DEF TimesTell, Openable
<1>8. QED
    BY <1>1, <1>2, <1>3, <1>4, <1>5, <1>6, <1>7 DEF IInv

\* and always.
LEMMA Inductive == Spec => []IInv
<1>1. IInv /\ [Next]_vars => IInv'
    BY NextType, NextDigestTime, NextPast, NextAlone, NextWriters, NextOwnFile,
       NextDifference, NextExact, NextWhole, NextDirty, NextTimes DEF IInv
<1>2. QED
    BY <1>1, InitIInv, PTL DEF Spec

\* Every process that works on the database has one, and times are those of
\* publications: the update never touches a database it could not open.
THEOREM TypeCorrect == Spec => []TypeOK
<1>1. IInv => TypeOK
    BY DEF IInv
<1>2. QED
    BY <1>1, Inductive, PTL

\* An update that fails or dies leaves no part of its work, for any
\* publications and however many processes update.
THEOREM NoHalfUpdate == Spec => []CatalogueWhole
<1>1. IInv => CatalogueWhole
    BY DEF IInv
<1>2. QED
    BY <1>1, Inductive, PTL

\* The incremental update of a process that ran alone computes exactly the
\* catalogue it fetched, from whatever database.
THEOREM ExactUpdate == Spec => []UpdateIsExact
<1>1. IInv => UpdateIsExact
    BY DEF IInv, OwnFile, ExactToTheEnd, UpdateIsExact, At, Opened, Ending
<1>2. QED
    BY <1>1, Inductive, PTL

\* "up-to-date" is said of the published catalogue, unless an update that did
\* not end well left its traces.
THEOREM TruthfulUpToDate == Spec => []UpToDateIsCurrent
<1>1. IInv => UpToDateIsCurrent
    <2> SUFFICES ASSUME IInv, clean, NEW p \in Proc, At(p, "digests"), ~Newer(p)
                 PROVE  IsUpToDate
        BY DEF UpToDateIsCurrent, SaysUpToDate
    <2>1. TypeOK /\ t[p] <= served /\ ~(served > t[p])
        BY DEF IInv, InThePast, Newer
    <2>2. t[p] = served
        BY <2>1, Times
    <2>3. QED
        BY <2>2 DEF IInv, TimesTell, At
<1>2. QED
    BY <1>1, Inductive, PTL
=============================================================================
