--------------------------- MODULE SchemaProofs ----------------------------
(***************************************************************************)
(* Proofs about RepoSchema and PkgdbSchema, for any number of commands,    *)
(* opens and deaths.  Of the scripts they use what ScriptFacts says.       *)
(***************************************************************************)
EXTENDS ScriptFacts, TLAPS

----------------------------------------------------------------------------
(* The database of a repository.                                           *)

RepoCommand ==
    [pc : {"idle", "check", "change", "open", "schema", "refused", "create", "repodata",
           "again"},
     write : BOOLEAN, made : BOOLEAN, version : Nat, inode : Nat, opens : Nat]

RepoTypeOK ==
    /\ rstart \in RepoStarts
    /\ rproc \in [RepoProcs -> RepoCommand]
    /\ inodes \in Nat \ {0}
    /\ rcrashes \in Nat
    /\ repofile # NoFile =>
          /\ repofile = [inode |-> repofile.inode, db |-> repofile.db]
          /\ repofile.inode \in 1..inodes

\* No inode is used twice.
Inodes ==
    /\ \A p \in RepoProcs : rproc[p].inode <= inodes
    /\ \A p \in RepoProcs : rproc[p].pc = "repodata" => rproc[p].inode > 1
    /\ \A p, q \in RepoProcs :
          (rproc[p].pc = "repodata" /\ rproc[q].pc = "repodata"
           /\ rproc[p].inode = rproc[q].inode) => p = q

Upgradable == rstart # NoFile /\ rstart \in OldRepos

\* The first file is in its course, and no command goes on from a version
\* that lies before it or was not reached yet.
InCourse(top) ==
    /\ <<repofile.db, top>> \in RepoCourse(rstart)
    /\ \A p \in RepoProcs : Current(p) =>
          /\ rproc[p].pc = "change" =>
                /\ rproc[p].version \in Grandfathered(rstart)..top
                /\ rproc[p].version < REPO_SCHEMA_VERSION
          /\ rproc[p].pc = "open" => top = REPO_SCHEMA_VERSION
\* A first file of any other version is never opened.
LeftAlone ==
    /\ rstart # NoFile /\ rstart \notin OldRepos
    /\ repofile.db = MadeRepo(rstart)
    /\ \A p \in RepoProcs : Current(p) =>
          /\ rproc[p].pc = "change" => rproc[p].version = 2000
          /\ rproc[p].pc # "open"
\* A file made anew is opened when it has all its tables.
MadeAnew ==
    /\ repofile.db \in {RepoCreated, NewRepo}
    /\ \A p \in RepoProcs : Current(p) =>
          /\ rproc[p].pc # "change"
          /\ rproc[p].pc \in {"check", "open"} => repofile.db = NewRepo
          /\ rproc[p].pc = "repodata" => repofile.db = RepoCreated

RepoFiles ==
    repofile # NoFile =>
        /\ repofile.inode = 1 =>
              \/ Upgradable /\ \E top \in Nat : InCourse(top)
              \/ LeftAlone
        /\ repofile.inode # 1 => MadeAnew

RepoInv == RepoTypeOK /\ Inodes /\ RepoFiles

\* What a step leaves as it is.
RepoOthers(p) == \A q \in RepoProcs \ {p} : rproc'[q] = rproc[q]

LEMMA RepoVersions ==
    ASSUME NEW s \in Nat, s \notin 2002..2009
    PROVE  MadeRepo(s).version = s /\ ~Failed(MadeRepo(s)).ok
<1> DEFINE db == [(IF s < 2002 THEN Repo2001 ELSE NewRepo) EXCEPT !.version = s]
<1>1. MadeRepo(s) = [db EXCEPT !.data = {<<x[1], x[2], x>> : x \in db.cols}]
  BY DEF MadeRepo, Filled
<1>2. IsDatabase(db)
  BY RepoFirst DEF IsDatabase
<1>3. db.version = s
  BY RepoFirst DEF IsDatabase
<1> HIDE DEF db
<1>4. MadeRepo(s).version = s /\ "ok" \in DOMAIN MadeRepo(s)
  BY <1>1, <1>2, <1>3 DEF IsDatabase
<1>5. \A d : "ok" \in DOMAIN d => Failed(d).ok = FALSE
  BY DEF Failed
<1> QED
  BY <1>4, <1>5

\* What ScriptFacts says of an element of a course.
LEMMA RepoCourseFacts ==
    ASSUME NEW s \in OldRepos, NEW db, NEW top, <<db, top>> \in RepoCourse(s)
    PROVE  /\ top \in Grandfathered(s)..REPO_SCHEMA_VERSION
           /\ Grandfathered(db.version) \in Grandfathered(s)..top
           /\ top = REPO_SCHEMA_VERSION => Covers(db, NewRepo)
           /\ MadeRepo(s).cols \subseteq Kept(db)
<1> DEFINE x == <<db, top>>
<1>1. RepoLeadsOn(s, x, RepoCourse(s)) /\ RepoGoesThrough(s, x)
  BY RepoScriptsLead
<1>2. x[1] = db /\ x[2] = top
  OBVIOUS
<1> HIDE DEF x
<1> QED
  BY <1>1, <1>2 DEF RepoLeadsOn, RepoGoesThrough

LEMMA RepoCourseGoesOn ==
    ASSUME NEW s \in OldRepos, NEW db, NEW top, <<db, top>> \in RepoCourse(s),
           NEW v \in Grandfathered(s)..top, v < REPO_SCHEMA_VERSION, Changed(db, v).ok
    PROVE  <<Changed(db, v), Higher(top, v + 1)>> \in RepoCourse(s)
<1> DEFINE x == <<db, top>>
<1>1. RepoLeadsOn(s, x, RepoCourse(s))
  BY RepoScriptsLead
<1>2. x[1] = db /\ x[2] = top
  OBVIOUS
<1> HIDE DEF x
<1> QED
  BY <1>1, <1>2 DEF RepoLeadsOn

LEMMA OldRepoNumbers ==
    \A s \in OldRepos : s \in Nat /\ Grandfathered(s) \in 2001..2010
BY DEF OldRepos, Grandfathered, REPO_SCHEMA_VERSION

LEMMA RepoInitial == RepoInit => RepoInv
<1> SUFFICES ASSUME RepoInit PROVE RepoInv
  OBVIOUS
<1> USE DEF RepoInit
<1>1. \A p \in RepoProcs : rproc[p] = Idle(0)
  OBVIOUS
<1>2. Idle(0) \in RepoCommand /\ Idle(0).pc = "idle" /\ Idle(0).inode = 0
  BY DEF Idle, RepoCommand
<1>3. RepoTypeOK
  BY <1>2 DEF RepoTypeOK
<1>4. Inodes
  BY <1>1, <1>2 DEF Inodes
<1>5. RepoFiles
  <2> SUFFICES ASSUME repofile # NoFile
               PROVE  /\ repofile.inode = 1
                      /\ \/ Upgradable /\ \E top \in Nat : InCourse(top)
                         \/ LeftAlone
    BY DEF RepoFiles
  <2>1. rstart # NoFile /\ repofile.inode = 1 /\ repofile.db = MadeRepo(rstart)
    OBVIOUS
  <2>2. \A p \in RepoProcs : rproc[p].pc = "idle"
    BY <1>1, <1>2
  <2>3. CASE rstart \in OldRepos
    <3>1. <<repofile.db, Grandfathered(rstart)>> \in RepoCourse(rstart)
      BY <2>1, <2>3, RepoScriptsLead
    <3>2. Grandfathered(rstart) \in Nat
      BY <2>3, OldRepoNumbers
    <3>3. InCourse(Grandfathered(rstart))
      BY <2>2, <3>1 DEF InCourse
    <3> QED
      BY <2>1, <2>3, <3>2, <3>3 DEF Upgradable
  <2>4. CASE rstart \notin OldRepos
    BY <2>1, <2>2, <2>4 DEF LeftAlone
  <2> QED
    BY <2>1, <2>3, <2>4
<1> QED
  BY <1>3, <1>4, <1>5 DEF RepoInv

\* A command goes where no file in its course can be touched, or closes.
Away(p) ==
    /\ rproc'[p] \in RepoCommand /\ rproc'[p].pc # "repodata"
    /\ rproc'[p].inode <= inodes'

\* A command that has opened the file, or goes away from it.
Harmless(p) ==
    Current(p)' =>
        /\ rproc'[p].pc \notin {"change", "repodata"}
        /\ rproc'[p].pc = "open" => repofile.inode # 1
        /\ (rproc'[p].pc \in {"check", "open"} /\ repofile.inode # 1) => repofile.db = NewRepo

\* Commands and inodes, in a step that makes no file.
LEMMA InodesStay ==
    ASSUME RepoTypeOK, Inodes, NEW p \in RepoProcs, RepoOthers(p), Away(p),
           DOMAIN rproc' = RepoProcs, rproc' = [q \in RepoProcs |-> rproc'[q]],
           inodes' = inodes
    PROVE  rproc' \in [RepoProcs -> RepoCommand] /\ Inodes'
<1>1. \A q \in RepoProcs : rproc'[q] \in RepoCommand
  BY DEF RepoTypeOK, RepoOthers, Away
<1>2. rproc' \in [RepoProcs -> RepoCommand]
  BY <1>1
<1>3. Inodes'
  <2>1. \A q \in RepoProcs : rproc'[q].inode <= inodes
    BY DEF Inodes, RepoOthers, Away
  <2>2. \A q \in RepoProcs : rproc'[q].pc = "repodata" => q # p /\ rproc[q].pc = "repodata"
    BY DEF RepoOthers, Away
  <2>3. \A q \in RepoProcs : q # p => rproc'[q].inode = rproc[q].inode
    BY DEF RepoOthers
  <2> QED
    BY <2>1, <2>2, <2>3 DEF Inodes
<1> QED
  BY <1>2, <1>3

\* A step that leaves the file as it is.
LEMMA FileStays ==
    ASSUME RepoInv, NEW p \in RepoProcs, RepoOthers(p), Away(p), Harmless(p),
           DOMAIN rproc' = RepoProcs, rproc' = [q \in RepoProcs |-> rproc'[q]],
           rstart' = rstart, repofile' = repofile, inodes' = inodes, rcrashes' \in Nat
    PROVE  RepoInv'
<1> USE DEF RepoInv
<1>1. rproc' \in [RepoProcs -> RepoCommand] /\ Inodes'
  BY InodesStay
<1>2. RepoTypeOK'
  BY <1>1 DEF RepoTypeOK
<1>3. \A q \in RepoProcs : q # p => (Current(q)' <=> Current(q))
  BY DEF Current, RepoOthers
<1>4. RepoFiles'
  <2> SUFFICES ASSUME repofile # NoFile
               PROVE  /\ repofile.inode = 1 =>
                            \/ Upgradable' /\ \E top \in Nat : InCourse(top)'
                            \/ LeftAlone'
                      /\ repofile.inode # 1 => MadeAnew'
    BY DEF RepoFiles
  <2>1. ASSUME repofile.inode = 1, Upgradable, NEW top \in Nat, InCourse(top)
        PROVE  Upgradable' /\ InCourse(top)'
    <3>1. Upgradable'
      BY <2>1 DEF Upgradable
    <3>2. <<repofile'.db, top>> \in RepoCourse(rstart')
      BY <2>1 DEF InCourse
    <3>3. ASSUME NEW q \in RepoProcs, Current(q)'
          PROVE  /\ rproc'[q].pc = "change" =>
                       /\ rproc'[q].version \in Grandfathered(rstart')..top
                       /\ rproc'[q].version < REPO_SCHEMA_VERSION
                 /\ rproc'[q].pc = "open" => top = REPO_SCHEMA_VERSION
      <4>1. CASE q = p
        BY <2>1, <3>3, <4>1 DEF Harmless
      <4>2. CASE q # p
        BY <1>3, <2>1, <3>3, <4>2 DEF InCourse, RepoOthers
      <4> QED
        BY <4>1, <4>2
    <3> QED
      BY <3>1, <3>2, <3>3 DEF InCourse
  <2>2. ASSUME repofile.inode = 1, LeftAlone
        PROVE  LeftAlone'
    <3>1. ASSUME NEW q \in RepoProcs, Current(q)'
          PROVE  /\ rproc'[q].pc = "change" => rproc'[q].version = 2000
                 /\ rproc'[q].pc # "open"
      BY <1>3, <2>2, <3>1 DEF LeftAlone, RepoOthers, Harmless
    <3> QED
      BY <2>2, <3>1 DEF LeftAlone
  <2>3. ASSUME repofile.inode # 1, MadeAnew
        PROVE  MadeAnew'
    <3>1. ASSUME NEW q \in RepoProcs, Current(q)'
          PROVE  /\ rproc'[q].pc # "change"
                 /\ rproc'[q].pc \in {"check", "open"} => repofile.db = NewRepo
                 /\ rproc'[q].pc = "repodata" => repofile.db = RepoCreated
      <4>1. CASE q = p
        BY <2>3, <3>1, <4>1 DEF Harmless
      <4>2. CASE q # p
        BY <1>3, <2>3, <3>1, <4>2 DEF MadeAnew, RepoOthers
      <4> QED
        BY <4>1, <4>2
    <3> QED
      BY <2>3, <3>1 DEF MadeAnew
  <2> QED
    BY <2>1, <2>2, <2>3 DEF RepoFiles
<1> QED
  BY <1>1, <1>2, <1>4

\* A step that unlinks the file.
LEMMA FileGone ==
    ASSUME RepoInv, NEW p \in RepoProcs, RepoOthers(p), Away(p),
           DOMAIN rproc' = RepoProcs, rproc' = [q \in RepoProcs |-> rproc'[q]],
           rstart' = rstart, repofile' = NoFile, inodes' = inodes, rcrashes' \in Nat
    PROVE  RepoInv'
<1>1. rproc' \in [RepoProcs -> RepoCommand] /\ Inodes'
  BY InodesStay DEF RepoInv
<1>2. RepoTypeOK'
  BY <1>1 DEF RepoTypeOK, RepoInv
<1>3. RepoFiles'
  BY DEF RepoFiles
<1> QED
  BY <1>1, <1>2, <1>3 DEF RepoInv

LEMMA RepoCommandType ==
    ASSUME RepoTypeOK, NEW p \in RepoProcs
    PROVE  /\ rproc[p].pc \in {"idle", "check", "change", "open", "schema", "refused",
                               "create", "repodata", "again"}
           /\ rproc[p].write \in BOOLEAN /\ rproc[p].made \in BOOLEAN
           /\ rproc[p].version \in Nat /\ rproc[p].inode \in Nat /\ rproc[p].opens \in Nat
BY DEF RepoTypeOK, RepoCommand

\* A step of one command changes its record only.
LEMMA Only ==
    ASSUME RepoTypeOK, NEW p \in RepoProcs, NEW r,
           rproc' = [rproc EXCEPT ![p] = r]
    PROVE  /\ DOMAIN rproc' = RepoProcs /\ rproc' = [q \in RepoProcs |-> rproc'[q]]
           /\ RepoOthers(p) /\ rproc'[p] = r
BY DEF RepoTypeOK, RepoOthers

\* A command that goes to step pc, and one that starts anew.
LEMMA Going ==
    ASSUME RepoTypeOK, Inodes, NEW p \in RepoProcs, NEW pc, RGoto(p, pc),
           pc \in {"open", "schema", "refused", "create", "again"}, inodes' = inodes
    PROVE  /\ DOMAIN rproc' = RepoProcs /\ rproc' = [q \in RepoProcs |-> rproc'[q]]
           /\ RepoOthers(p) /\ Away(p) /\ rproc'[p].pc = pc
           /\ rproc'[p].inode = rproc[p].inode /\ rproc'[p].version = rproc[p].version
<1> DEFINE r == [rproc[p] EXCEPT !.pc = pc]
<1>1. rproc' = [rproc EXCEPT ![p] = r]
  BY DEF RGoto
<1>2. rproc[p] \in RepoCommand
  BY DEF RepoTypeOK
<1>3. r \in RepoCommand /\ r.pc = pc /\ r.inode = rproc[p].inode /\ r.version = rproc[p].version
  BY <1>2 DEF RepoCommand
<1>4. r.inode <= inodes
  BY <1>3 DEF Inodes
<1> HIDE DEF r
<1>5. /\ DOMAIN rproc' = RepoProcs /\ rproc' = [q \in RepoProcs |-> rproc'[q]]
      /\ RepoOthers(p) /\ rproc'[p] = r
  BY <1>1, Only
<1> QED
  BY <1>3, <1>4, <1>5 DEF Away

LEMMA Idling ==
    ASSUME RepoTypeOK, Inodes, NEW p \in RepoProcs,
           rproc' = [rproc EXCEPT ![p] = Idle(rproc[p].opens)], inodes' = inodes
    PROVE  /\ DOMAIN rproc' = RepoProcs /\ rproc' = [q \in RepoProcs |-> rproc'[q]]
           /\ RepoOthers(p) /\ Away(p) /\ rproc'[p].pc = "idle"
<1> DEFINE r == Idle(rproc[p].opens)
<1>1. rproc[p].opens \in Nat
  BY RepoCommandType
<1>2. r \in RepoCommand /\ r.pc = "idle" /\ r.inode = 0
  BY <1>1 DEF Idle, RepoCommand
<1>3. /\ DOMAIN rproc' = RepoProcs /\ rproc' = [q \in RepoProcs |-> rproc'[q]]
      /\ RepoOthers(p) /\ rproc'[p] = r
  BY Only
<1> QED
  BY <1>2, <1>3 DEF Away, RepoTypeOK

\* What the first and the second open of a file do.
LEMMA Opening ==
    ASSUME RepoInv, NEW p \in RepoProcs, NEW r \in RepoCommand,
           rproc' = [rproc EXCEPT ![p] = r],
           r.pc = IF repofile # NoFile /\ "repodata" \in Tables(repofile.db)
                  THEN "check" ELSE "refused",
           r.inode = IF repofile = NoFile THEN 0 ELSE repofile.inode,
           UNCHANGED <<rstart, repofile, inodes, rcrashes>>
    PROVE  RepoInv'
<1>1. /\ DOMAIN rproc' = RepoProcs /\ rproc' = [q \in RepoProcs |-> rproc'[q]]
      /\ RepoOthers(p) /\ rproc'[p] = r
  BY Only DEF RepoInv
<1>2. r.inode <= inodes
  BY DEF RepoInv, RepoTypeOK
<1>3. Away(p)
  BY <1>1, <1>2 DEF Away
<1>4. r.pc = "check" /\ repofile.inode # 1 => repofile.db = NewRepo
  BY RepoFirst DEF RepoInv, RepoFiles, MadeAnew
<1>5. Harmless(p)
  BY <1>1, <1>4 DEF Harmless
<1> QED
  BY <1>1, <1>3, <1>5, FileStays DEF RepoInv, RepoTypeOK

LEMMA RepoOpenStep ==
    ASSUME RepoInv, NEW p \in RepoProcs, NEW write \in BOOLEAN, RepoOpen(p, write)
    PROVE  RepoInv'
<1> DEFINE r == [Idle(rproc[p].opens + 1) EXCEPT
                    !.pc = IF repofile # NoFile /\ "repodata" \in Tables(repofile.db)
                           THEN "check" ELSE "refused",
                    !.write = write,
                    !.inode = IF repofile = NoFile THEN 0 ELSE repofile.inode]
<1>1. rproc' = [rproc EXCEPT ![p] = r]
  BY DEF RepoOpen
<1>2. rproc[p].opens + 1 \in Nat
  BY RepoCommandType DEF RepoInv
<1>3. repofile # NoFile => repofile.inode \in Nat
  BY DEF RepoInv, RepoTypeOK
<1>4. r \in RepoCommand
  BY <1>2, <1>3 DEF RepoCommand, Idle
<1>5. /\ r.pc = IF repofile # NoFile /\ "repodata" \in Tables(repofile.db)
                THEN "check" ELSE "refused"
      /\ r.inode = IF repofile = NoFile THEN 0 ELSE repofile.inode
  BY DEF Idle
<1> HIDE DEF r
<1> QED
  BY <1>1, <1>4, <1>5, Opening DEF RepoOpen

LEMMA OpenAgainStep ==
    ASSUME RepoInv, NEW p \in RepoProcs, OpenAgain(p)
    PROVE  RepoInv'
<1> DEFINE r == [rproc[p] EXCEPT
                    !.made = TRUE,
                    !.pc = IF repofile # NoFile /\ "repodata" \in Tables(repofile.db)
                           THEN "check" ELSE "refused",
                    !.inode = IF repofile = NoFile THEN 0 ELSE repofile.inode]
<1>1. rproc' = [rproc EXCEPT ![p] = r]
  BY DEF OpenAgain
<1>2. rproc[p] \in RepoCommand
  BY DEF RepoInv, RepoTypeOK
<1>3. repofile # NoFile => repofile.inode \in Nat
  BY DEF RepoInv, RepoTypeOK
<1>4. r \in RepoCommand
  BY <1>2, <1>3 DEF RepoCommand
<1>5. /\ r.pc = IF repofile # NoFile /\ "repodata" \in Tables(repofile.db)
                THEN "check" ELSE "refused"
      /\ r.inode = IF repofile = NoFile THEN 0 ELSE repofile.inode
  BY <1>2 DEF RepoCommand
<1> HIDE DEF r
<1> QED
  BY <1>1, <1>4, <1>5, Opening DEF OpenAgain

LEMMA OnOldFileStep ==
    ASSUME RepoInv, NEW p \in RepoProcs, OnOldFile(p)
    PROVE  RepoInv'
<1>1. PICK pc \in {"open", "schema"} : RGoto(p, pc)
  BY DEF OnOldFile
<1>2. /\ DOMAIN rproc' = RepoProcs /\ rproc' = [q \in RepoProcs |-> rproc'[q]]
      /\ RepoOthers(p) /\ Away(p) /\ rproc'[p].inode = rproc[p].inode
  BY <1>1, Going DEF OnOldFile, RepoInv
<1>3. Harmless(p)
  BY <1>2 DEF Harmless, OnOldFile, Current
<1> QED
  BY <1>2, <1>3, FileStays DEF OnOldFile, RepoInv, RepoTypeOK

LEMMA RepoGivesUp ==
    ASSUME RepoInv, NEW p \in RepoProcs,
           ChangeFails(p) \/ RepoFatal(p) \/ RepoClose(p) \/ RepoCrash(p)
    PROVE  RepoInv'
<1>1. UNCHANGED <<rstart, repofile, inodes>>
  BY DEF ChangeFails, RepoFatal, RepoClose, RepoCrash
<1>2. rcrashes' \in Nat
  BY DEF ChangeFails, RepoFatal, RepoClose, RepoCrash, RepoInv, RepoTypeOK
<1>3. /\ DOMAIN rproc' = RepoProcs /\ rproc' = [q \in RepoProcs |-> rproc'[q]]
      /\ RepoOthers(p) /\ Away(p) /\ rproc'[p].pc \in {"schema", "idle"}
  <2>1. CASE ChangeFails(p)
    BY <1>1, <2>1, Going DEF ChangeFails, RepoInv
  <2>2. CASE RepoFatal(p)
    BY <1>1, <2>2, Idling DEF RepoFatal, RepoInv
  <2>3. CASE RepoClose(p)
    BY <1>1, <2>3, Idling DEF RepoClose, RepoInv
  <2>4. CASE RepoCrash(p)
    BY <1>1, <2>4, Idling DEF RepoCrash, RepoInv
  <2> QED
    BY <2>1, <2>2, <2>3, <2>4
<1>4. Harmless(p)
  BY <1>3 DEF Harmless
<1> QED
  BY <1>1, <1>2, <1>3, <1>4, FileStays

LEMMA SchemaRefusedStep ==
    ASSUME RepoInv, NEW p \in RepoProcs, SchemaRefused(p)
    PROVE  RepoInv'
<1>1. /\ DOMAIN rproc' = RepoProcs /\ rproc' = [q \in RepoProcs |-> rproc'[q]]
      /\ RepoOthers(p) /\ Away(p) /\ rproc'[p].pc = "refused"
  BY Going DEF SchemaRefused, RepoInv
<1>2. UNCHANGED <<rstart, inodes, rcrashes>> /\ rcrashes \in Nat
  BY DEF SchemaRefused, RepoInv, RepoTypeOK
<1>3. CASE repofile' = NoFile
  BY <1>1, <1>2, <1>3, FileGone
<1>4. CASE repofile' = repofile
  <2>1. Harmless(p)
    BY <1>1 DEF Harmless
  <2> QED
    BY <1>1, <1>2, <1>4, <2>1, FileStays
<1> QED
  BY <1>3, <1>4 DEF SchemaRefused

LEMMA UnlinkRepoStep ==
    ASSUME RepoInv, NEW p \in RepoProcs, UnlinkRepo(p)
    PROVE  RepoInv'
<1>1. /\ DOMAIN rproc' = RepoProcs /\ rproc' = [q \in RepoProcs |-> rproc'[q]]
      /\ RepoOthers(p) /\ Away(p)
  BY Going DEF UnlinkRepo, RepoInv
<1> QED
  BY <1>1, FileGone DEF UnlinkRepo, RepoInv, RepoTypeOK

\* What a command may read in the file it has open.
LEMMA VersionRead ==
    ASSUME RepoInv, NEW p \in RepoProcs, Current(p), rproc[p].pc = "check",
           NEW v, v = Grandfathered(repofile.db.version)
    PROVE  /\ v \in Nat
           /\ \A top \in Nat : (Upgradable /\ InCourse(top)) =>
                 v \in Grandfathered(rstart)..top /\ top <= REPO_SCHEMA_VERSION
           /\ LeftAlone => /\ v # REPO_SCHEMA_VERSION
                           /\ (v \div 1000 = REPO_SCHEMA_MAJOR /\ v < REPO_SCHEMA_VERSION)
                                 => v = 2000
           /\ MadeAnew => v = REPO_SCHEMA_VERSION
<1>1. ASSUME NEW top \in Nat, Upgradable, InCourse(top)
      PROVE  v \in Grandfathered(rstart)..top /\ top <= REPO_SCHEMA_VERSION /\ v \in Nat
  <2>1. rstart \in OldRepos /\ <<repofile.db, top>> \in RepoCourse(rstart)
    BY <1>1 DEF Upgradable, InCourse
  <2>2. top <= REPO_SCHEMA_VERSION /\ v \in Grandfathered(rstart)..top
    BY <2>1, RepoCourseFacts, OldRepoNumbers DEF REPO_SCHEMA_VERSION
  <2> QED
    BY <2>1, <2>2, OldRepoNumbers
<1>2. ASSUME LeftAlone
      PROVE  /\ v \in Nat
             /\ v # REPO_SCHEMA_VERSION
             /\ (v \div 1000 = REPO_SCHEMA_MAJOR /\ v < REPO_SCHEMA_VERSION) => v = 2000
  <2>1. rstart \in Nat /\ rstart \notin {3} \cup (2001..2010)
    BY <1>2, RepoStartsAssumption DEF LeftAlone, RepoInv, RepoTypeOK, OldRepos,
                                      REPO_SCHEMA_VERSION
  <2>2. repofile.db.version = rstart
    BY <1>2, <2>1, RepoVersions DEF LeftAlone
  <2>3. v \in Nat /\ v \notin 2001..2010
    BY <2>1, <2>2 DEF Grandfathered
  <2>4. v \div 1000 = 2 => v >= 2000
    BY <2>3
  <2> QED
    BY <2>3, <2>4 DEF REPO_SCHEMA_VERSION, REPO_SCHEMA_MAJOR
<1>3. ASSUME MadeAnew
      PROVE  v = REPO_SCHEMA_VERSION /\ v \in Nat
  <2>1. repofile.db = NewRepo
    BY <1>3 DEF MadeAnew
  <2>2. repofile.db.version = 2010
    BY <2>1, RepoFirst DEF REPO_SCHEMA_VERSION
  <2> QED
    BY <2>2 DEF Grandfathered, REPO_SCHEMA_VERSION
<1>4. v \in Nat
  BY <1>1, <1>2, <1>3 DEF RepoInv, RepoFiles, Current
<1> QED
  BY <1>1, <1>2, <1>3, <1>4

LEMMA CheckVersionStep ==
    ASSUME RepoInv, NEW p \in RepoProcs, CheckVersion(p)
    PROVE  RepoInv'
<1> DEFINE v == Grandfathered(repofile.db.version)
           pc == IF v \div 1000 # REPO_SCHEMA_MAJOR THEN "schema"
                 ELSE IF v = REPO_SCHEMA_VERSION THEN "open"
                 ELSE IF v < REPO_SCHEMA_VERSION /\ rproc[p].write THEN "change"
                 ELSE "schema"
           r == [rproc[p] EXCEPT !.version = v, !.pc = pc]
<1>1. rproc' = [rproc EXCEPT ![p].version = v, ![p].pc = pc]
  BY Zenon DEF CheckVersion
<1>2. Current(p) /\ rproc[p].pc = "check" /\ UNCHANGED <<rstart, repofile, inodes, rcrashes>>
  BY DEF CheckVersion
<1>3. /\ pc \in {"open", "change", "schema"}
      /\ pc = "open" => v = REPO_SCHEMA_VERSION
      /\ pc = "change" => v # REPO_SCHEMA_VERSION /\ v < REPO_SCHEMA_VERSION
                          /\ v \div 1000 = REPO_SCHEMA_MAJOR
  OBVIOUS
<1>4. v = Grandfathered(repofile.db.version)
  OBVIOUS
<1> HIDE DEF v, pc
<1>5. /\ v \in Nat
      /\ \A top \in Nat : (Upgradable /\ InCourse(top)) =>
            v \in Grandfathered(rstart)..top /\ top <= REPO_SCHEMA_VERSION
      /\ LeftAlone => /\ v # REPO_SCHEMA_VERSION
                      /\ (v \div 1000 = REPO_SCHEMA_MAJOR /\ v < REPO_SCHEMA_VERSION)
                            => v = 2000
      /\ MadeAnew => v = REPO_SCHEMA_VERSION
  BY <1>2, <1>4, VersionRead
<1>6. rproc[p] \in RepoCommand
  BY DEF RepoInv, RepoTypeOK
<1>7. /\ r \in RepoCommand /\ r.pc = pc /\ r.version = v /\ r.inode = rproc[p].inode
  <2>1. v \in Nat /\ pc \in {"open", "change", "schema"}
    BY <1>3, <1>5
  <2> QED
    BY <1>6, <2>1 DEF RepoCommand
<1>8. /\ DOMAIN rproc' = RepoProcs /\ rproc' = [q \in RepoProcs |-> rproc'[q]]
      /\ RepoOthers(p) /\ rproc'[p] = r
  <2>1. rproc' = [rproc EXCEPT ![p] = r]
    BY <1>1
  <2> HIDE DEF r
  <2> QED
    BY <2>1, Only DEF RepoInv
<1> HIDE DEF r
<1>9. Away(p)
  BY <1>2, <1>3, <1>7, <1>8 DEF Away, RepoInv, Inodes
<1>10. rproc' \in [RepoProcs -> RepoCommand] /\ Inodes'
  BY <1>2, <1>8, <1>9, InodesStay DEF RepoInv
<1>11. RepoTypeOK'
  BY <1>2, <1>10 DEF RepoTypeOK, RepoInv
<1>12. \A q \in RepoProcs : Current(q)' <=> Current(q)
  BY <1>2, <1>7, <1>8 DEF Current, RepoOthers
<1>13. \A top \in Nat : (Upgradable /\ InCourse(top)) => Upgradable' /\ InCourse(top)'
  <2> SUFFICES ASSUME NEW top \in Nat, Upgradable, InCourse(top)
               PROVE  Upgradable' /\ InCourse(top)'
    OBVIOUS
  <2>1. Upgradable' /\ <<repofile'.db, top>> \in RepoCourse(rstart')
    BY <1>2 DEF Upgradable, InCourse
  <2>2. v \in Grandfathered(rstart)..top /\ top <= REPO_SCHEMA_VERSION
    BY <1>5
  <2>3. Grandfathered(rstart) \in Nat
    BY OldRepoNumbers DEF Upgradable
  <2>4. ASSUME NEW q \in RepoProcs, Current(q)'
        PROVE  /\ rproc'[q].pc = "change" =>
                     /\ rproc'[q].version \in Grandfathered(rstart')..top
                     /\ rproc'[q].version < REPO_SCHEMA_VERSION
               /\ rproc'[q].pc = "open" => top = REPO_SCHEMA_VERSION
    <3>1. CASE q = p
      <4>1. rproc'[q].pc = "open" => top = REPO_SCHEMA_VERSION
        BY <1>3, <1>7, <1>8, <2>2, <2>3, <3>1 DEF REPO_SCHEMA_VERSION
      <4> QED
        BY <1>2, <1>3, <1>7, <1>8, <2>2, <3>1, <4>1
    <3>2. CASE q # p
      BY <1>2, <1>8, <1>12, <2>4, <3>2 DEF InCourse, RepoOthers
    <3> QED
      BY <3>1, <3>2
  <2> QED
    BY <2>1, <2>4 DEF InCourse
<1>14. LeftAlone => LeftAlone'
  <2> SUFFICES ASSUME LeftAlone PROVE LeftAlone'
    OBVIOUS
  <2>1. ASSUME NEW q \in RepoProcs, Current(q)'
        PROVE  (rproc'[q].pc = "change" => rproc'[q].version = 2000) /\ rproc'[q].pc # "open"
    <3>1. CASE q = p
      BY <1>3, <1>5, <1>7, <1>8, <3>1
    <3>2. CASE q # p
      BY <1>8, <1>12, <2>1, <3>2 DEF LeftAlone, RepoOthers
    <3> QED
      BY <3>1, <3>2
  <2> QED
    BY <1>2, <2>1 DEF LeftAlone
<1>15. MadeAnew => MadeAnew'
  <2> SUFFICES ASSUME MadeAnew PROVE MadeAnew'
    OBVIOUS
  <2>1. ASSUME NEW q \in RepoProcs, Current(q)'
        PROVE  /\ rproc'[q].pc # "change"
               /\ rproc'[q].pc \in {"check", "open"} => repofile.db = NewRepo
               /\ rproc'[q].pc = "repodata" => repofile.db = RepoCreated
    <3>1. CASE q = p
      <4>1. repofile.db = NewRepo
        BY <1>2 DEF MadeAnew
      <4> QED
        BY <1>3, <1>5, <1>7, <1>8, <3>1, <4>1
    <3>2. CASE q # p
      BY <1>8, <1>12, <2>1, <3>2 DEF MadeAnew, RepoOthers
    <3> QED
      BY <3>1, <3>2
  <2> QED
    BY <1>2, <2>1 DEF MadeAnew
<1>16. RepoFiles'
  BY <1>2, <1>13, <1>14, <1>15 DEF RepoFiles, RepoInv
<1> QED
  BY <1>10, <1>11, <1>16 DEF RepoInv

\* The next script, or none.
LEMMA ApplyChangeStep ==
    ASSUME RepoInv, NEW p \in RepoProcs, ApplyChange(p)
    PROVE  RepoInv'
<1> DEFINE v == rproc[p].version
           after == IF Found(v) THEN Changed(repofile.db, v) ELSE Failed(repofile.db)
           pc == IF ~after.ok THEN "schema"
                 ELSE IF v + 1 = REPO_SCHEMA_VERSION THEN "open" ELSE "change"
           r == [rproc[p] EXCEPT !.version = v + 1, !.pc = pc]
<1>1. rproc' = [rproc EXCEPT ![p].version = v + 1, ![p].pc = pc]
  BY Zenon DEF ApplyChange
<1>2. /\ Current(p) /\ rproc[p].pc = "change" /\ UNCHANGED <<rstart, inodes, rcrashes>>
      /\ repofile' = IF after.ok THEN [repofile EXCEPT !.db = after] ELSE repofile
  BY Zenon DEF ApplyChange
<1>3. /\ pc \in {"open", "change", "schema"}
      /\ pc # "schema" => after.ok
      /\ pc = "open" => v + 1 = REPO_SCHEMA_VERSION
      /\ pc = "change" => v + 1 # REPO_SCHEMA_VERSION
  OBVIOUS
<1>4. after = IF Found(v) THEN Changed(repofile.db, v) ELSE Failed(repofile.db)
  OBVIOUS
<1> HIDE DEF after, pc
<1>5. rproc[p] \in RepoCommand /\ v \in Nat
  BY RepoCommandType DEF RepoInv, RepoTypeOK
<1>6. /\ r \in RepoCommand /\ r.pc = pc /\ r.version = v + 1 /\ r.inode = rproc[p].inode
  <2>1. v + 1 \in Nat /\ pc \in {"open", "change", "schema"}
    BY <1>3, <1>5
  <2> HIDE DEF v
  <2> QED
    BY <1>5, <2>1 DEF RepoCommand
<1>7. /\ DOMAIN rproc' = RepoProcs /\ rproc' = [q \in RepoProcs |-> rproc'[q]]
      /\ RepoOthers(p) /\ rproc'[p] = r
  <2>1. rproc' = [rproc EXCEPT ![p] = r]
    BY <1>1
  <2> HIDE DEF r
  <2> QED
    BY <2>1, Only DEF RepoInv
<1> HIDE DEF r
<1>8. Away(p)
  BY <1>2, <1>3, <1>6, <1>7 DEF Away, RepoInv, Inodes
<1>9. rproc' \in [RepoProcs -> RepoCommand] /\ Inodes'
  BY <1>2, <1>7, <1>8, InodesStay DEF RepoInv
<1>10. repofile # NoFile /\ repofile = [inode |-> repofile.inode, db |-> repofile.db]
       /\ repofile.inode \in 1..inodes
  BY <1>2 DEF Current, RepoInv, RepoTypeOK
<1>11. CASE ~after.ok
  <2>1. Harmless(p)
    BY <1>3, <1>7, <1>6, <1>11 DEF Harmless
  <2> QED
    BY <1>2, <1>7, <1>8, <1>11, <2>1, FileStays DEF RepoInv, RepoTypeOK
<1>12. CASE after.ok
  <2>1. /\ repofile' = [inode |-> repofile.inode, db |-> after]
        /\ repofile'.inode = repofile.inode /\ repofile'.db = after
    BY <1>2, <1>10, <1>12
  <2>2. RepoTypeOK'
    BY <1>2, <1>9, <1>10, <2>1 DEF RepoTypeOK, RepoInv
  <2>3. ~MadeAnew
    BY <1>2 DEF MadeAnew
  <2>4. ~LeftAlone
    <3> SUFFICES ASSUME LeftAlone PROVE FALSE
      OBVIOUS
    <3>1. ~Found(v)
      BY <1>2 DEF LeftAlone, Found
    <3>2. rstart \in Nat /\ rstart \notin 2002..2009
      BY RepoStartsAssumption DEF LeftAlone, RepoInv, RepoTypeOK, OldRepos,
                                  REPO_SCHEMA_VERSION
    <3>3. ~after.ok
      BY <1>4, <3>1, <3>2, RepoVersions DEF LeftAlone
    <3> QED
      BY <1>12, <3>3
  <2>5. repofile.inode = 1 /\ Upgradable /\ \E top \in Nat : InCourse(top)
    BY <1>10, <2>3, <2>4 DEF RepoInv, RepoFiles
  <2>6. PICK top \in Nat : InCourse(top)
    BY <2>5
  <2>7. rstart \in OldRepos /\ rstart' = rstart /\ Grandfathered(rstart) \in 2001..2010
    BY <1>2, <2>5, OldRepoNumbers DEF Upgradable
  <2>8. v \in Grandfathered(rstart)..top /\ v < REPO_SCHEMA_VERSION
        /\ <<repofile.db, top>> \in RepoCourse(rstart)
    BY <1>2, <2>6 DEF InCourse
  <2>9. after = Changed(repofile.db, v)
    BY <1>4, <1>5, <2>7, <2>8 DEF Found, REPO_SCHEMA_VERSION
  <2>10. <<after, Higher(top, v + 1)>> \in RepoCourse(rstart)
    BY <1>12, <2>7, <2>8, <2>9, RepoCourseGoesOn
  <2>11. top <= REPO_SCHEMA_VERSION
    BY <2>6, <2>7, <2>8, RepoCourseFacts DEF REPO_SCHEMA_VERSION
  <2>12. Higher(top, v + 1) \in Nat
    BY <1>5, <2>8 DEF Higher
  <2>13. PICK up \in Nat : up = Higher(top, v + 1)
    BY <2>12
  <2>14. top <= up /\ v + 1 <= up /\ up <= REPO_SCHEMA_VERSION
    BY <1>5, <2>8, <2>11, <2>13 DEF Higher, REPO_SCHEMA_VERSION
  <2>15. \A q \in RepoProcs : (q # p /\ Current(q)') => Current(q)
    BY <1>7, <1>10, <2>1, <2>2 DEF Current, RepoOthers, RepoTypeOK
  <2>16. ASSUME NEW q \in RepoProcs, Current(q)'
         PROVE  /\ rproc'[q].pc = "change" =>
                     /\ rproc'[q].version \in Grandfathered(rstart)..up
                     /\ rproc'[q].version < REPO_SCHEMA_VERSION
                /\ rproc'[q].pc = "open" => up = REPO_SCHEMA_VERSION
    <3>1. CASE q = p
      <4>1. rproc'[q].pc = "change" => v + 1 < REPO_SCHEMA_VERSION
        BY <1>3, <1>5, <1>6, <1>7, <2>8, <3>1 DEF REPO_SCHEMA_VERSION
      <4>2. rproc'[q].pc = "open" => up = REPO_SCHEMA_VERSION
        BY <1>3, <1>6, <1>7, <2>14, <3>1 DEF REPO_SCHEMA_VERSION
      <4>3. v + 1 \in Grandfathered(rstart)..up
        BY <1>5, <2>7, <2>8, <2>14
      <4> QED
        BY <1>6, <1>7, <3>1, <4>1, <4>2, <4>3
    <3>2. CASE q # p
      <4>1. Current(q) /\ rproc'[q] = rproc[q]
        BY <1>7, <2>15, <2>16, <3>2 DEF RepoOthers
      <4>2. /\ rproc[q].pc = "change" =>
                 /\ rproc[q].version \in Grandfathered(rstart)..top
                 /\ rproc[q].version < REPO_SCHEMA_VERSION
            /\ rproc[q].pc = "open" => top = REPO_SCHEMA_VERSION
        BY <2>6, <4>1 DEF InCourse
      <4>3. \A n \in Grandfathered(rstart)..top : n \in Grandfathered(rstart)..up
        BY <2>7, <2>14
      <4>4. top = REPO_SCHEMA_VERSION => up = REPO_SCHEMA_VERSION
        BY <2>14 DEF REPO_SCHEMA_VERSION
      <4> QED
        BY <4>1, <4>2, <4>3, <4>4
    <3> QED
      BY <3>1, <3>2
  <2>17. InCourse(up)' /\ Upgradable'
    BY <1>2, <2>1, <2>5, <2>7, <2>10, <2>13, <2>16 DEF InCourse, Upgradable
  <2>18. RepoFiles'
    BY <2>1, <2>5, <2>13, <2>17 DEF RepoFiles
  <2> QED
    BY <1>9, <2>2, <2>18 DEF RepoInv
<1> QED
  BY <1>11, <1>12

\* The new inode is nobody's yet.
LEMMA CreateTablesStep ==
    ASSUME RepoInv, NEW p \in RepoProcs, CreateTables(p)
    PROVE  RepoInv'
<1>1. CASE repofile = NoFile
  <2> DEFINE r == [rproc[p] EXCEPT !.pc = "repodata", !.inode = inodes + 1]
  <2>1. /\ inodes' = inodes + 1 /\ rstart' = rstart /\ rcrashes' = rcrashes
        /\ repofile' = [inode |-> inodes + 1, db |-> RepoCreated]
        /\ rproc' = [rproc EXCEPT ![p].pc = "repodata", ![p].inode = inodes + 1]
    BY <1>1 DEF CreateTables
  <2>2. inodes \in Nat \ {0} /\ rproc[p] \in RepoCommand
    BY DEF RepoInv, RepoTypeOK
  <2>3. r \in RepoCommand /\ r.pc = "repodata" /\ r.inode = inodes + 1
    <3>1. inodes + 1 \in Nat
      BY <2>2
    <3> QED
      BY <2>2, <3>1 DEF RepoCommand
  <2>4. rproc' = [rproc EXCEPT ![p] = r]
    BY <2>1
  <2> HIDE DEF r
  <2>5. /\ DOMAIN rproc' = RepoProcs /\ rproc' = [q \in RepoProcs |-> rproc'[q]]
        /\ RepoOthers(p) /\ rproc'[p] = r
    BY <2>4, Only DEF RepoInv
  <2>6. \A q \in RepoProcs : rproc'[q] \in RepoCommand
    BY <2>3, <2>5 DEF RepoOthers, RepoInv, RepoTypeOK
  <2>7. repofile'.inode = inodes + 1 /\ repofile'.db = RepoCreated
    BY <2>1
  <2>8. RepoTypeOK'
    BY <2>1, <2>2, <2>5, <2>6, <2>7 DEF RepoTypeOK, RepoInv
  <2>9. \A q \in RepoProcs : rproc[q].inode \in Nat /\ rproc[q].inode <= inodes
    BY RepoCommandType DEF RepoInv, Inodes
  <2>10. \A q \in RepoProcs : q # p => rproc'[q].inode # inodes + 1 /\ rproc'[q] = rproc[q]
    BY <2>2, <2>5, <2>9 DEF RepoOthers
  <2>11. Inodes'
    <3>1. \A q \in RepoProcs : rproc'[q].inode <= inodes'
      BY <2>1, <2>2, <2>3, <2>5, <2>9 DEF RepoOthers
    <3>2. \A q \in RepoProcs : rproc'[q].pc = "repodata" => rproc'[q].inode > 1
      BY <2>2, <2>3, <2>5, <2>10 DEF RepoInv, Inodes
    <3>3. ASSUME NEW q \in RepoProcs, NEW q2 \in RepoProcs,
                 rproc'[q].pc = "repodata", rproc'[q2].pc = "repodata",
                 rproc'[q].inode = rproc'[q2].inode
          PROVE  q = q2
      BY <2>3, <2>5, <2>10, <3>3 DEF RepoInv, Inodes
    <3> QED
      BY <3>1, <3>2, <3>3 DEF Inodes
  <2>12. \A q \in RepoProcs : Current(q)' => q = p
    BY <2>7, <2>10 DEF Current
  <2>13. MadeAnew'
    BY <2>3, <2>5, <2>7, <2>12 DEF MadeAnew
  <2>14. repofile'.inode # 1
    BY <2>2, <2>7
  <2>15. RepoFiles'
    BY <2>13, <2>14 DEF RepoFiles
  <2> QED
    BY <2>8, <2>11, <2>15 DEF RepoInv
<1>2. CASE repofile # NoFile
  <2>1. UNCHANGED <<rstart, repofile, inodes, rcrashes>>
        /\ rproc' = [rproc EXCEPT ![p] = Idle(rproc[p].opens)]
    BY <1>2 DEF CreateTables
  <2>2. /\ DOMAIN rproc' = RepoProcs /\ rproc' = [q \in RepoProcs |-> rproc'[q]]
        /\ RepoOthers(p) /\ Away(p) /\ rproc'[p].pc = "idle"
    BY <2>1, Idling DEF RepoInv
  <2>3. Harmless(p)
    BY <2>2 DEF Harmless
  <2> QED
    BY <2>1, <2>2, <2>3, FileStays DEF RepoInv, RepoTypeOK
<1> QED
  BY <1>1, <1>2

\* The one who made the file completes it.
LEMMA CreateRepodataStep ==
    ASSUME RepoInv, NEW p \in RepoProcs, CreateRepodata(p)
    PROVE  RepoInv'
<1>1. /\ rproc[p].pc = "repodata" /\ RGoto(p, "again")
      /\ UNCHANGED <<rstart, inodes, rcrashes>>
      /\ repofile' = IF Current(p)
                     THEN [repofile EXCEPT !.db = Script(@, <<RepodataTable>>, FALSE)]
                     ELSE repofile
  BY DEF CreateRepodata
<1>2. /\ DOMAIN rproc' = RepoProcs /\ rproc' = [q \in RepoProcs |-> rproc'[q]]
      /\ RepoOthers(p) /\ Away(p) /\ rproc'[p].pc = "again"
      /\ rproc'[p].inode = rproc[p].inode
  BY <1>1, Going DEF RepoInv
<1>3. CASE ~Current(p)
  <2>1. Harmless(p)
    BY <1>2 DEF Harmless
  <2> QED
    BY <1>1, <1>2, <1>3, <2>1, FileStays DEF RepoInv, RepoTypeOK
<1>4. CASE Current(p)
  <2>1. repofile # NoFile /\ repofile.inode = rproc[p].inode /\ rproc[p].inode > 1
    BY <1>1, <1>4 DEF Current, RepoInv, Inodes
  <2>2. rproc[p].inode # 1
    BY <2>1, RepoCommandType DEF RepoInv
  <2>3. MadeAnew /\ repofile.db = RepoCreated
    BY <1>1, <1>4, <2>1, <2>2 DEF RepoInv, RepoFiles, MadeAnew
  <2>4. repofile = [inode |-> repofile.inode, db |-> repofile.db]
        /\ repofile.inode \in 1..inodes
    BY <2>1 DEF RepoInv, RepoTypeOK
  <2>5. repofile' = [inode |-> repofile.inode, db |-> NewRepo]
    BY <1>1, <1>4, <2>3, <2>4 DEF NewRepo
  <2>6. repofile'.inode = repofile.inode /\ repofile'.db = NewRepo
    BY <2>5
  <2>7. rproc' \in [RepoProcs -> RepoCommand] /\ Inodes'
    BY <1>1, <1>2, InodesStay DEF RepoInv
  <2>8. RepoTypeOK'
    BY <1>1, <2>4, <2>5, <2>6, <2>7 DEF RepoTypeOK, RepoInv
  <2>9. ASSUME NEW q \in RepoProcs, Current(q)'
        PROVE  rproc'[q].pc \notin {"change", "repodata"}
    <3>1. CASE q = p
      BY <1>2, <3>1
    <3>2. CASE q # p
      <4>1. Current(q) /\ rproc'[q] = rproc[q]
        BY <1>2, <2>1, <2>6, <2>9, <3>2 DEF Current, RepoOthers
      <4>2. rproc[q].pc # "repodata"
        BY <1>1, <1>4, <3>2, <4>1 DEF RepoInv, Inodes, Current
      <4> QED
        BY <2>3, <4>1, <4>2 DEF MadeAnew
    <3> QED
      BY <3>1, <3>2
  <2>10. MadeAnew'
    BY <2>6, <2>9 DEF MadeAnew
  <2>11. RepoFiles'
    BY <2>1, <2>2, <2>6, <2>10 DEF RepoFiles
  <2> QED
    BY <2>7, <2>8, <2>11 DEF RepoInv
<1> QED
  BY <1>3, <1>4

LEMMA RepoStep == RepoInv /\ [RepoNext]_rvars => RepoInv'
<1> SUFFICES ASSUME RepoInv, [RepoNext]_rvars PROVE RepoInv'
  OBVIOUS
<1>1. CASE UNCHANGED rvars
  <2>1. UNCHANGED <<rstart, repofile, rproc, inodes, rcrashes>>
    BY <1>1 DEF rvars
  <2>2. RepoTypeOK' /\ Inodes'
    BY <2>1 DEF RepoInv, RepoTypeOK, Inodes
  <2>3. \A p \in RepoProcs : Current(p)' <=> Current(p)
    BY <2>1 DEF Current
  <2>4. \A top \in Nat : InCourse(top) => InCourse(top)'
    BY <2>1, <2>3 DEF InCourse
  <2>5. (LeftAlone => LeftAlone') /\ (MadeAnew => MadeAnew') /\ (Upgradable => Upgradable')
    BY <2>1, <2>3 DEF LeftAlone, MadeAnew, Upgradable
  <2>6. RepoFiles'
    BY <2>1, <2>4, <2>5 DEF RepoInv, RepoFiles
  <2> QED
    BY <2>2, <2>6 DEF RepoInv
<1>2. ASSUME NEW p \in RepoProcs, NEW write \in BOOLEAN, RepoOpen(p, write)
      PROVE  RepoInv'
  BY <1>2, RepoOpenStep
<1>3. ASSUME NEW p \in RepoProcs,
             \/ CheckVersion(p) \/ ApplyChange(p) \/ OnOldFile(p) \/ ChangeFails(p)
             \/ SchemaRefused(p) \/ RepoFatal(p) \/ UnlinkRepo(p) \/ CreateTables(p)
             \/ CreateRepodata(p) \/ OpenAgain(p) \/ RepoClose(p) \/ RepoCrash(p)
      PROVE  RepoInv'
  BY <1>3, CheckVersionStep, ApplyChangeStep, OnOldFileStep, RepoGivesUp,
     SchemaRefusedStep, UnlinkRepoStep, CreateTablesStep, CreateRepodataStep,
     OpenAgainStep
<1> QED
  BY <1>1, <1>2, <1>3 DEF RepoNext

\* Whoever has a file in its course open, has a whole schema.
LEMMA RepoInvWhole == RepoInv => RepoWhole
<1> SUFFICES ASSUME RepoInv, NEW p \in RepoProcs, rproc[p].pc = "open", Current(p)
             PROVE  /\ Covers(repofile.db, NewRepo)
                    /\ repofile.inode = 1 => MadeRepo(rstart).cols \subseteq Kept(repofile.db)
  BY DEF RepoWhole
<1>1. CASE repofile.inode = 1
  <2>1. Upgradable /\ \E top \in Nat : InCourse(top)
    <3>1. ~LeftAlone
      BY DEF LeftAlone
    <3> QED
      BY <1>1, <3>1 DEF RepoInv, RepoFiles, Current
  <2>2. PICK top \in Nat : InCourse(top)
    BY <2>1
  <2>3. top = REPO_SCHEMA_VERSION /\ <<repofile.db, top>> \in RepoCourse(rstart)
    BY <2>2 DEF InCourse
  <2> QED
    BY <2>1, <2>3, RepoCourseFacts DEF Upgradable
<1>2. CASE repofile.inode # 1
  <2>1. repofile.db = NewRepo
    BY <1>2 DEF RepoInv, RepoFiles, MadeAnew, Current
  <2> QED
    BY <1>2, <2>1, RepoFirst
<1> QED
  BY <1>1, <1>2

\* A command that has the database of a repository open works on a whole
\* schema with all its values, however many commands run the scripts of
\* repo_upgrades or unlink and make the file at once (pkg_repo_binary_open).
THEOREM WholeRepository == RepoSpec => []RepoWhole
<1>1. RepoInit => RepoInv
  BY RepoInitial
<1>2. RepoInv /\ [RepoNext]_rvars => RepoInv'
  BY RepoStep
<1>3. RepoInv => RepoWhole
  BY RepoInvWhole
<1> QED
  BY <1>1, <1>2, <1>3, PTL DEF RepoSpec

----------------------------------------------------------------------------
(* The local database, as long as no script was run twice.                 *)

LocalSteps == {"closed", "file", "init", "read", "upgrade", "repos", "open", "fatal"}
LocalCommand ==
    [pc : LocalSteps, root : BOOLEAN, create : BOOLEAN, version : Nat, fk : BOOLEAN,
     opens : Nat]

LocalTypeOK ==
    /\ start \in Starts
    /\ proc \in [Procs -> LocalCommand]

\* Foreign keys are off until the upgrade is over, and tables are made in a
\* file that was not there.
KeysOff == \A p \in Procs : proc[p].fk => proc[p].pc \in {"open", "fatal"}
InitWhenAbsent ==
    \A p \in Procs : proc[p].create \/ proc[p].pc = "init" => start = Absent

Untouched ==
    /\ file = Absent /\ start = Absent
    /\ \A p \in Procs : proc[p].pc \in {"closed", "file", "fatal"}
\* The file is in its course, and no command goes on from a version that lies
\* before it or was not reached yet.
OnCourse(top) ==
    /\ <<file, top>> \in Course(start)
    /\ \A p \in Procs : proc[p].pc = "upgrade" =>
          proc[p].version \in First(start)..top /\ proc[p].version < DBVERSION
\* A database of a later version stays as it is.
Newer ==
    /\ start # Absent /\ start > DBVERSION
    /\ file = Made(start)
    /\ \A p \in Procs : proc[p].pc # "upgrade"

UpToDate ==
    \A p \in Procs : proc[p].pc \in {"repos", "open"} => file.version >= DBVERSION

LocalFile ==
    \/ Untouched
    \/ UpToDate /\ start \in OldVersions /\ \E top \in Nat : OnCourse(top)
    \/ UpToDate /\ Newer

Straight == LocalTypeOK /\ KeysOff /\ InitWhenAbsent /\ LocalFile
LocalInv == rewound \/ Straight

LocalOthers(p) == \A q \in Procs \ {p} : proc'[q] = proc[q]

LEMMA StartVersions ==
    ASSUME start \in Starts, start # Absent
    PROVE  start \in Nat /\ (start > DBVERSION \/ start \in OldVersions)
BY StartsAssumption DEF OldVersions, DBVERSION

\* What ScriptFacts says of an element of a course.
LEMMA CourseFacts ==
    ASSUME NEW s \in OldVersions, NEW db, NEW top, <<db, top>> \in Course(s)
    PROVE  /\ db # Absent
           /\ top \in First(s)..DBVERSION /\ db.version \in {top, DBVERSION}
           /\ db.version = DBVERSION => Covers(db, NewDatabase)
           /\ (top = db.version /\ top < DBVERSION /\ Upgraded(db, top + 1, FALSE).ok) =>
                 /\ <<Upgraded(db, top + 1, FALSE), top + 1>> \in Course(s)
                 /\ Upgraded(db, top + 1, FALSE).version = top + 1
           /\ (s = Absent /\ Created(db).ok) =>
                 <<Created(db), top>> \in Course(s) /\ Created(db).version = DBVERSION
           /\ \A v \in First(s)..top :
                 (v < db.version /\ v + 1 \notin Rerunnable) => ~Upgraded(db, v + 1, FALSE).ok
           /\ s \in 11..DBVERSION => Openable(db) /\ Made(s).cols \ Kept(db) \subseteq GivenUp
           /\ (s = Absent /\ "packages" \in Tables(db)) => Openable(db)
<1> DEFINE x == <<db, top>>
<1>1. LeadsOn(s, x, Course(s)) /\ StaleFails(s, x) /\ GoesThrough(s, x)
  BY LocalScripts
<1>2. x[1] = db /\ x[2] = top
  OBVIOUS
<1> HIDE DEF x
<1> QED
  BY <1>1, <1>2 DEF LeadsOn, StaleFails, GoesThrough

LEMMA CourseGoesOn ==
    ASSUME NEW s \in OldVersions, NEW db, NEW top, <<db, top>> \in Course(s),
           top = db.version, top < DBVERSION, Upgraded(db, top + 1, FALSE).ok
    PROVE  <<Upgraded(db, top + 1, FALSE), top + 1>> \in Course(s)
           /\ Upgraded(db, top + 1, FALSE).version = top + 1
BY CourseFacts

LEMMA CourseStart ==
    \A s \in OldVersions :
        <<IF s = Absent THEN NoDatabase ELSE Made(s), First(s)>> \in Course(s)
BY LocalScripts

LEMMA FirstVersions ==
    \A s \in OldVersions : First(s) \in 0..DBVERSION
BY StartsAssumption DEF OldVersions, First, DBVERSION

LEMMA NewerVersion ==
    ASSUME NEW s \in Nat, s > DBVERSION
    PROVE  Made(s).version = s
<1> DEFINE db == [NewDatabase EXCEPT !.version = s]
<1>1. s # 0 /\ s # 10 /\ s \notin 11..26
  BY DEF DBVERSION
<1>2. Made(s) = [db EXCEPT !.data = {<<x[1], x[2], x>> : x \in db.cols}]
  BY <1>1 DEF Made, Filled
<1>3. "version" \in DOMAIN db /\ db.version = s
  BY NewerVersions DEF IsDatabase
<1> HIDE DEF db
<1> QED
  BY <1>2, <1>3

LEMMA LocalInitial == Init => LocalInv
<1> SUFFICES ASSUME Init PROVE Straight
  BY DEF LocalInv
<1> USE DEF Init
<1>1. Closed(0) \in LocalCommand /\ Closed(0).pc = "closed" /\ ~Closed(0).fk /\ ~Closed(0).create
  BY DEF Closed, LocalCommand, LocalSteps
<1>2. \A p \in Procs : proc[p] = Closed(0)
  OBVIOUS
<1>3. LocalTypeOK /\ KeysOff /\ InitWhenAbsent /\ UpToDate
  BY <1>1, <1>2 DEF LocalTypeOK, KeysOff, InitWhenAbsent, UpToDate
<1>4. LocalFile
  <2>1. CASE start = Absent
    BY <1>1, <1>2, <2>1 DEF LocalFile, Untouched
  <2>2. CASE start # Absent /\ start > DBVERSION
    BY <1>1, <1>2, <1>3, <2>2 DEF LocalFile, Newer
  <2>3. CASE start # Absent /\ ~(start > DBVERSION)
    <3>1. start \in OldVersions
      BY <2>3, StartVersions
    <3>2. <<file, First(start)>> \in Course(start)
      BY <2>3, <3>1, CourseStart
    <3>3. First(start) \in Nat
      BY <3>1, FirstVersions
    <3>4. OnCourse(First(start))
      BY <1>1, <1>2, <3>2 DEF OnCourse
    <3> QED
      BY <1>3, <3>1, <3>3, <3>4 DEF LocalFile
  <2> QED
    BY <2>1, <2>2, <2>3
<1> QED
  BY <1>3, <1>4 DEF Straight

LEMMA FileIsThere ==
    ASSUME Straight
    PROVE  file = Absent => Untouched
<1>1. ASSUME NEW top, OnCourse(top), start \in OldVersions PROVE file # Absent
  BY <1>1, CourseFacts DEF OnCourse
<1>2. Newer => file # Absent
  BY NewerVersions DEF Newer, Straight, LocalTypeOK
<1> QED
  BY <1>1, <1>2 DEF Straight, LocalFile

\* A step of p that leaves the file as it is.
Fits(p) ==
    /\ proc'[p] \in LocalCommand
    /\ proc'[p].fk => proc'[p].pc \in {"open", "fatal"}
    /\ proc'[p].create \/ proc'[p].pc = "init" => start = Absent
    /\ proc'[p].pc \in {"repos", "open"} => file.version >= DBVERSION
    /\ proc'[p].pc = "upgrade" =>
          /\ ~Newer
          /\ \A top \in Nat : OnCourse(top) =>
                proc'[p].version \in First(start)..top /\ proc'[p].version < DBVERSION
    /\ Untouched => proc'[p].pc \in {"closed", "file", "fatal"}

LEMMA OneCommand ==
    ASSUME LocalTypeOK, NEW p \in Procs, NEW r, proc' = [proc EXCEPT ![p] = r]
    PROVE  LocalOthers(p) /\ proc'[p] = r /\ proc' = [q \in Procs |-> proc'[q]]
BY DEF LocalTypeOK, LocalOthers

LEMMA OnlyCommands ==
    ASSUME Straight, NEW p \in Procs, LocalOthers(p), proc' = [q \in Procs |-> proc'[q]],
           Fits(p), file' = file, start' = start
    PROVE  Straight'
<1>1. \A q \in Procs : proc'[q] \in LocalCommand
  BY DEF Fits, LocalOthers, Straight, LocalTypeOK
<1>2. LocalTypeOK'
  BY <1>1 DEF Straight, LocalTypeOK
<1>3. KeysOff'
  BY DEF Fits, LocalOthers, Straight, KeysOff
<1>4. InitWhenAbsent'
  BY DEF Fits, LocalOthers, Straight, InitWhenAbsent
<1>5. UpToDate => UpToDate'
  BY DEF Fits, LocalOthers, UpToDate
<1>6. Untouched => Untouched'
  BY DEF Fits, LocalOthers, Untouched
<1>7. ASSUME NEW top \in Nat, OnCourse(top) PROVE OnCourse(top)'
  <2>1. <<file', top>> \in Course(start')
    BY <1>7 DEF OnCourse
  <2>2. ASSUME NEW q \in Procs, proc'[q].pc = "upgrade"
        PROVE  proc'[q].version \in First(start')..top /\ proc'[q].version < DBVERSION
    <3>1. CASE q = p
      BY <1>7, <2>2, <3>1 DEF Fits
    <3>2. CASE q # p
      BY <1>7, <2>2, <3>2 DEF OnCourse, LocalOthers
    <3> QED
      BY <3>1, <3>2
  <2> QED
    BY <2>1, <2>2 DEF OnCourse
<1>8. Newer => Newer'
  BY DEF Fits, LocalOthers, Newer
<1>9. LocalFile'
  BY <1>5, <1>6, <1>7, <1>8 DEF Straight, LocalFile
<1> QED
  BY <1>2, <1>3, <1>4, <1>9 DEF Straight

LEMMA LocalCommandType ==
    ASSUME LocalTypeOK, NEW p \in Procs
    PROVE  /\ proc[p] \in LocalCommand
           /\ proc[p].pc \in LocalSteps /\ proc[p].root \in BOOLEAN
           /\ proc[p].create \in BOOLEAN /\ proc[p].version \in Nat
           /\ proc[p].fk \in BOOLEAN /\ proc[p].opens \in Nat
BY DEF LocalTypeOK, LocalCommand

\* A command closes the database, dies, or gives up.
LEMMA ClosedFits ==
    ASSUME Straight, NEW p \in Procs, proc' = [proc EXCEPT ![p] = Closed(proc[p].opens)],
           file' = file, start' = start
    PROVE  Straight'
<1>1. proc[p].opens \in Nat
  BY LocalCommandType DEF Straight
<1>2. /\ Closed(proc[p].opens) \in LocalCommand /\ Closed(proc[p].opens).pc = "closed"
      /\ ~Closed(proc[p].opens).fk /\ ~Closed(proc[p].opens).create
  BY <1>1 DEF Closed, LocalCommand, LocalSteps
<1>3. LocalOthers(p) /\ proc'[p] = Closed(proc[p].opens) /\ proc' = [q \in Procs |-> proc'[q]]
  BY OneCommand DEF Straight
<1>4. Fits(p)
  BY <1>2, <1>3 DEF Fits
<1> QED
  BY <1>3, <1>4, OnlyCommands

\* A command that goes to step pc.
LEMMA GoneTo ==
    ASSUME LocalTypeOK, NEW p \in Procs, NEW pc \in LocalSteps, Goto(p, pc)
    PROVE  /\ LocalOthers(p) /\ proc' = [q \in Procs |-> proc'[q]]
           /\ proc'[p] \in LocalCommand /\ proc'[p].pc = pc
           /\ proc'[p].fk = proc[p].fk /\ proc'[p].create = proc[p].create
           /\ proc'[p].version = proc[p].version
<1> DEFINE r == [proc[p] EXCEPT !.pc = pc]
<1>1. proc' = [proc EXCEPT ![p] = r]
  BY DEF Goto
<1>2. proc[p] \in LocalCommand
  BY LocalCommandType
<1>3. /\ r \in LocalCommand /\ r.pc = pc /\ r.fk = proc[p].fk /\ r.create = proc[p].create
      /\ r.version = proc[p].version
  BY <1>2 DEF LocalCommand
<1> HIDE DEF r
<1>4. LocalOthers(p) /\ proc'[p] = r /\ proc' = [q \in Procs |-> proc'[q]]
  BY <1>1, OneCommand
<1> QED
  BY <1>3, <1>4

LEMMA GivesUp ==
    ASSUME Straight, NEW p \in Procs, Goto(p, "fatal"), file' = file, start' = start
    PROVE  Straight'
<1>1. /\ LocalOthers(p) /\ proc' = [q \in Procs |-> proc'[q]]
      /\ proc'[p] \in LocalCommand /\ proc'[p].pc = "fatal"
      /\ proc'[p].create = proc[p].create
  BY GoneTo DEF LocalSteps, Straight
<1>2. Fits(p)
  BY <1>1 DEF Fits, Straight, InitWhenAbsent
<1> QED
  BY <1>1, <1>2, OnlyCommands

LEMMA FindFileStep ==
    ASSUME Straight, NEW p \in Procs, NEW mode \in Modes, NEW root \in BOOLEAN,
           FindFile(p, mode, root)
    PROVE  Straight'
<1> DEFINE pc == IF pkgdb_check_access(mode, root) = "ok" THEN "file" ELSE "fatal"
           r == [Closed(proc[p].opens + 1) EXCEPT !.pc = pc, !.root = root,
                                                  !.create = (file = Absent)]
<1>1. proc' = [proc EXCEPT ![p] = r] /\ file' = file /\ start' = start
  BY DEF FindFile
<1>2. pc \in {"file", "fatal"}
  OBVIOUS
<1> HIDE DEF pc
<1>3. proc[p].opens + 1 \in Nat
  BY LocalCommandType DEF Straight
<1>4. r \in LocalCommand /\ r.pc = pc /\ r.fk = FALSE /\ r.create = (file = Absent)
  BY <1>2, <1>3 DEF Closed, LocalCommand, LocalSteps
<1> HIDE DEF r
<1>5. LocalOthers(p) /\ proc'[p] = r /\ proc' = [q \in Procs |-> proc'[q]]
  BY <1>1, OneCommand DEF Straight
<1>6. file = Absent => start = Absent
  BY FileIsThere DEF Untouched
<1>7. Fits(p)
  BY <1>2, <1>4, <1>5, <1>6 DEF Fits
<1> QED
  BY <1>1, <1>5, <1>7, OnlyCommands

\* The empty file that sqlite3_open makes is the first of its course.
LEMMA SqliteOpenStep ==
    ASSUME Straight, NEW p \in Procs, SqliteOpen(p)
    PROVE  Straight'
<1> DEFINE pc == IF proc[p].create THEN "init" ELSE "read"
<1>1. /\ Goto(p, pc) /\ start' = start /\ proc[p].pc = "file"
      /\ file' = IF file = Absent THEN NoDatabase ELSE file
  BY DEF SqliteOpen
<1>2. pc \in {"init", "read"} /\ pc \in LocalSteps
  BY DEF LocalSteps
<1>3. pc = "init" => start = Absent
  BY DEF Straight, InitWhenAbsent
<1> HIDE DEF pc
<1>4. /\ LocalOthers(p) /\ proc' = [q \in Procs |-> proc'[q]]
      /\ proc'[p] \in LocalCommand /\ proc'[p].pc = pc
      /\ proc'[p].fk = proc[p].fk /\ proc'[p].create = proc[p].create
  BY <1>1, <1>2, GoneTo DEF Straight
<1>5. ~proc[p].fk
  BY <1>1 DEF Straight, KeysOff
<1>6. proc[p].create => start = Absent
  BY DEF Straight, InitWhenAbsent
<1>7. CASE file # Absent
  <2>1. ~Untouched
    BY <1>7 DEF Untouched
  <2>2. Fits(p)
    BY <1>2, <1>3, <1>4, <1>5, <1>6, <2>1 DEF Fits
  <2> QED
    BY <1>1, <1>4, <1>7, <2>2, OnlyCommands
<1>8. CASE file = Absent
  <2>1. Untouched
    BY <1>8, FileIsThere
  <2>2. \A q \in Procs : proc'[q] \in LocalCommand
    BY <1>4 DEF LocalOthers, Straight, LocalTypeOK
  <2>3. LocalTypeOK'
    BY <1>1, <1>4, <2>2 DEF Straight, LocalTypeOK
  <2>4. KeysOff'
    BY <1>4, <1>5 DEF Straight, KeysOff, LocalOthers
  <2>5. InitWhenAbsent'
    BY <1>1, <2>1 DEF InitWhenAbsent, Untouched
  <2>6. start' = Absent /\ file' = NoDatabase /\ Absent \in OldVersions
    BY <1>1, <1>8, <2>1 DEF Untouched, OldVersions
  <2>7. <<file', 0>> \in Course(start')
    BY <2>6, CourseStart DEF First
  <2>8. \A q \in Procs : proc'[q].pc \notin {"upgrade", "repos", "open"}
    BY <1>2, <1>4, <2>1 DEF Untouched, LocalOthers
  <2>9. OnCourse(0)' /\ UpToDate'
    BY <2>7, <2>8 DEF OnCourse, UpToDate
  <2>10. LocalFile'
    BY <2>6, <2>9 DEF LocalFile
  <2> QED
    BY <2>3, <2>4, <2>5, <2>10 DEF Straight
<1> QED
  BY <1>7, <1>8

\* pkgdb_init makes a whole schema, and leaves a file with tables alone.
LEMMA InitDbStep ==
    ASSUME Straight, NEW p \in Procs, InitDb(p)
    PROVE  Straight'
<1> DEFINE after == Created(file)
           pc == IF after.ok THEN "read" ELSE "fatal"
<1>1. /\ Goto(p, pc) /\ start' = start /\ proc[p].pc = "init"
      /\ file' = IF after.ok THEN after ELSE file
  BY DEF InitDb
<1>2. pc \in {"read", "fatal"} /\ pc \in LocalSteps /\ (~after.ok => pc = "fatal")
  BY DEF LocalSteps
<1>3. after = Created(file)
  OBVIOUS
<1> HIDE DEF pc, after
<1>4. CASE ~after.ok
  BY <1>1, <1>2, <1>4, GivesUp
<1>5. CASE after.ok
  <2>1. start = Absent /\ file' = after /\ start' = Absent
    BY <1>1, <1>5 DEF Straight, InitWhenAbsent
  <2>2. UpToDate /\ start \in OldVersions /\ \E top \in Nat : OnCourse(top)
    BY <1>1, <2>1 DEF Straight, LocalFile, Untouched, Newer
  <2>3. PICK top \in Nat : OnCourse(top)
    BY <2>2
  <2>4. <<after, top>> \in Course(start) /\ after.version = DBVERSION
    BY <1>3, <1>5, <2>1, <2>2, <2>3, CourseFacts DEF OnCourse
  <2>5. /\ LocalOthers(p) /\ proc' = [q \in Procs |-> proc'[q]]
        /\ proc'[p] \in LocalCommand /\ proc'[p].pc = pc /\ proc'[p].fk = proc[p].fk
    BY <1>1, <1>2, GoneTo DEF Straight
  <2>6. \A q \in Procs : proc'[q] \in LocalCommand
    BY <2>5 DEF LocalOthers, Straight, LocalTypeOK
  <2>7. LocalTypeOK'
    BY <2>5, <2>6, <1>1 DEF Straight, LocalTypeOK
  <2>8. ~proc[p].fk
    BY <1>1 DEF Straight, KeysOff
  <2>9. KeysOff'
    BY <2>5, <2>8 DEF Straight, KeysOff, LocalOthers
  <2>10. InitWhenAbsent'
    BY <2>1 DEF InitWhenAbsent
  <2>11. UpToDate'
    BY <2>1, <2>4 DEF UpToDate, DBVERSION
  <2>12. ASSUME NEW q \in Procs, proc'[q].pc = "upgrade"
         PROVE  proc'[q].version \in First(start)..top /\ proc'[q].version < DBVERSION
    <3>1. q # p /\ proc'[q] = proc[q]
      BY <1>2, <2>5, <2>12 DEF LocalOthers
    <3> QED
      BY <2>3, <2>12, <3>1 DEF OnCourse
  <2>13. OnCourse(top)'
    BY <1>1, <2>1, <2>4, <2>12 DEF OnCourse
  <2>14. LocalFile'
    BY <1>1, <2>2, <2>11, <2>13 DEF LocalFile
  <2> QED
    BY <2>7, <2>9, <2>10, <2>14 DEF Straight
<1> QED
  BY <1>4, <1>5

LEMMA ReadVersionStep ==
    ASSUME Straight, NEW p \in Procs, ReadVersion(p)
    PROVE  Straight'
<1> DEFINE pc == IF file.version = DBVERSION THEN "repos"
                 ELSE IF file.version > DBVERSION
                      THEN IF Compatible(file.version) THEN "repos" ELSE "fatal"
                 ELSE "upgrade"
           r == [proc[p] EXCEPT !.version = file.version, !.pc = pc]
<1>1. proc' = [proc EXCEPT ![p].version = file.version, ![p].pc = pc]
  BY Zenon DEF ReadVersion
<1>2. proc[p].pc = "read" /\ file' = file /\ start' = start
  BY DEF ReadVersion
<1>3. /\ pc \in {"repos", "fatal", "upgrade"}
      /\ pc = "repos" => file.version = DBVERSION \/ file.version > DBVERSION
      /\ pc = "upgrade" => file.version # DBVERSION /\ ~(file.version > DBVERSION)
  OBVIOUS
<1> HIDE DEF pc
<1>4. ~Untouched
  BY <1>2 DEF Untouched
<1>5. ASSUME NEW top \in Nat, OnCourse(top), start \in OldVersions
      PROVE  /\ file.version \in Nat
             /\ pc = "upgrade" => file.version \in First(start)..top /\ file.version < DBVERSION
  <2>1. top \in First(start)..DBVERSION /\ file.version \in {top, DBVERSION}
    BY <1>5, CourseFacts DEF OnCourse
  <2>2. First(start) \in 0..DBVERSION
    BY <1>5, FirstVersions
  <2> QED
    BY <1>3, <2>1, <2>2 DEF DBVERSION
<1>6. Newer => file.version \in Nat /\ file.version > DBVERSION
  BY StartVersions, NewerVersion DEF Newer, Straight, LocalTypeOK
<1>7. file.version \in Nat
  BY <1>4, <1>5, <1>6 DEF Straight, LocalFile
<1>8. r \in LocalCommand /\ r.pc = pc /\ r.version = file.version /\ r.fk = proc[p].fk
      /\ r.create = proc[p].create
  <2>1. proc[p] \in LocalCommand /\ pc \in {"repos", "fatal", "upgrade"}
    BY <1>3, LocalCommandType DEF Straight
  <2> QED
    BY <1>7, <2>1 DEF LocalCommand, LocalSteps
<1>9. LocalOthers(p) /\ proc'[p] = r /\ proc' = [q \in Procs |-> proc'[q]]
  <2>1. proc' = [proc EXCEPT ![p] = r]
    BY <1>1
  <2> HIDE DEF r
  <2> QED
    BY <2>1, OneCommand DEF Straight
<1> HIDE DEF r
<1>10. ~proc[p].fk /\ (proc[p].create => start = Absent)
  BY <1>2 DEF Straight, KeysOff, InitWhenAbsent
<1>11. pc = "repos" => file.version >= DBVERSION
  BY <1>3, <1>7 DEF DBVERSION
<1>12. pc = "upgrade" => ~Newer
  BY <1>3, <1>6
<1>13. (\E top \in Nat : OnCourse(top)) /\ ~Newer => start \in OldVersions
  BY <1>4 DEF Straight, LocalFile
<1>14. ASSUME pc = "upgrade", NEW top \in Nat, OnCourse(top)
       PROVE  r.version \in First(start)..top /\ r.version < DBVERSION
  BY <1>5, <1>8, <1>12, <1>13, <1>14
<1>15. Fits(p)
  BY <1>3, <1>4, <1>8, <1>9, <1>10, <1>11, <1>12, <1>14 DEF Fits
<1> QED
  BY <1>2, <1>9, <1>15, OnlyCommands

LEMMA PrepareStep ==
    ASSUME Straight, NEW p \in Procs, Prepare(p)
    PROVE  Straight'
<1> DEFINE pc == IF Prepared(file) THEN "open" ELSE "fatal"
           r == [proc[p] EXCEPT !.fk = TRUE, !.pc = pc]
<1>1. proc' = [proc EXCEPT ![p].fk = TRUE, ![p].pc = pc]
  BY DEF Prepare
<1>2. proc[p].pc = "repos" /\ file' = file /\ start' = start
  BY DEF Prepare
<1>3. pc \in {"open", "fatal"}
  OBVIOUS
<1> HIDE DEF pc
<1>4. r \in LocalCommand /\ r.pc = pc /\ r.create = proc[p].create
  <2>1. proc[p] \in LocalCommand
    BY LocalCommandType DEF Straight
  <2> QED
    BY <1>3, <2>1 DEF LocalCommand, LocalSteps
<1>5. LocalOthers(p) /\ proc'[p] = r /\ proc' = [q \in Procs |-> proc'[q]]
  <2>1. proc' = [proc EXCEPT ![p] = r]
    BY <1>1
  <2> HIDE DEF r
  <2> QED
    BY <2>1, OneCommand DEF Straight
<1> HIDE DEF r
<1>6. ~Untouched /\ (proc[p].create => start = Absent)
  BY <1>2 DEF Untouched, Straight, InitWhenAbsent
<1>7. file.version >= DBVERSION
  BY <1>2, <1>6 DEF Straight, LocalFile, UpToDate
<1>8. Fits(p)
  BY <1>3, <1>4, <1>5, <1>6, <1>7 DEF Fits
<1> QED
  BY <1>2, <1>5, <1>8, OnlyCommands

\* A command whose script succeeds on a database that does not have it yet is
\* where the file is.
LEMMA UpgradeOneStep ==
    ASSUME Straight, ~rewound, NEW p \in Procs, UpgradeOne(p), ~rewound'
    PROVE  Straight'
<1> DEFINE v == proc[p].version
           after == Upgraded(file, v + 1, proc[p].fk)
           pc == IF ~after.ok THEN "fatal"
                 ELSE IF v + 1 = DBVERSION THEN "repos" ELSE "upgrade"
           r == [proc[p] EXCEPT !.version = v + 1, !.pc = pc]
<1>1. proc' = [proc EXCEPT ![p].version = v + 1, ![p].pc = pc]
  BY Zenon DEF UpgradeOne
<1>2. /\ proc[p].pc = "upgrade" /\ start' = start
      /\ file' = IF after.ok THEN after ELSE file
      /\ ~(after.ok /\ file.version >= v + 1)
  BY DEF UpgradeOne
<1>3. /\ pc \in {"fatal", "repos", "upgrade"}
      /\ after.ok => pc # "fatal"
      /\ ~after.ok => pc = "fatal"
      /\ pc = "repos" => v + 1 = DBVERSION
      /\ pc = "upgrade" => v + 1 # DBVERSION
  OBVIOUS
<1> HIDE DEF pc
<1>4. ~proc[p].fk
  BY <1>2 DEF Straight, KeysOff
<1>5. after = Upgraded(file, v + 1, FALSE)
  BY <1>4, LocalCommandType DEF Straight
<1> HIDE DEF after
<1>6. proc[p] \in LocalCommand /\ v \in Nat
  BY LocalCommandType DEF Straight
<1>7. r \in LocalCommand /\ r.pc = pc /\ r.version = v + 1 /\ r.fk = proc[p].fk
      /\ r.create = proc[p].create
  <2>1. v + 1 \in Nat /\ pc \in {"fatal", "repos", "upgrade"}
    BY <1>3, <1>6
  <2> HIDE DEF v
  <2> QED
    BY <1>6, <2>1 DEF LocalCommand, LocalSteps
<1>8. LocalOthers(p) /\ proc'[p] = r /\ proc' = [q \in Procs |-> proc'[q]]
  <2>1. proc' = [proc EXCEPT ![p] = r]
    BY <1>1
  <2> HIDE DEF r
  <2> QED
    BY <2>1, OneCommand DEF Straight
<1> HIDE DEF r
<1>9. proc[p].create => start = Absent
  BY DEF Straight, InitWhenAbsent
<1>10. CASE ~after.ok
  <2>1. Fits(p)
    BY <1>2, <1>3, <1>7, <1>8, <1>9, <1>10 DEF Fits
  <2> QED
    BY <1>2, <1>8, <1>10, <2>1, OnlyCommands
<1>11. CASE after.ok
  <2>1. UpToDate /\ start \in OldVersions /\ \E top \in Nat : OnCourse(top)
    BY <1>2 DEF Straight, LocalFile, Untouched, Newer
  <2>2. PICK top \in Nat : OnCourse(top)
    BY <2>1
  <2>3. v \in First(start)..top /\ v < DBVERSION
    BY <1>2, <2>2 DEF OnCourse
  <2>4. /\ top \in First(start)..DBVERSION /\ file.version \in {top, DBVERSION}
        /\ First(start) \in 0..DBVERSION
    BY <2>1, <2>2, CourseFacts, FirstVersions DEF OnCourse
  <2>5. v = top /\ v = file.version
    BY <1>2, <1>6, <1>11, <2>3, <2>4 DEF DBVERSION
  <2>6. <<after, v + 1>> \in Course(start) /\ after.version = v + 1
    <3>1. after = Upgraded(file, top + 1, FALSE) /\ top = file.version /\ top < DBVERSION
      BY <1>5, <2>3, <2>5
    <3>2. <<file, top>> \in Course(start)
      BY <2>2 DEF OnCourse
    <3>3. start \in OldVersions /\ Upgraded(file, top + 1, FALSE).ok
      BY <1>11, <2>1, <3>1
    <3>4. <<Upgraded(file, top + 1, FALSE), top + 1>> \in Course(start)
          /\ Upgraded(file, top + 1, FALSE).version = top + 1
      BY Zenon, <3>1, <3>2, <3>3, CourseGoesOn
    <3> QED
      BY <2>5, <3>1, <3>4
  <2>7. PICK up \in Nat : up = v + 1
    BY <1>6
  <2>8. file' = after /\ file'.version = up
    BY <1>2, <1>11, <2>6, <2>7
  <2>9. \A q \in Procs : proc[q].pc \notin {"repos", "open"}
    BY <1>6, <2>1, <2>3, <2>5 DEF UpToDate, DBVERSION
  <2>10. \A q \in Procs : proc'[q] \in LocalCommand
    BY <1>7, <1>8 DEF LocalOthers, Straight, LocalTypeOK
  <2>11. LocalTypeOK'
    BY <1>2, <1>8, <2>10 DEF Straight, LocalTypeOK
  <2>12. KeysOff' /\ InitWhenAbsent'
    BY <1>2, <1>3, <1>4, <1>7, <1>8 DEF Straight, KeysOff, InitWhenAbsent, LocalOthers
  <2>13. UpToDate'
    <3>1. ASSUME NEW q \in Procs, proc'[q].pc \in {"repos", "open"}
          PROVE  file'.version >= DBVERSION
      <4>1. q = p
        BY <1>8, <2>9, <3>1 DEF LocalOthers
      <4> QED
        BY <1>3, <1>7, <1>8, <2>7, <2>8, <3>1, <4>1 DEF DBVERSION
    <3> QED
      BY <3>1 DEF UpToDate
  <2>14. ASSUME NEW q \in Procs, proc'[q].pc = "upgrade"
         PROVE  proc'[q].version \in First(start)..up /\ proc'[q].version < DBVERSION
    <3>1. CASE q = p
      BY <1>3, <1>6, <1>7, <1>8, <2>3, <2>4, <2>7, <2>14, <3>1 DEF DBVERSION
    <3>2. CASE q # p
      <4>1. proc'[q] = proc[q]
        BY <1>8, <3>2 DEF LocalOthers
      <4>2. proc[q].version \in First(start)..top /\ proc[q].version < DBVERSION
        BY <2>2, <2>14, <4>1 DEF OnCourse
      <4> QED
        BY <2>4, <2>5, <2>7, <4>1, <4>2 DEF DBVERSION
    <3> QED
      BY <3>1, <3>2
  <2>15. OnCourse(up)'
    BY <1>2, <2>6, <2>7, <2>8, <2>14 DEF OnCourse
  <2>16. LocalFile'
    BY <1>2, <2>1, <2>7, <2>13, <2>15 DEF LocalFile
  <2> QED
    BY <2>11, <2>12, <2>16 DEF Straight
<1> QED
  BY <1>10, <1>11

LEMMA LocalStep == LocalInv /\ [Next]_vars => LocalInv'
<1> SUFFICES ASSUME LocalInv, [Next]_vars PROVE LocalInv'
  OBVIOUS
<1>1. CASE UNCHANGED vars
  <2>1. UNCHANGED <<start, lax, file, proc, rewound, crashes>>
    BY <1>1 DEF vars
  <2>2. (LocalTypeOK => LocalTypeOK') /\ (KeysOff => KeysOff')
        /\ (InitWhenAbsent => InitWhenAbsent')
    BY <2>1 DEF LocalTypeOK, KeysOff, InitWhenAbsent
  <2>3. (Untouched => Untouched') /\ (Newer => Newer') /\ (UpToDate => UpToDate')
        /\ \A top \in Nat : OnCourse(top) => OnCourse(top)'
    BY <2>1 DEF Untouched, Newer, UpToDate, OnCourse
  <2>4. LocalFile => LocalFile'
    BY <2>1, <2>3 DEF LocalFile
  <2> QED
    BY <2>1, <2>2, <2>4 DEF LocalInv, Straight
<1>2. CASE Next
  <2>1. rewound => rewound'
    <3>1. ASSUME NEW p \in Procs, NEW mode, NEW root, FindFile(p, mode, root)
          PROVE  rewound' = rewound
      BY <3>1 DEF FindFile
    <3>2. ASSUME NEW p \in Procs, UpgradeOne(p)
          PROVE  rewound => rewound'
      BY <3>2 DEF UpgradeOne
    <3>3. ASSUME NEW p \in Procs,
                 \/ SqliteOpen(p) \/ InitDb(p) \/ ReadVersion(p) \/ UpgradeReadonly(p)
                 \/ SqlFails(p) \/ Prepare(p) \/ Close(p) \/ Crash(p)
          PROVE  rewound' = rewound
      BY <3>3 DEF SqliteOpen, InitDb, ReadVersion, UpgradeReadonly, SqlFails, Prepare, Close,
                  Crash
    <3> QED
      BY <1>2, <3>1, <3>2, <3>3 DEF Next
  <2>2. CASE rewound
    BY <2>1, <2>2 DEF LocalInv
  <2>3. CASE rewound'
    BY <2>3 DEF LocalInv
  <2>4. CASE ~rewound /\ ~rewound'
    <3>1. Straight
      BY <2>4 DEF LocalInv
    <3>2. PICK p \in Procs :
             \/ \E mode \in Modes, root \in BOOLEAN : FindFile(p, mode, root)
             \/ SqliteOpen(p) \/ InitDb(p) \/ ReadVersion(p) \/ UpgradeReadonly(p)
             \/ UpgradeOne(p) \/ SqlFails(p) \/ Prepare(p) \/ Close(p) \/ Crash(p)
      BY <1>2 DEF Next
    <3>3. CASE \E mode \in Modes, root \in BOOLEAN : FindFile(p, mode, root)
      BY <3>1, <3>3, FindFileStep DEF LocalInv
    <3>4. CASE SqliteOpen(p)
      BY <3>1, <3>4, SqliteOpenStep DEF LocalInv
    <3>5. CASE InitDb(p)
      BY <3>1, <3>5, InitDbStep DEF LocalInv
    <3>6. CASE ReadVersion(p)
      BY <3>1, <3>6, ReadVersionStep DEF LocalInv
    <3>7. CASE UpgradeReadonly(p) \/ SqlFails(p)
      BY <3>1, <3>7, GivesUp DEF UpgradeReadonly, SqlFails, LocalInv
    <3>8. CASE UpgradeOne(p)
      BY <2>4, <3>1, <3>8, UpgradeOneStep DEF LocalInv
    <3>9. CASE Prepare(p)
      BY <3>1, <3>9, PrepareStep DEF LocalInv
    <3>10. CASE Close(p) \/ Crash(p)
      BY <3>1, <3>10, ClosedFits DEF Close, Crash, LocalInv
    <3> QED
      BY <3>2, <3>3, <3>4, <3>5, <3>6, <3>7, <3>8, <3>9, <3>10
  <2> QED
    BY <2>2, <2>3, <2>4
<1> QED
  BY <1>1, <1>2

LEMMA LocalAlways == Spec => []LocalInv
BY LocalInitial, LocalStep, PTL DEF Spec

\* pkgdb_upgrade and pkgdb_init of any number of commands lead to one schema,
\* the one of a new database, unless a script was run again.
THEOREM OneSchema == Spec => []UpgradeComplete
<1>1. LocalInv => UpgradeComplete
  <2> SUFFICES ASSUME Straight, file # Absent
               PROVE  /\ file.version = DBVERSION => Covers(file, NewDatabase)
                      /\ UpToDate
    BY DEF LocalInv, UpgradeComplete, UpToDate
  <2>1. ~Untouched
    BY DEF Untouched
  <2>2. ASSUME NEW top \in Nat, OnCourse(top), start \in OldVersions, file.version = DBVERSION
        PROVE  Covers(file, NewDatabase)
    BY <2>2, CourseFacts DEF OnCourse
  <2>3. Newer => file.version # DBVERSION
    BY StartVersions, NewerVersion DEF Newer, Straight, LocalTypeOK, DBVERSION
  <2> QED
    BY <2>1, <2>2, <2>3 DEF Straight, LocalFile
<1> QED
  BY <1>1, LocalAlways, PTL

\* No script, interleaved with any others, loses a stored value that is not
\* given up on purpose (db_upgrades).
THEOREM ValuesKept == Spec => []DataKept
<1>1. LocalInv => DataKept
  <2> SUFFICES ASSUME Straight, Known
               PROVE  Stored[start] \ Kept(file) \subseteq GivenUp
    BY DEF LocalInv, DataKept
  <2>1. start # Absent /\ start \in 11..DBVERSION /\ start \in Starts
    BY DEF Known, Straight, LocalTypeOK
  <2>2. Stored[start] = Made(start).cols
    BY <2>1 DEF Stored
  <2>3. ~Untouched /\ ~Newer
    BY <2>1 DEF Untouched, Newer, DBVERSION
  <2>4. start \in OldVersions /\ \E top \in Nat : OnCourse(top)
    BY <2>3 DEF Straight, LocalFile
  <2>5. Made(start).cols \ Kept(file) \subseteq GivenUp
    BY <2>1, <2>4, CourseFacts DEF OnCourse
  <2> QED
    BY <2>2, <2>5
<1> QED
  BY <1>1, LocalAlways, PTL

\* However many commands gave up or died between two transactions of
\* pkgdb_upgrade or pkgdb_init, the next one can go on.
THEOREM AlwaysOpenable == Spec => []StaysOpenable
<1>1. LocalInv => StaysOpenable
  <2> SUFFICES ASSUME Straight, Exists, Known \/ start = Absent
               PROVE  Openable(file)
    BY DEF LocalInv, StaysOpenable
  <2>1. ~Untouched
    BY DEF Untouched, Exists
  <2>2. ~Newer
    BY DEF Known, Newer, DBVERSION
  <2>3. start \in OldVersions /\ \E top \in Nat : OnCourse(top)
    BY <2>1, <2>2 DEF Straight, LocalFile
  <2>4. start \in 11..DBVERSION \/ (start = Absent /\ "packages" \in Tables(file))
    BY DEF Known, Exists
  <2> QED
    BY <2>3, <2>4, CourseFacts DEF OnCourse
<1> QED
  BY <1>1, LocalAlways, PTL

LEMMA FindFileOfOne ==
    ASSUME LocalTypeOK, NEW q \in Procs, NEW mode \in Modes, NEW root \in BOOLEAN,
           FindFile(q, mode, root)
    PROVE  LocalOthers(q)
<1> DEFINE r == [Closed(proc[q].opens + 1) EXCEPT
                   !.pc = IF pkgdb_check_access(mode, root) = "ok" THEN "file" ELSE "fatal",
                   !.root = root, !.create = (file = Absent)]
<1>1. proc' = [proc EXCEPT ![q] = r]
  BY DEF FindFile
<1> HIDE DEF r
<1> QED
  BY <1>1, OneCommand

LEMMA StepOfOne ==
    ASSUME LocalTypeOK, NEW q \in Procs,
           \/ \E mode \in Modes, root \in BOOLEAN : FindFile(q, mode, root)
           \/ SqliteOpen(q) \/ InitDb(q) \/ ReadVersion(q) \/ UpgradeReadonly(q)
           \/ UpgradeOne(q) \/ SqlFails(q) \/ Prepare(q) \/ Close(q) \/ Crash(q)
    PROVE  LocalOthers(q)
<1>1. proc = [p \in Procs |-> proc[p]]
  BY DEF LocalTypeOK
<1>2. ASSUME NEW pc, Goto(q, pc) PROVE LocalOthers(q)
  BY <1>1, <1>2 DEF Goto, LocalOthers
<1>3. CASE \E mode \in Modes, root \in BOOLEAN : FindFile(q, mode, root)
  BY <1>3, FindFileOfOne
<1>4. CASE SqliteOpen(q)
  BY <1>2, <1>4 DEF SqliteOpen
<1>5. CASE InitDb(q)
  BY <1>2, <1>5 DEF InitDb
<1>6. CASE UpgradeReadonly(q) \/ SqlFails(q)
  BY <1>2, <1>6 DEF UpgradeReadonly, SqlFails
<1>7. CASE Close(q) \/ Crash(q)
  <2>1. proc' = [proc EXCEPT ![q] = Closed(proc[q].opens)]
    BY <1>7 DEF Close, Crash
  <2> QED
    BY <2>1, OneCommand
<1>8. CASE ReadVersion(q)
  BY <1>1, <1>8 DEF ReadVersion, LocalOthers
<1>9. CASE Prepare(q)
  BY <1>1, <1>9 DEF Prepare, LocalOthers
<1>10. CASE UpgradeOne(q)
  <2> DEFINE v == proc[q].version + 1
             after == Upgraded(file, v, proc[q].fk)
             pc == IF ~after.ok THEN "fatal" ELSE IF v = DBVERSION THEN "repos" ELSE "upgrade"
  <2>1. proc' = [proc EXCEPT ![q].version = v, ![q].pc = pc]
    BY <1>10, Zenon DEF UpgradeOne
  <2> HIDE DEF v, pc
  <2> QED
    BY <1>1, <2>1 DEF LocalOthers
<1> QED
  BY <1>3, <1>4, <1>5, <1>6, <1>7, <1>8, <1>9, <1>10

\* In the loop of pkgdb_upgrade, a command behind another one is stopped by the
\* first script it runs again, which changes nothing.
THEOREM StaleRefused == Spec => StaleUpgradeRefused
<1>1. LocalInv /\ [Next]_vars =>
         [\A p \in Procs : (Passed(p) /\ proc'[p] # proc[p]) =>
             file' = file /\ proc'[p].pc \in {"fatal", "closed"}]_vars
  <2> SUFFICES ASSUME LocalInv, Next, NEW p \in Procs, Passed(p), proc'[p] # proc[p]
               PROVE  file' = file /\ proc'[p].pc \in {"fatal", "closed"}
    BY DEF vars
  <2>1. Straight /\ proc[p].pc = "upgrade" /\ file # Absent
        /\ file.version > proc[p].version /\ proc[p].version + 1 \notin Rerunnable
    BY DEF LocalInv, Passed
  <2>2. PICK q \in Procs :
           \/ \E mode \in Modes, root \in BOOLEAN : FindFile(q, mode, root)
           \/ SqliteOpen(q) \/ InitDb(q) \/ ReadVersion(q) \/ UpgradeReadonly(q)
           \/ UpgradeOne(q) \/ SqlFails(q) \/ Prepare(q) \/ Close(q) \/ Crash(q)
    BY DEF Next
  <2>3. q = p
    BY <2>1, <2>2, StepOfOne DEF LocalOthers, Straight
  <2>4. UpgradeReadonly(p) \/ SqlFails(p) \/ Crash(p) \/ UpgradeOne(p)
    <3>1. ~\E mode \in Modes, root \in BOOLEAN : FindFile(p, mode, root)
      BY <2>1 DEF FindFile
    <3>2. ~SqliteOpen(p) /\ ~InitDb(p) /\ ~ReadVersion(p) /\ ~Prepare(p) /\ ~Close(p)
      BY <2>1 DEF SqliteOpen, InitDb, ReadVersion, Prepare, Close
    <3> QED
      BY <2>2, <2>3, <3>1, <3>2
  <2>5. CASE UpgradeReadonly(p) \/ SqlFails(p)
    <3>1. Goto(p, "fatal") /\ file' = file
      BY <2>5 DEF UpgradeReadonly, SqlFails
    <3> QED
      BY <2>1, <3>1, GoneTo DEF LocalSteps, Straight
  <2>6. CASE Crash(p)
    <3>1. proc' = [proc EXCEPT ![p] = Closed(proc[p].opens)] /\ file' = file
      BY <2>6 DEF Crash
    <3>2. proc'[p] = Closed(proc[p].opens)
      BY <2>1, <3>1, OneCommand DEF Straight
    <3> QED
      BY <3>1, <3>2 DEF Closed
  <2>7. CASE UpgradeOne(p)
    <3>1. start \in OldVersions /\ \E top \in Nat : OnCourse(top)
      BY <2>1 DEF Straight, LocalFile, Untouched, Newer
    <3>2. PICK top \in Nat : OnCourse(top)
      BY <3>1
    <3>3. proc[p].version \in First(start)..top /\ <<file, top>> \in Course(start)
      BY <2>1, <3>2 DEF OnCourse
    <3>4. ~Upgraded(file, proc[p].version + 1, FALSE).ok
      BY <2>1, <3>1, <3>3, CourseFacts
    <3>5. ~proc[p].fk /\ proc[p].fk \in BOOLEAN
      BY <2>1, LocalCommandType DEF Straight, KeysOff
    <3>6. ~Upgraded(file, proc[p].version + 1, proc[p].fk).ok
      BY <3>4, <3>5
    <3>7. file' = file /\ proc' = [proc EXCEPT ![p].version = proc[p].version + 1,
                                              ![p].pc = "fatal"]
      BY <2>7, <3>6 DEF UpgradeOne
    <3> QED
      BY <2>1, <3>7, LocalCommandType DEF Straight, LocalTypeOK, LocalCommand
  <2> QED
    BY <2>4, <2>5, <2>6, <2>7
<1> QED
  BY <1>1, LocalAlways, PTL DEF Spec, StaleUpgradeRefused
=============================================================================
