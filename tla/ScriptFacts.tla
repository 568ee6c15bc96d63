---------------------------- MODULE ScriptFacts ----------------------------
(***************************************************************************)
(* What the scripts of db_upgrades (private/db_upgrades.h), pkgdb_init     *)
(* (pkgdb.c) and repo_upgrades (repo/binary/binary_private.h) make of each *)
(* database they may be run on: closed statements about fixed scripts,     *)
(* which TLC evaluates.  What any number of commands do to a database then *)
(* follows without looking into a script again.                            *)
(***************************************************************************)
EXTENDS PkgdbSchema, RepoSchema

IsDatabase(db) == {"version", "ok", "data"} \subseteq DOMAIN db

(***************************************************************************)
(* The local database.  The course from s, the version at the start: pairs *)
(* of a database and the highest version a command may go on from.  Any    *)
(* command may be at any of the versions passed so far.                    *)
(***************************************************************************)
First(s) == IF s = Absent THEN 0 ELSE s

\* The next script, and pkgdb_init in a file that was not there.
AfterScript(x) ==
    LET db == Upgraded(x[1], x[1].version + 1, FALSE)
    IN  IF x[2] = x[1].version /\ x[2] < DBVERSION /\ db.ok THEN {<<db, db.version>>} ELSE {}
AfterInit(s, x) ==
    IF s = Absent /\ Created(x[1]).ok THEN {<<Created(x[1]), x[2]>>} ELSE {}
Course(s) ==
    FoldLeft(LAMBDA xs, i : xs \cup UNION {AfterScript(x) \cup AfterInit(s, x) : x \in xs},
             {<<IF s = Absent THEN NoDatabase ELSE Made(s), First(s)>>},
             [i \in 1..(IF s = Absent THEN 3 ELSE DBVERSION - s) |-> i])

\* A script or pkgdb_init arrives in the course again, and a new schema is
\* what it ends with.
LeadsOn(s, x, course) ==
    /\ x[1] # Absent
    /\ x[2] \in First(s)..DBVERSION /\ x[1].version \in {x[2], DBVERSION}
    /\ x[1].version = DBVERSION => Covers(x[1], NewDatabase)
    /\ (x[2] = x[1].version /\ x[2] < DBVERSION) =>
          LET next == Upgraded(x[1], x[2] + 1, FALSE)
          IN  next.ok => <<next, x[2] + 1>> \in course /\ next.version = x[2] + 1
    /\ (s = Absent /\ Created(x[1]).ok) =>
          <<Created(x[1]), x[2]>> \in course /\ Created(x[1]).version = DBVERSION

\* A script that is behind fails, but for those that can be run again.
StaleFails(s, x) ==
    \A v \in First(s)..x[2] :
        (v < x[1].version /\ v + 1 \notin Rerunnable) => ~Upgraded(x[1], v + 1, FALSE).ok

\* From version 11 on every script succeeds, and nothing is lost.
GoesThrough(s, x) ==
    /\ s \in 11..DBVERSION => Openable(x[1]) /\ Made(s).cols \ Kept(x[1]) \subseteq GivenUp
    /\ (s = Absent /\ "packages" \in Tables(x[1])) => Openable(x[1])

OldVersions == {Absent, 0} \cup (10..DBVERSION)
ASSUME LocalScripts ==
    \A s \in OldVersions : LET course == Course(s) IN
        /\ <<IF s = Absent THEN NoDatabase ELSE Made(s), First(s)>> \in course
        /\ \A x \in course : LeadsOn(s, x, course) /\ StaleFails(s, x) /\ GoesThrough(s, x)
ASSUME NewerVersions ==
    /\ IsDatabase(NewDatabase)
    /\ \A s \in Starts \ {Absent} : s > DBVERSION => Made(s) # Absent

(***************************************************************************)
(* The database of a repository.  Its course: pairs of a database and the  *)
(* highest version a command may go on from.  Any command may be at any of *)
(* the versions passed so far, and run the next script at any time.        *)
(***************************************************************************)
OldRepos == {3} \cup (2001..REPO_SCHEMA_VERSION)
Higher(v, w) == IF v < w THEN w ELSE v

AfterChange(s, x) ==
    LET vs == {v \in Grandfathered(s)..x[2] : v < REPO_SCHEMA_VERSION}
        dbs == {db \in {Changed(x[1], v) : v \in vs} : db.ok}
    IN  {<<db, Higher(x[2], db.version)>> : db \in dbs}
RepoCourse(s) ==
    FoldLeft(LAMBDA xs, i : xs \cup UNION {AfterChange(s, x) : x \in xs},
             {<<MadeRepo(s), Grandfathered(s)>>}, [i \in 1..12 |-> i])

\* Whoever runs the next script arrives in the course again, the values stay,
\* and the last version is a whole schema.
RepoLeadsOn(s, x, course) ==
    /\ x[2] \in Grandfathered(s)..REPO_SCHEMA_VERSION
    /\ Grandfathered(x[1].version) \in Grandfathered(s)..x[2]
    /\ \A v \in Grandfathered(s)..x[2] :
          (v < REPO_SCHEMA_VERSION /\ Changed(x[1], v).ok) =>
              <<Changed(x[1], v), Higher(x[2], v + 1)>> \in course
RepoGoesThrough(s, x) ==
    /\ x[2] = REPO_SCHEMA_VERSION => Covers(x[1], NewRepo)
    /\ MadeRepo(s).cols \subseteq Kept(x[1])

ASSUME RepoFirst ==
    /\ IsDatabase(Repo2001) /\ IsDatabase(NewRepo)
    /\ RepoCreated.version = REPO_SCHEMA_VERSION /\ NewRepo.version = REPO_SCHEMA_VERSION
    /\ "repodata" \notin Tables(RepoCreated) /\ Covers(NewRepo, NewRepo)
ASSUME RepoScriptsLead ==
    \A s \in OldRepos : LET course == RepoCourse(s) IN
        /\ <<MadeRepo(s), Grandfathered(s)>> \in course
        /\ \A x \in course : RepoLeadsOn(s, x, course) /\ RepoGoesThrough(s, x)
=============================================================================
