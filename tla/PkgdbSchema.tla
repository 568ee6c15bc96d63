---------------------------- MODULE PkgdbSchema ----------------------------
(***************************************************************************)
(* Opening the local database: pkgdb_access, pkgdb_open_all, pkgdb_init    *)
(* and pkgdb_upgrade of src/libpkg/pkgdb.c.  Several commands open the     *)
(* same file; each reads user_version once and then goes through the       *)
(* scripts with a counter of its own, one transaction per version, and may *)
(* die between any two of them.                                            *)
(***************************************************************************)
EXTENDS PkgdbScripts

CONSTANTS
    Procs,          \* the commands
    Starts,         \* user_version of the database at the start
    Absent,         \* no local.sqlite
    MaxCrashes,     \* bound: deaths
    MaxOpens        \* bound: opens of one command

ASSUME BoundsAssumption == MaxCrashes \in Nat /\ MaxOpens \in Nat \ {0}

\* The versions Made has a database for.
ASSUME StartsAssumption ==
    /\ Absent \notin Nat
    /\ \A s \in Starts : s = Absent \/ (s \in Nat /\ (s = 0 \/ s >= 10))

VARIABLES
    start,      \* what the first command found: a version or Absent
    lax,        \* others may write the file, or it has the wrong owner
    file,       \* local.sqlite: a database or Absent
    proc,       \* the state of each command
    rewound,    \* a script was run on a database that had it behind it
    crashes     \* deaths so far

vars == <<start, lax, file, proc, rewound, crashes>>

\* Fault: the foreign keys are switched on before the upgrade.
ClosedWithKeys(opens) ==
    [pc |-> "closed", root |-> FALSE, create |-> FALSE, version |-> 0, fk |-> TRUE,
     opens |-> opens]

\* create: pkgdb_init is due; version: db_version; fk: the foreign_keys pragma.
Closed(opens) ==
    [pc |-> "closed", root |-> FALSE, create |-> FALSE, version |-> 0, fk |-> FALSE,
     opens |-> opens]

Init ==
    /\ start \in Starts
    /\ lax \in {b \in BOOLEAN : b => start # Absent}
    /\ file = IF start = Absent THEN Absent ELSE Made(start)
    /\ proc = [p \in Procs |-> Closed(0)]
    /\ rewound = FALSE
    /\ crashes = 0

Goto(p, pc) == proc' = [proc EXCEPT ![p].pc = pc]
Writer(p) == proc[p].root

(***************************************************************************)
(* pkgdb_access and the start of pkgdb_open_all: what the command finds    *)
(* decides whether it will create the tables.  The mode it asks for is     *)
(* "read", or "write" with the right to create the database.               *)
(***************************************************************************)
Modes == {"read", "write"}

pkgdb_is_insecure_mode == file # Absent /\ lax

pkgdb_check_access(mode, root) ==
    IF pkgdb_is_insecure_mode THEN "insecure"
    ELSE IF file = Absent /\ mode = "read" THEN "nodb"
    ELSE IF mode = "write" /\ ~root THEN "noaccess" ELSE "ok"

FindFile(p, mode, root) ==
    /\ proc[p].pc = "closed"
    /\ proc[p].opens < MaxOpens
    /\ proc' = [proc EXCEPT ![p] =
           [Closed(@.opens + 1) EXCEPT
                !.pc = IF pkgdb_check_access(mode, root) = "ok" THEN "file" ELSE "fatal",
                !.root = root,
                !.create = (file = Absent)]]
    /\ UNCHANGED <<start, lax, file, rewound, crashes>>

\* sqlite3_open makes an empty file when there is none.
SqliteOpen(p) ==
    /\ proc[p].pc = "file"
    /\ file' = IF file = Absent THEN NoDatabase ELSE file
    /\ Goto(p, IF proc[p].create THEN "init" ELSE "read")
    /\ UNCHANGED <<start, lax, rewound, crashes>>

\* pkgdb_init in one transaction; a table that exists ends it.
InitDb(p) ==
    /\ proc[p].pc = "init"
    /\ LET after == Created(file)
       IN  /\ file' = IF after.ok THEN after ELSE file
           /\ Goto(p, IF after.ok THEN "read" ELSE "fatal")
    /\ UNCHANGED <<start, lax, rewound, crashes>>

(***************************************************************************)
(* pkgdb_upgrade.                                                          *)
(***************************************************************************)
Compatible(v) == v \div 1000 <= DB_SCHEMA_MAJOR

ReadVersion(p) ==
    /\ proc[p].pc = "read"
    /\ proc' = [proc EXCEPT
           ![p].version = file.version,
           ![p].pc = IF file.version = DBVERSION THEN "repos"
                     ELSE IF file.version > DBVERSION
                          THEN IF Compatible(file.version) THEN "repos" ELSE "fatal"
                     ELSE "upgrade"]
    /\ UNCHANGED <<start, lax, file, rewound, crashes>>

\* The database is outdated and opened readonly.
UpgradeReadonly(p) ==
    /\ proc[p].pc = "upgrade"
    /\ ~Writer(p)
    /\ Goto(p, "fatal")
    /\ UNCHANGED <<start, lax, file, rewound, crashes>>

\* Fault: user_version is only written after the last script.
UpgradeOneUnstamped(p) ==
    /\ proc[p].pc = "upgrade"
    /\ Writer(p)
    /\ LET next == proc[p].version + 1
           after == Upgraded(file, next, proc[p].fk)
       IN  /\ file' = IF ~after.ok THEN file
                      ELSE IF next = DBVERSION THEN after
                      ELSE [after EXCEPT !.version = file.version]
           /\ proc' = [proc EXCEPT
                  ![p].version = next,
                  ![p].pc = IF ~after.ok THEN "fatal"
                            ELSE IF next = DBVERSION THEN "repos" ELSE "upgrade"]
    /\ UNCHANGED <<start, lax, rewound, crashes>>

\* Faults: the loop ends a version too early; a script another command has run
\* may fail.
UpgradeOneShort(p) ==
    /\ proc[p].pc = "upgrade"
    /\ Writer(p)
    /\ LET next == proc[p].version + 1
           after == Upgraded(file, next, proc[p].fk)
       IN  /\ file' = IF after.ok THEN after ELSE file
           /\ rewound' = (rewound \/ (after.ok /\ file.version >= next))
           /\ proc' = [proc EXCEPT
                  ![p].version = next,
                  ![p].pc = IF ~after.ok THEN "fatal"
                            ELSE IF next = DBVERSION - 1 THEN "repos" ELSE "upgrade"]
    /\ UNCHANGED <<start, lax, crashes>>
UpgradeOneTolerant(p) ==
    /\ proc[p].pc = "upgrade"
    /\ Writer(p)
    /\ LET next == proc[p].version + 1
           after == Upgraded(file, next, proc[p].fk)
       IN  /\ file' = IF after.ok THEN after ELSE file
           /\ rewound' = (rewound \/ (after.ok /\ file.version >= next))
           /\ proc' = [proc EXCEPT
                  ![p].version = next,
                  ![p].pc = IF ~after.ok /\ file.version < next THEN "fatal"
                            ELSE IF next = DBVERSION THEN "repos" ELSE "upgrade"]
    /\ UNCHANGED <<start, lax, crashes>>

UpgradeOne(p) ==
    /\ proc[p].pc = "upgrade"
    /\ Writer(p)
    /\ LET next == proc[p].version + 1
           after == Upgraded(file, next, proc[p].fk)
       IN  /\ file' = IF after.ok THEN after ELSE file
           /\ rewound' = (rewound \/ (after.ok /\ file.version >= next))
           /\ proc' = [proc EXCEPT
                  ![p].version = next,
                  ![p].pc = IF ~after.ok THEN "fatal"
                            ELSE IF next = DBVERSION THEN "repos" ELSE "upgrade"]
    /\ UNCHANGED <<start, lax, crashes>>

\* BEGIN, a statement or COMMIT finds the database busy for too long, or the
\* disk is full: the transaction is rolled back and the open fails.
SqlFails(p) ==
    /\ proc[p].pc \in {"init", "read", "upgrade"}
    /\ Goto(p, "fatal")
    /\ UNCHANGED <<start, lax, file, rewound, crashes>>

\* PRAGMA foreign_keys, the repositories, and prstmt_initialize.
Prepare(p) ==
    /\ proc[p].pc = "repos"
    /\ proc' = [proc EXCEPT ![p].fk = TRUE,
                            ![p].pc = IF Prepared(file) THEN "open" ELSE "fatal"]
    /\ UNCHANGED <<start, lax, file, rewound, crashes>>

\* pkgdb_close, by the command or by the failed open.
Close(p) ==
    /\ proc[p].pc \in {"open", "fatal"}
    /\ proc' = [proc EXCEPT ![p] = Closed(@.opens)]
    /\ UNCHANGED <<start, lax, file, rewound, crashes>>

Crash(p) ==
    /\ proc[p].pc # "closed"
    /\ crashes < MaxCrashes
    /\ crashes' = crashes + 1
    /\ proc' = [proc EXCEPT ![p] = Closed(@.opens)]
    /\ UNCHANGED <<start, lax, file, rewound>>

Next ==
    \E p \in Procs :
        \/ \E mode \in Modes, root \in BOOLEAN : FindFile(p, mode, root)
        \/ SqliteOpen(p) \/ InitDb(p) \/ ReadVersion(p) \/ UpgradeReadonly(p)
        \/ UpgradeOne(p) \/ SqlFails(p) \/ Prepare(p) \/ Close(p) \/ Crash(p)

Spec == Init /\ [][Next]_vars

(***************************************************************************)
(* Properties.                                                             *)
(***************************************************************************)
Known == start # Absent /\ start \in 11..DBVERSION
Exists == file # Absent /\ "packages" \in Tables(file)

\* pkgdb_upgrade and pkgdb_init lead to one schema: when no script has been
\* run twice, a command whose upgrade has returned, and a database that says
\* it has DBVERSION, has every table, column, reference, view, trigger and
\* unique index of a new one.
UpgradeComplete ==
    (~rewound /\ file # Absent) =>
        /\ file.version = DBVERSION => Covers(file, NewDatabase)
        /\ \A p \in Procs :
              proc[p].pc \in {"repos", "open"} => file.version >= DBVERSION

\* No script loses what an earlier version stored, but for the columns that
\* scripts 13 (infos) and 25 (locked, manifestdigest) leave out and the lock
\* rows that script 24 clears.
Stored == [v \in Starts \ {Absent} |-> Made(v).cols]
GivenUp ==
    {<<"packages", "infos">>, <<"packages", "locked">>, <<"packages", "manifestdigest">>}
    \cup ({"pkg_lock"} \X {"exclusive", "advisory", "read"})
    \cup ({"pkg_lock_pid"} \X {"pid"})
DataKept == (~rewound /\ Known) => Stored[start] \ Kept(file) \subseteq GivenUp

\* Wherever a command dies or gives up, the database it leaves can be opened:
\* the scripts from its user_version on succeed.
Openable(db) ==
    LET rest == IF db.version < DBVERSION THEN UpgradedTo(db, DBVERSION) ELSE db
    IN  rest.ok /\ Prepared(rest)
StaysOpenable ==
    (/\ \A p \in Procs : proc[p].pc = "closed"
     /\ ~rewound /\ Exists /\ (Known \/ start = Absent)) => Openable(file)

\* A command that upgrades with a version another one has already passed is
\* stopped by its first script, which leaves the database as it is, unless
\* that script is one of the few that can be run again.
Rerunnable == {13, 15, 16, 19, 24, 27}
Passed(p) ==
    /\ proc[p].pc = "upgrade" /\ ~rewound
    /\ file # Absent /\ file.version > proc[p].version
    /\ proc[p].version + 1 \notin Rerunnable
StaleUpgradeRefused ==
    [][\A p \in Procs :
         (Passed(p) /\ proc'[p] # proc[p])
            => file' = file /\ proc'[p].pc \in {"fatal", "closed"}]_vars

=============================================================================
