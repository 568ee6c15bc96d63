----------------------------- MODULE PkgdbLock -----------------------------
(***************************************************************************)
(* The lock that pkg(8) processes take on local.sqlite: the single row of  *)
(* table pkg_lock, the table pkg_lock_pid of the holders' process ids, and *)
(* the functions of libpkg/pkgdb.c that obtain, upgrade, downgrade and     *)
(* release the lock.                                                       *)
(*                                                                         *)
(* Every SQL statement is committed on its own, so a statement is the      *)
(* atomic step of this model, and pkgdb_obtain_lock is a loop of them:     *)
(*                                                                         *)
(*    "update"   run lock_sql; no row changed means the lock is taken      *)
(*    "check"    pkgdb_check_lock_pid: drop dead pids, look for live ones  *)
(*    "reset"    pkgdb_reset_lock, no live process was found               *)
(*    "drop"     an upgrade that did a reset gives up its own pid          *)
(*    "writepid" pkgdb_write_lock_pid                                      *)
(*    "unlock"   run unlock_sql                                            *)
(*    "rmpid"    pkgdb_remove_lock_pid at the end of a release             *)
(*    "body"     the command runs between two lock calls                   *)
(*    "exited"   no process has this pid                                   *)
(***************************************************************************)
EXTENDS Integers, FiniteSets

CONSTANTS
    Proc,           \* process ids; an id is reused once its process is gone
    Unprivileged,   \* processes that can open the database only for reading
    READ_LOCK,      \* the option: do readers take a lock at all
    LOCK_WAIT,      \* the option: seconds between two tries, 0 for none
    LOCK_RETRIES,   \* the option: tries after the first one
    Packages,       \* packages that one pkg check rewrites
    Commands,       \* the kinds of command that are run
    MaxStarts,      \* bound: commands started
    MaxFailures     \* bound: crashes and failed statements

AllCommands == {"reader", "writer", "jobs", "check"}

ASSUME LockAssumption ==
    /\ IsFiniteSet(Proc)
    /\ Unprivileged \subseteq Proc
    /\ READ_LOCK \in BOOLEAN
    /\ LOCK_WAIT \in Nat
    /\ LOCK_RETRIES \in Nat
    /\ Packages \in Nat
    /\ Commands \subseteq AllCommands
    /\ MaxStarts \in Nat
    /\ MaxFailures \in Nat

VARIABLES
    row,        \* the row of pkg_lock
    pids,       \* the rows of pkg_lock_pid
    pc,         \* the statement each process runs next
    cmd,        \* the command each process executes
    stage,      \* how far that command has come
    req,        \* the lock the current call obtains, converts or releases
    rounds,     \* packages the current pkg check has upgraded for
    tries,      \* the counter of pkgdb_try_lock
    held,       \* the locks the database granted to the process
    robbed,     \* history: live processes whose lock another one took away
    mishap,     \* history: a crash, a failed statement or a reset happened
    started,    \* commands started, up to MaxStarts
    failures    \* crashes and failed statements, up to MaxFailures

vars == <<row, pids, pc, cmd, stage, req, rounds, tries, held, robbed,
          mishap, started, failures>>

Locks == {"R", "A", "X"}            \* READONLY, ADVISORY, EXCLUSIVE
Requests == Locks \cup {"AX", "XA"} \* with the upgrade and the downgrade
CallPc == {"update", "check", "reset", "drop", "writepid", "unlock", "rmpid"}
Stages == {"none", "start", "refused", "granted", "upgrading", "upgraded",
           "downgrading", "finished", "closing"}

TypeOK ==
    /\ row \in [exclusive : {0, 1}, advisory : {0, 1}, read : Nat]
    /\ pids \in SUBSET Proc
    /\ pc \in [Proc -> CallPc \cup {"body", "exited"}]
    /\ cmd \in [Proc -> AllCommands]
    /\ stage \in [Proc -> Stages]
    /\ req \in [Proc -> Requests]
    /\ rounds \in [Proc -> 0 .. Packages]
    /\ tries \in [Proc -> 0 .. LOCK_RETRIES]
    /\ held \in [Proc -> SUBSET Locks]
    /\ robbed \in SUBSET Proc
    /\ mishap \in BOOLEAN
    /\ started \in 0 .. MaxStarts
    /\ failures \in 0 .. MaxFailures

Unlocked == [exclusive |-> 0, advisory |-> 0, read |-> 0]

Init ==
    /\ row = Unlocked
    /\ pids = {}
    /\ pc = [p \in Proc |-> "exited"]
    /\ cmd = [p \in Proc |-> "reader"]
    /\ stage = [p \in Proc |-> "none"]
    /\ req = [p \in Proc |-> "R"]
    /\ rounds = [p \in Proc |-> 0]
    /\ tries = [p \in Proc |-> 0]
    /\ held = [p \in Proc |-> {}]
    /\ robbed = {}
    /\ mishap = FALSE
    /\ started = 0
    /\ failures = 0

---------------------------------------------------------------------------
(* The statements.                                                         *)

Alive == {p \in Proc : pc[p] # "exited"}

\* Fault: the exclusive WHERE clause forgets the readers.
GrantableIgnoringReaders(r) ==
    CASE r = "R"  -> row.exclusive = 0
      [] r \in {"A", "X"} -> row.exclusive = 0 /\ row.advisory = 0
      [] r = "AX" -> row.exclusive = 0 /\ row.advisory = 1
      [] r = "XA" -> row.exclusive = 1 /\ row.advisory = 1

\* The WHERE clause of lock_sql.
Grantable(r) ==
    CASE r = "R"  -> row.exclusive = 0
      [] r = "A"  -> row.exclusive = 0 /\ row.advisory = 0
      [] r = "X"  -> row = Unlocked
      [] r = "AX" -> row = [Unlocked EXCEPT !.advisory = 1]
      [] r = "XA" -> row = [exclusive |-> 1, advisory |-> 1, read |-> 0]

\* Fault: the read lock is a flag instead of a counter.
GrantedReadFlag(r) ==
    CASE r = "R"  -> [row EXCEPT !.read = 1]
      [] r = "A"  -> [row EXCEPT !.advisory = 1]
      [] r = "X"  -> [row EXCEPT !.exclusive = 1]
      [] r = "AX" -> [row EXCEPT !.exclusive = 1, !.advisory = 1]
      [] r = "XA" -> [row EXCEPT !.exclusive = 0, !.advisory = 1]

\* The SET clause of lock_sql.
Granted(r) ==
    CASE r = "R"  -> [row EXCEPT !.read = @ + 1]
      [] r = "A"  -> [row EXCEPT !.advisory = 1]
      [] r = "X"  -> [row EXCEPT !.exclusive = 1]
      [] r = "AX" -> [row EXCEPT !.exclusive = 1, !.advisory = 1]
      [] r = "XA" -> [row EXCEPT !.exclusive = 0, !.advisory = 1]

\* The WHERE and the SET clause of unlock_sql.
Releasable(l) ==
    CASE l = "R" -> row.read > 0
      [] l = "A" -> row.advisory = 1
      [] l = "X" -> row.exclusive = 1

Released(l) ==
    CASE l = "R" -> [row EXCEPT !.read = @ - 1]
      [] l = "A" -> [row EXCEPT !.advisory = 0]
      [] l = "X" -> [row EXCEPT !.exclusive = 0]

\* What a process holds once its request is granted.
HeldAfter(h, r) ==
    CASE r \in Locks -> h \cup {r}
      [] r = "AX"    -> h \cup {"A", "X"}
      [] r = "XA"    -> (h \ {"X"}) \cup {"A"}

---------------------------------------------------------------------------
(* History: whom a statement of p robs.  A holder is robbed when the row   *)
(* no longer covers its lock although it did not release it, or when p is  *)
(* granted an upgrade on the strength of the holder's advisory lock.       *)

Holders(l) == {q \in Proc \ robbed : l \in held[q]}

RobbedByReset(p) == {q \in Proc \ {p} : held[q] # {}}

RobbedByGrant(p, r) ==
    IF r \in Locks THEN {} ELSE (Holders("A") \cup Holders("X")) \ {p}

RobbedByRelease(p, l) ==
    IF l = "R"
    THEN IF row.read - 1 < Cardinality(Holders("R") \ {p})
         THEN Holders("R") \ {p} ELSE {}
    ELSE Holders(l) \ {p}

Rob(victims) == robbed' = robbed \cup victims

---------------------------------------------------------------------------
(* The callers.  Readers (info, query, version, ..., and dry runs) take    *)
(* READONLY; add, set, annotate, lock and register take EXCLUSIVE; the     *)
(* job commands install, upgrade, delete and autoremove take ADVISORY and  *)
(* pkg_jobs_execute converts it; check takes ADVISORY and converts it back *)
(* and forth.                                                              *)

BaseLock(c) ==
    CASE c = "reader" -> "R" [] c = "writer" -> "X" [] OTHER -> "A"

\* The process is gone: exit(2) or a crash.
Exit(p) ==
    /\ pc' = [pc EXCEPT ![p] = "exited"]
    /\ held' = [held EXCEPT ![p] = {}]
    /\ robbed' = robbed \ {p}

\* A call that obtains or converts a lock returns to the command.
ReturnOk(p) ==
    /\ pc' = [pc EXCEPT ![p] = "body"]
    /\ stage' = [stage EXCEPT ![p] =
          CASE @ = "start" -> "granted"
            [] @ = "upgrading" -> "upgraded"
            [] OTHER -> "granted"]

\* A refused command closes the database and exits; a refused upgrade ends
\* pkg_jobs_execute, while check goes on with the next package; check
\* ignores the result of a downgrade.
ReturnError(p) ==
    IF stage[p] = "start"
    THEN Exit(p) /\ stage' = [stage EXCEPT ![p] = "refused"]
    ELSE /\ pc' = [pc EXCEPT ![p] = "body"]
         /\ stage' = [stage EXCEPT ![p] =
              IF cmd[p] = "jobs" THEN "finished" ELSE "granted"]
         /\ UNCHANGED <<held, robbed>>

\* pkgdb_release_lock returns; its result is never looked at.
ReturnRelease(p) ==
    IF stage[p] = "closing"
    THEN Exit(p) /\ stage' = [stage EXCEPT ![p] = "none"]
    ELSE /\ pc' = [pc EXCEPT ![p] = "body"]
         /\ stage' = [stage EXCEPT ![p] = "finished"]
         /\ UNCHANGED <<held, robbed>>

\* A command starts and asks for its first lock.
Start(p, c) ==
    /\ pc[p] = "exited"
    /\ started < MaxStarts
    /\ p \in Unprivileged => c = "reader"
    /\ started' = started + 1
    /\ cmd' = [cmd EXCEPT ![p] = c]
    /\ req' = [req EXCEPT ![p] = BaseLock(c)]
    /\ rounds' = [rounds EXCEPT ![p] = 0]
    /\ tries' = [tries EXCEPT ![p] = 0]
    /\ IF c = "reader" /\ ~READ_LOCK
       THEN /\ pc' = [pc EXCEPT ![p] = "body"]
            /\ stage' = [stage EXCEPT ![p] = "granted"]
       ELSE /\ pc' = [pc EXCEPT ![p] = "update"]
            /\ stage' = [stage EXCEPT ![p] = "start"]
    /\ UNCHANGED <<row, pids, held, robbed, mishap, failures>>

\* pkg_jobs_execute, or pkg check for one package, wants to write.
Upgrade(p) ==
    /\ pc[p] = "body" /\ stage[p] = "granted"
    /\ \/ cmd[p] = "jobs"
       \/ cmd[p] = "check" /\ rounds[p] < Packages
    /\ rounds' = [rounds EXCEPT ![p] =
          IF cmd[p] = "check" THEN @ + 1 ELSE @]
    /\ pc' = [pc EXCEPT ![p] = "update"]
    /\ stage' = [stage EXCEPT ![p] = "upgrading"]
    /\ req' = [req EXCEPT ![p] = "AX"]
    /\ tries' = [tries EXCEPT ![p] = 0]
    /\ UNCHANGED <<row, pids, cmd, held, robbed, mishap, started, failures>>

\* The writing is done: pkg_jobs_execute releases EXCLUSIVE (and only
\* EXCLUSIVE), pkg check downgrades.
EndExecute(p) ==
    /\ pc[p] = "body" /\ stage[p] = "upgraded"
    /\ tries' = [tries EXCEPT ![p] = 0]
    /\ IF cmd[p] = "jobs"
       THEN /\ pc' = [pc EXCEPT ![p] = "unlock"]
            /\ req' = [req EXCEPT ![p] = "X"]
            /\ UNCHANGED stage
       ELSE /\ pc' = [pc EXCEPT ![p] = "update"]
            /\ req' = [req EXCEPT ![p] = "XA"]
            /\ stage' = [stage EXCEPT ![p] = "downgrading"]
    /\ UNCHANGED <<row, pids, cmd, rounds, held, robbed, mishap, started,
                   failures>>

\* The end of the command: it releases the lock it asked for at first.
Finish(p) ==
    /\ pc[p] = "body" /\ stage[p] \in {"granted", "finished"}
    /\ IF cmd[p] = "reader" /\ ~READ_LOCK
       THEN Exit(p) /\ stage' = [stage EXCEPT ![p] = "none"] /\ UNCHANGED req
       ELSE /\ pc' = [pc EXCEPT ![p] = "unlock"]
            /\ stage' = [stage EXCEPT ![p] = "closing"]
            /\ req' = [req EXCEPT ![p] = BaseLock(cmd[p])]
            /\ UNCHANGED <<held, robbed>>
    /\ UNCHANGED <<row, pids, cmd, rounds, tries, mishap, started, failures>>

---------------------------------------------------------------------------
(* pkgdb_try_lock.                                                         *)

\* lock_sql changed the row.
UpdateGranted(p) ==
    /\ pc[p] = "update" /\ p \notin Unprivileged
    /\ Grantable(req[p])
    /\ row' = Granted(req[p])
    /\ held' = [held EXCEPT ![p] = HeldAfter(@, req[p])]
    /\ Rob(RobbedByGrant(p, req[p]))
    /\ IF req[p] \in Locks
       THEN pc' = [pc EXCEPT ![p] = "writepid"] /\ UNCHANGED stage
       ELSE ReturnOk(p)
    /\ UNCHANGED <<pids, cmd, rounds, req, tries, mishap, started, failures>>

\* lock_sql changed nothing.
UpdateRefused(p) ==
    /\ pc[p] = "update" /\ p \notin Unprivileged
    /\ ~Grantable(req[p])
    /\ pc' = [pc EXCEPT ![p] = "check"]
    /\ UNCHANGED <<row, pids, cmd, rounds, stage, req, tries, held, robbed,
                   mishap, started, failures>>

\* SQLITE_READONLY is accepted for a read lock.
UpdateReadonly(p) ==
    /\ pc[p] = "update" /\ p \in Unprivileged
    /\ ReturnOk(p)
    /\ UNCHANGED <<row, pids, cmd, rounds, req, tries, held, robbed,
                   mishap, started, failures>>

\* Fault: a try is not counted.
RetryUncounted(p) ==
    IF LOCK_WAIT > 0 /\ tries[p] < LOCK_RETRIES
    THEN /\ pc' = [pc EXCEPT ![p] = "update"]
         /\ UNCHANGED <<stage, held, robbed, tries>>
    ELSE ReturnError(p) /\ UNCHANGED tries

\* One more round of the loop, or the end of it.
Retry(p) ==
    IF LOCK_WAIT > 0 /\ tries[p] < LOCK_RETRIES
    THEN /\ tries' = [tries EXCEPT ![p] = @ + 1]
         /\ pc' = [pc EXCEPT ![p] = "update"]
         /\ UNCHANGED <<stage, held, robbed>>
    ELSE ReturnError(p) /\ UNCHANGED tries

\* Fault: every row counts as a live process.
LiveOthersWithoutKill(p) == pids \ {p}

\* The rows of pkg_lock_pid for which kill(pid, 0) succeeds, p's own aside.
LiveOthers(p) == (pids \cap Alive) \ {p}

\* pkgdb_check_lock_pid removes the pids of dead processes and finds a live
\* one: wait and try again.
CheckFound(p) ==
    /\ pc[p] = "check"
    /\ LiveOthers(p) # {}
    /\ pids' = pids \cap (Alive \cup {p})
    /\ Retry(p)
    /\ UNCHANGED <<row, cmd, rounds, req, mishap, started, failures>>

\* It finds none.
CheckEnd(p) ==
    /\ pc[p] = "check"
    /\ LiveOthers(p) = {}
    /\ pids' = pids \cap {p}
    /\ pc' = [pc EXCEPT ![p] = "reset"]
    /\ UNCHANGED <<row, cmd, rounds, stage, req, tries, held, robbed,
                   mishap, started, failures>>

Reset(p) ==
    /\ pc[p] = "reset"
    /\ row' = Unlocked
    /\ held' = [held EXCEPT ![p] = {}]
    /\ Rob(RobbedByReset(p))
    /\ mishap' = TRUE
    /\ pc' = [pc EXCEPT ![p] = IF req[p] \in Locks THEN "update" ELSE "drop"]
    /\ UNCHANGED <<pids, cmd, rounds, stage, req, tries, started, failures>>

\* An upgrade or a downgrade that did a reset starts all over again.
Drop(p) ==
    /\ pc[p] = "drop"
    /\ pids' = pids \ {p}
    /\ req' = [req EXCEPT ![p] = IF @ = "AX" THEN "X" ELSE "A"]
    /\ tries' = [tries EXCEPT ![p] = 0]
    /\ pc' = [pc EXCEPT ![p] = "update"]
    /\ UNCHANGED <<row, cmd, rounds, stage, held, robbed, mishap, started,
                   failures>>

\* pid is the primary key: the INSERT fails if an earlier process with this
\* pid left its row behind.
WritePid(p) ==
    /\ pc[p] = "writepid"
    /\ pids' = pids \cup {p}
    /\ IF p \in pids
       THEN ReturnError(p)
       ELSE ReturnOk(p) /\ UNCHANGED <<held, robbed>>
    /\ UNCHANGED <<row, cmd, rounds, req, tries, mishap, started, failures>>

---------------------------------------------------------------------------
(* pkgdb_release_lock.                                                     *)

Unlock(p) ==
    /\ pc[p] = "unlock" /\ p \notin Unprivileged
    /\ Releasable(req[p])
    /\ row' = Released(req[p])
    /\ held' = [held EXCEPT ![p] = @ \ {req[p]}]
    /\ Rob(RobbedByRelease(p, req[p]))
    /\ pc' = [pc EXCEPT ![p] = "rmpid"]
    /\ UNCHANGED <<pids, cmd, rounds, stage, req, tries, mishap, started,
                   failures>>

\* EPKG_END (nothing to release), or the database cannot be written: the pid
\* is not removed.
UnlockEnd(p) ==
    /\ pc[p] = "unlock"
    /\ p \in Unprivileged \/ ~Releasable(req[p])
    /\ ReturnRelease(p)
    /\ UNCHANGED <<row, pids, cmd, rounds, req, tries, mishap, started,
                   failures>>

\* Fault: a release leaves the pid.
RemovePidForgotten(p) ==
    /\ pc[p] = "rmpid"
    /\ ReturnRelease(p)
    /\ UNCHANGED <<row, pids, cmd, rounds, req, tries, mishap, started,
                   failures>>

RemovePid(p) ==
    /\ pc[p] = "rmpid"
    /\ pids' = pids \ {p}
    /\ ReturnRelease(p)
    /\ UNCHANGED <<row, cmd, rounds, req, tries, mishap, started, failures>>

---------------------------------------------------------------------------
(* Failures.                                                               *)

\* SQLITE_BUSY: another connection kept the database file locked for longer
\* than the busy timeout.
DbBusy(p) == \E q \in Proc \ {p} : pc[q] = "body"

\* The statement p runs next fails.  A failed check counts as a live process
\* found; a failed reset or removal of a pid is ignored.
StatementFails(p) ==
    /\ failures < MaxFailures /\ DbBusy(p) /\ p \notin Unprivileged
    /\ failures' = failures + 1
    /\ mishap' = TRUE
    /\ \/ pc[p] \in {"update", "writepid"} /\ ReturnError(p)
          /\ UNCHANGED <<req, tries>>
       \/ pc[p] = "check" /\ Retry(p) /\ UNCHANGED req
       \/ /\ pc[p] = "reset"
          /\ pc' = [pc EXCEPT ![p] =
                IF req[p] \in Locks THEN "update" ELSE "drop"]
          /\ UNCHANGED <<stage, req, tries, held, robbed>>
       \/ /\ pc[p] = "drop"
          /\ req' = [req EXCEPT ![p] = IF @ = "AX" THEN "X" ELSE "A"]
          /\ tries' = [tries EXCEPT ![p] = 0]
          /\ pc' = [pc EXCEPT ![p] = "update"]
          /\ UNCHANGED <<stage, held, robbed>>
       \/ pc[p] \in {"unlock", "rmpid"} /\ ReturnRelease(p)
          /\ UNCHANGED <<req, tries>>
    /\ UNCHANGED <<row, pids, cmd, rounds, started>>

\* The process is killed; what it wrote to the lock tables stays.
Crash(p) ==
    /\ failures < MaxFailures /\ p \in Alive
    /\ failures' = failures + 1
    /\ mishap' = TRUE
    /\ Exit(p)
    /\ stage' = [stage EXCEPT ![p] = "none"]
    /\ UNCHANGED <<row, pids, cmd, rounds, req, tries, started>>

---------------------------------------------------------------------------

\* The steps inside a lock call.
CallStep(p) ==
    \/ UpdateGranted(p) \/ UpdateRefused(p) \/ UpdateReadonly(p)
    \/ CheckFound(p) \/ CheckEnd(p) \/ Reset(p) \/ Drop(p) \/ WritePid(p)
    \/ Unlock(p) \/ UnlockEnd(p) \/ RemovePid(p)

Next ==
    \E p \in Proc :
        \/ \E c \in Commands : Start(p, c)
        \/ Upgrade(p) \/ EndExecute(p) \/ Finish(p)
        \/ CallStep(p)
        \/ StatementFails(p) \/ Crash(p)

Spec == Init /\ [][Next]_vars

\* A process inside a lock call is run by the scheduler; nothing says that
\* the command around it ever ends (it may wait for an answer of the user).
FairSpec == Spec /\ \A p \in Proc : WF_vars(CallStep(p))

---------------------------------------------------------------------------
(* Properties.                                                             *)

Compatible(g, h) ==
    /\ "X" \in g => h = {}
    /\ "X" \in h => g = {}
    /\ ~("A" \in g /\ "A" \in h)

\* Two commands that were both told to go on hold compatible locks: no two
\* job commands at a time, nobody beside a writer.  FAQ.md says so of
\* parallel installs.
MutualExclusion ==
    \A p, q \in Proc :
        (p # q /\ pc[p] = "body" /\ pc[q] = "body")
            => Compatible(held[p], held[q])

\* The row and its WHERE clauses keep processes apart as long as no statement
\* of another process (a reset, a release or a conversion of a lock that is
\* not its own) took their lock away: the exclusion pkgdb_try_lock provides.
ExclusionUnlessRobbed ==
    \A p, q \in Proc \ robbed : p # q => Compatible(held[p], held[q])

\* The row never says less than its holders rely on: a holder nobody robbed
\* finds its bit set, and the read counter counts at least the readers, so
\* pkgdb_release_lock of a holder always has a row to change.
RowCoversHolders ==
    /\ Holders("X") # {} => row.exclusive = 1
    /\ Holders("A") # {} => row.advisory = 1
    /\ row.read >= Cardinality(Holders("R"))

\* Commands that ran to their end without a crash, a failed statement or a
\* reset leave no lock and no pid behind, whatever conversions and retries
\* they went through.  (After a reset they may: pkg check that had to take
\* EXCLUSIVE from scratch, and then failed to downgrade, releases an ADVISORY
\* lock that is not there and leaves the exclusive one.)
QuietMeansUnlocked ==
    (Alive = {} /\ ~mishap) => row = Unlocked /\ pids = {}

Service == INSTANCE LockService

\* Statement by statement, pkgdb_try_lock and pkgdb_release_lock are calls of
\* the lock service the commands of PkgCommands rely on.
ServiceImplemented == Service!Spec

\* Every call of the lock functions returns, however long the holders keep
\* their locks: LOCK_RETRIES bounds the loop, and the "continue" after a
\* reset, which does not count a try, does not run for ever.
CallReturns ==
    \A p \in Proc : pc[p] \in CallPc ~> pc[p] \notin CallPc

\* What dead processes left in the tables does not keep out a command that
\* runs alone: its request is granted, unless it is killed itself, somebody
\* else comes, or an earlier process left a row with this very pid.
StaleLockRecovered ==
    \A p \in Proc :
        (stage[p] = "start" /\ Alive = {p} /\ p \notin pids)
            ~> (stage[p] \in {"granted", "none"} \/ Alive \ {p} # {})
=============================================================================
