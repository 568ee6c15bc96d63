---------------------------- MODULE PkgCommands ----------------------------
(***************************************************************************)
(* The commands of pkg(8): what main() runs for each of them, as the order *)
(* in which it checks its access, opens the database, takes and converts   *)
(* the lock, reads, writes, asks the user, and gives everything back, with *)
(* the early return of every step that can fail.                           *)
(*                                                                         *)
(* A command is a sequence of steps.  The field fail of a step says where  *)
(* the command goes when the step fails: "return" at once, "close" to      *)
(* pkgdb_close and then return, "cleanup" to the label of that name, "on"  *)
(* to the next step (the result is only remembered), "skip" over the next  *)
(* step, "goto" to the step in the field to.                               *)
(*                                                                         *)
(* A lock call is one step here.  Its statements and their interleavings   *)
(* are the subject of PkgdbLock; both modules implement LockService.       *)
(***************************************************************************)
EXTENDS Integers, Sequences, FiniteSets

CONSTANTS
    Proc,       \* process ids; each process runs one command
    Rivals,     \* bound: commands that run beside any other command
    READ_LOCK   \* the option: do readers take a lock at all

VARIABLES
    row,        \* the row of pkg_lock
    pids,       \* the rows of pkg_lock_pid
    status,     \* "new", "running", "returned" or "gone"
    cmd,        \* the command a process runs
    at,         \* the step it runs next, or the one it returned from
    handle,     \* its struct pkgdb: "null", "open" or "closed"
    held,       \* the locks the database granted to it
    robbed      \* history: live processes whose lock another one took away

vars == <<row, pids, status, cmd, at, handle, held, robbed>>

---------------------------------------------------------------------------
(* The steps.                                                              *)

Step(op, arg, fail) == [op |-> op, arg |-> arg, fail |-> fail, to |-> 0]
OrGoto(step, to) == [step EXCEPT !.fail = "goto", !.to = to]

Work(fail)  == Step("work", "none", fail)       \* anything without the database
Open        == Step("open", "none", "return")
Obtain(l)   == Step("obtain", l, "close")
Convert(r, fail) == Step("convert", r, fail)
Release(l)  == Step("release", l, "on")
Read(fail)  == Step("read", "none", fail)
Write(fail) == Step("write", "X", fail)
Compact     == Step("write", "A", "on")     \* pkgdb_compact
Close       == Step("close", "none", "on")
Jump(to)    == OrGoto(Work("on"), to)       \* the end of a loop

Program(body, cleanup) ==
    [steps |-> body \o cleanup, cleanup |-> Len(body) + 1]

\* The usual frame: access, open, lock, the body, and back.
Framed(l, body) ==
    Program(<<Work("return"), Open, Obtain(l)>> \o body,
            <<Release(l), Close>>)

\* The same without pkgdb_access.
Bare(l, body) ==
    Program(<<Open, Obtain(l)>> \o body, <<Release(l), Close>>)

\* Fault: a refused upgrade of the lock is not looked at.
ApplyAnyway(fail) ==
    <<Convert("AX", "on"), Write("on"), Release("X")>>

\* pkg_jobs_apply of jobs that change the system: pkg_jobs_execute upgrades
\* the advisory lock, and gives back the exclusive one only.
Apply(fail) ==
    <<Convert("AX", fail), Write("on"), Release("X")>>

---------------------------------------------------------------------------
(* Commands that change the installed packages.                            *)

\* Every archive is added whether or not the one before it was.
add == Framed("X", <<Work("on"), Write("on"), Jump(4)>>)

\* do_add, do_modify and do_delete ask and then change one annotation.
Annotation == <<Work("skip"), Write("cleanup")>>

\* Fault: the early return of a refused query forgets the lock.
annotateLeaking ==
    Program(<<Work("cleanup"), Open, Obtain("X"), Read("close")>>
                \o Annotation \o <<Jump(5)>>,
            <<Release("X"), Close>>)

\* A refused access goes to cleanup, with no handle yet.
annotate ==
    Program(<<Work("cleanup"), Open, Obtain("X"), Read("cleanup")>>
                \o Annotation \o <<Jump(5)>>,
            <<Release("X"), Close>>)

\* pkg_jobs_new that fails closes the database and leaves the lock.
autoremove ==
    Framed("A", <<Read("close"), Read("cleanup"), Work("cleanup")>>
                    \o Apply("cleanup") \o <<Compact>>)

autoremove_n == Framed("R", <<Read("close"), Read("cleanup")>>)

delete ==
    Framed("A", <<Read("close"), Read("cleanup"), Read("cleanup"),
                  Work("cleanup")>> \o Apply("cleanup") \o <<Compact>>)

delete_n ==
    Framed("R", <<Read("close"), Read("cleanup"), Read("cleanup")>>)

\* install and upgrade update the catalogues first.  pkg_jobs_apply fetches
\* the packages and looks for conflicts before it executes anything; when it
\* found some and solved again, the command shows and asks once more.
Upgrading ==
    Program(<<Work("return"), Work("return"), Open, Obtain("A"),
              Read("cleanup"), Read("cleanup"), Work("cleanup"), Jump(6)>>
                \o Apply("cleanup"),
            <<Release("A"), Close>>)

UpgradingDry ==
    Program(<<Work("return"), Work("return"), Open, Obtain("R"),
              Read("cleanup"), Read("cleanup")>>,
            <<Release("R"), Close>>)

install   == Upgrading
install_n == UpgradingDry
upgrade   == Upgrading
upgrade_n == UpgradingDry

\* do_lock and do_unlock: already done, refused by the user, or written.
Locking == <<Work("skip"), Write("cleanup")>>

lock == Framed("X", <<Read("cleanup")>> \o Locking \o <<Jump(5)>>)
unlock == lock

\* list_locked closes the handle when its query fails, and the caller goes
\* on to release and close it.
lock_l == Framed("X", <<Read("closeon")>>)

set == Framed("X", <<Read("cleanup"), Work("skip"), Write("cleanup"),
                     Read("cleanup"), Work("skip"), Write("cleanup"),
                     Jump(7)>>)

\* Registering a port: the manifest is read before the database is opened.
register ==
    Program(<<Work("return"), Work("return"), Open, Obtain("X"), Work("on"),
              Write("on")>>,
            <<Release("X"), Close>>)

\* register -l and -O print or unpack without the database.
register_old == Program(<<Work("return"), Work("return")>>, <<>>)

\* pkg2ng
convert_from_old ==
    Program(<<Work("return"), Work("return"), Open, Obtain("X"), Work("skip"),
              Write("on"), Jump(5)>>,
            <<Release("X"), Close>>)

convert_from_old_n ==
    Program(<<Work("return"), Work("return"), Open, Obtain("R"), Work("on")>>,
            <<Release("R"), Close>>)

\* pkgdb_dump reads and pkgdb_load replaces the database; no lock.
backup_d == Program(<<Open, Read("return")>>, <<Close>>)
backup_r == Program(<<Open, Write("return")>>, <<Close>>)

\* The sqlite3 shell on the database: "XXX: need exclusive lock here".
shell == Program(<<Open, Write("on")>>, <<Close>>)

---------------------------------------------------------------------------
(* pkg check.                                                              *)

\* One package: with -r or -B the lock is converted there and back.  The
\* result of the downgrade is not looked at.
Recompute(next) ==
    <<OrGoto(Convert("AX", "on"), next), Write("on"), Convert("XA", "on")>>

check ==
    Program(<<Work("return"), Open, Obtain("A"), Read("cleanup"), Work("on")>>
                \o Recompute(9) \o <<Jump(5)>>,
            <<Release("A"), Close>>)

\* check -d: fix_deps runs under the exclusive lock, opens the remote
\* databases (ENODB loses the handle), asks, and applies jobs that upgrade
\* the lock once more; whatever became of it, the lock is downgraded.
check_d ==
    Program(<<Work("return"), Open, Obtain("A"), Read("cleanup"), Jump(14),
              Convert("AX", "cleanup"), [Open EXCEPT !.fail = "drop", !.to = 13],
              OrGoto(Read("on"), 13), OrGoto(Work("on"), 13),
              OrGoto(Convert("AX", "on"), 13), Write("on"), Release("X"),
              Convert("XA", "on"), Jump(4)>>,
            <<Release("A"), Close>>)

---------------------------------------------------------------------------
(* Commands that only read.                                                *)

info == Framed("R", <<Read("cleanup"), Jump(4)>>)

\* A failing condition returns with the lock and the handle.
query_e == Framed("R", <<Read("return")>>)
query == Framed("R", <<Read("cleanup"), Jump(4)>>)

which == Bare("R", <<Work("cleanup"), Read("cleanup"), Jump(3)>>)
stats == Bare("R", <<Read("on")>>)
shlib == Bare("R", <<Read("on")>>)

\* A sandbox that cannot be entered returns with the lock and the handle.
updating == Bare("R", <<Work("cleanup"), Work("return"), Read("cleanup")>>)

\* The catalogue of vulnerabilities is loaded before the database is opened
\* and matched after it is closed.
audit ==
    Program(<<Work("return"), Work("return"), Open, Obtain("R"), Read("on"),
              Release("R"), Close, Work("return")>>, <<>>)

clean == Framed("R", <<Work("cleanup"), Read("on"), Jump(5), Work("skip"),
                       Work("on")>>)

\* pkg create of installed packages.
create == Program(<<[Open EXCEPT !.fail = "close"], Obtain("R"), Read("cleanup"),
                    Work("on"), Jump(4)>>,
                  <<Release("R"), Close>>)

\* pkg2ng -r
convert_to_old == Framed("R", <<Read("cleanup"), Work("on"), Jump(5)>>)

\* The fetch jobs take no lock of their own.
fetch ==
    Program(<<Work("return"), Work("return"), Open, Obtain("R"),
              Read("cleanup"), Read("cleanup"), Work("cleanup"),
              Work("cleanup")>>,
            <<Release("R"), Close>>)

version_I ==
    Program(<<Work("return"), Open, Work("on"), Obtain("R"),
              Read("cleanup")>>, <<Release("R"), Close>>)
version_P ==
    Program(<<Work("return"), Open, Obtain("R"), Read("cleanup"), Work("on"),
              Jump(5)>>, <<Release("R"), Close>>)
version_R ==
    Program(<<Work("return"), Work("return"), Open, Obtain("R"),
              Read("cleanup"), Read("cleanup"), Jump(6)>>,
            <<Release("R"), Close>>)

\* The catalogues only, which the lock does not cover.
rquery == Program(<<Work("return"), Work("return"), Open, Read("return"),
                    Jump(4)>>, <<Close>>)
search == Program(<<Work("return"), Work("return"), Open, Read("close")>>,
                  <<Close>>)

\* No database handle at all.
create_staged == Program(<<Work("return"), Work("return")>>, <<>>)
info_F    == Program(<<Work("return"), Work("return")>>, <<>>)
query_F   == Program(<<Work("return"), Work("return")>>, <<>>)
version_t == Program(<<Work("return")>>, <<>>)
repo      == Program(<<Work("return"), Work("return"), Work("on")>>, <<>>)
update  == Program(<<Work("return"), Work("on")>>, <<>>)
config  == Program(<<Work("return")>>, <<>>)
plugins == Program(<<Work("return")>>, <<>>)
help    == Program(<<Work("return")>>, <<>>)
ssh     == Program(<<Work("return"), Work("return")>>, <<>>)

\* cmd[] of main.c: what main() finds under each name, and the variants
\* whose options change the steps.
Commands == [
    add |-> add, annotate |-> annotate, audit |-> audit,
    autoremove |-> autoremove, autoremove_n |-> autoremove_n,
    backup_d |-> backup_d, backup_r |-> backup_r, check |-> check,
    check_d |-> check_d, clean |-> clean, config |-> config,
    convert_from_old |-> convert_from_old,
    convert_from_old_n |-> convert_from_old_n,
    convert_to_old |-> convert_to_old, create |-> create,
    create_staged |-> create_staged, delete |-> delete,
    delete_n |-> delete_n, fetch |-> fetch, help |-> help, info |-> info,
    info_F |-> info_F,
    install |-> install, install_n |-> install_n, lock |-> lock,
    lock_l |-> lock_l, plugins |-> plugins, query |-> query,
    query_e |-> query_e, query_F |-> query_F, register |-> register,
    register_old |-> register_old, repo |-> repo, rquery |-> rquery,
    search |-> search, set |-> set, shell |-> shell, shlib |-> shlib,
    ssh |-> ssh, stats |-> stats, unlock |-> unlock, update |-> update,
    updating |-> updating,
    upgrade |-> upgrade, upgrade_n |-> upgrade_n, version_I |-> version_I,
    version_P |-> version_P, version_R |-> version_R, version_t |-> version_t,
    which |-> which]

Names == DOMAIN Commands

ASSUME CommandsAssumption ==
    /\ IsFiniteSet(Proc)
    /\ Rivals \subseteq Names
    /\ READ_LOCK \in BOOLEAN

---------------------------------------------------------------------------
(* The processes.                                                          *)

Unlocked == [exclusive |-> 0, advisory |-> 0, read |-> 0]
Locks == {"R", "A", "X"}

Init ==
    /\ row = Unlocked
    /\ pids = {}
    /\ status = [p \in Proc |-> "new"]
    /\ cmd = [p \in Proc |-> "help"]
    /\ at = [p \in Proc |-> 1]
    /\ handle = [p \in Proc |-> "null"]
    /\ held = [p \in Proc |-> {}]
    /\ robbed = {}

Steps(p) == Commands[cmd[p]].steps
Now(p) == Steps(p)[at[p]]
Doing(p, op) == status[p] = "running" /\ Now(p).op = op

\* main() has found the command and calls it.
Start(p, c) ==
    /\ status[p] = "new"
    /\ c \notin Rivals =>
          \A q \in Proc : status[q] # "new" => cmd[q] \in Rivals
    /\ status' = [status EXCEPT ![p] = "running"]
    /\ cmd' = [cmd EXCEPT ![p] = c]
    /\ UNCHANGED <<row, pids, at, handle, held, robbed>>

GoTo(p, to) ==
    /\ at' = [at EXCEPT ![p] = to]
    /\ status' = [status EXCEPT ![p] =
          IF to > Len(Steps(p)) THEN "returned" ELSE "running"]

On(p) == GoTo(p, at[p] + 1)

Return(p) == status' = [status EXCEPT ![p] = "returned"] /\ UNCHANGED at

\* pkgdb_close of no handle does nothing.
Closed(p) ==
    handle' = [handle EXCEPT ![p] = IF @ = "null" THEN @ ELSE "closed"]

\* The step failed.
Fails(p) ==
    LET fail == Now(p).fail IN
    \/ fail = "return" /\ Return(p) /\ UNCHANGED handle
    \/ fail = "close" /\ Return(p) /\ Closed(p)
    \/ fail = "cleanup" /\ GoTo(p, Commands[cmd[p]].cleanup)
         /\ UNCHANGED handle
    \/ fail = "on" /\ On(p) /\ UNCHANGED handle
    \/ fail = "skip" /\ GoTo(p, at[p] + 2) /\ UNCHANGED handle
    \/ fail = "goto" /\ GoTo(p, Now(p).to) /\ UNCHANGED handle
    \/ fail = "closeon" /\ On(p) /\ Closed(p)
    \/ fail = "drop" /\ GoTo(p, Now(p).to)
         /\ handle' = [handle EXCEPT ![p] = "null"]

\* Work, a read or a write of the database: done, or failed.
Act(p) ==
    /\ Doing(p, "work") \/ Doing(p, "read") \/ Doing(p, "write")
    /\ (On(p) /\ UNCHANGED handle) \/ Fails(p)
    /\ UNCHANGED <<row, pids, cmd, held, robbed>>

OpenDb(p) ==
    /\ Doing(p, "open")
    /\ \/ On(p) /\ handle' = [handle EXCEPT ![p] = "open"]
       \/ Fails(p)
    /\ UNCHANGED <<row, pids, cmd, held, robbed>>

CloseDb(p) ==
    /\ Doing(p, "close")
    /\ On(p) /\ Closed(p)
    /\ UNCHANGED <<row, pids, cmd, held, robbed>>

---------------------------------------------------------------------------
(* The lock calls, each in one step.                                       *)

\* Fault: the exclusive lock is granted beside an advisory one.
GrantableBesideAdvisory(r) ==
    CASE r = "R"  -> row.exclusive = 0
      [] r = "A"  -> row.exclusive = 0 /\ row.advisory = 0
      [] r = "X"  -> row.exclusive = 0 /\ row.read = 0
      [] r = "AX" -> row = [Unlocked EXCEPT !.advisory = 1]
      [] r = "XA" -> row = [exclusive |-> 1, advisory |-> 1, read |-> 0]

\* The WHERE and the SET clause of lock_sql.
Grantable(r) ==
    CASE r = "R"  -> row.exclusive = 0
      [] r = "A"  -> row.exclusive = 0 /\ row.advisory = 0
      [] r = "X"  -> row = Unlocked
      [] r = "AX" -> row = [Unlocked EXCEPT !.advisory = 1]
      [] r = "XA" -> row = [exclusive |-> 1, advisory |-> 1, read |-> 0]

Granted(w, r) ==
    CASE r = "R"  -> [w EXCEPT !.read = @ + 1]
      [] r \in {"A", "XA"} -> [w EXCEPT !.exclusive = 0, !.advisory = 1]
      [] r = "X"  -> [w EXCEPT !.exclusive = 1]
      [] r = "AX" -> [w EXCEPT !.exclusive = 1, !.advisory = 1]

HeldAfter(h, r) ==
    CASE r \in Locks -> h \cup {r}
      [] r = "AX" -> h \cup {"A", "X"}
      [] r = "XA" -> (h \ {"X"}) \cup {"A"}

Alive == {p \in Proc : status[p] \in {"running", "returned"}}

\* Fault: kill(pid, 0) is taken to fail always.
LiveOthersNone(p) == {}

LiveOthers(p) == (pids \cap Alive) \ {p}
Holders(l) == {q \in Proc \ robbed : l \in held[q]}

\* lock_sql changed the row.  A conversion may have been granted on the
\* strength of somebody else's lock.
LockGranted(p, r) ==
    /\ Grantable(r)
    /\ row' = Granted(row, r)
    /\ held' = [held EXCEPT ![p] = HeldAfter(@, r)]
    /\ pids' = IF r \in Locks THEN pids \cup {p} ELSE pids
    /\ robbed' = IF r \in Locks THEN robbed
                 ELSE robbed \cup ((Holders("A") \cup Holders("X")) \ {p})
    /\ On(p)
    /\ UNCHANGED handle

\* No live process has its pid in the table: the row is reset, and the lock
\* is taken afresh.
LockReset(p, r) ==
    /\ ~Grantable(r) /\ LiveOthers(p) = {}
    /\ LET fresh == CASE r = "AX" -> "X" [] r = "XA" -> "A" [] OTHER -> r IN
       /\ row' = Granted(Unlocked, fresh)
       /\ held' = [held EXCEPT ![p] = {fresh}]
    /\ pids' = {p}
    /\ robbed' = robbed \cup {q \in Proc \ {p} : held[q] # {}}
    /\ On(p)
    /\ UNCHANGED handle

\* A live process holds the lock through all the tries.
LockRefused(p, r) ==
    /\ ~Grantable(r) /\ LiveOthers(p) # {}
    /\ pids' = pids \cap (Alive \cup {p})
    /\ Fails(p)
    /\ UNCHANGED <<row, held, robbed>>

\* pkgdb_obtain_lock
ObtainLock(p) ==
    /\ Doing(p, "obtain")
    /\ IF Now(p).arg = "R" /\ ~READ_LOCK
       THEN On(p) /\ UNCHANGED <<row, pids, handle, held, robbed>>
       ELSE \/ LockGranted(p, Now(p).arg)
            \/ LockReset(p, Now(p).arg)
            \/ LockRefused(p, Now(p).arg)
    /\ UNCHANGED cmd

\* pkgdb_upgrade_lock and pkgdb_downgrade_lock
ConvertLock(p) ==
    /\ Doing(p, "convert") /\ handle[p] # "null"
    /\ \/ LockGranted(p, Now(p).arg)
       \/ LockReset(p, Now(p).arg)
       \/ LockRefused(p, Now(p).arg)
    /\ UNCHANGED cmd

\* The process ends: main() returns, or it is killed.
Leaves(p) ==
    /\ status' = [status EXCEPT ![p] = "gone"]
    /\ held' = [held EXCEPT ![p] = {}]
    /\ robbed' = robbed \ {p}

\* assert(db != NULL)
Abort(p) ==
    /\ Doing(p, "convert") /\ handle[p] = "null"
    /\ Leaves(p)
    /\ UNCHANGED <<row, pids, cmd, at, handle>>

\* The WHERE and the SET clause of unlock_sql.
Releasable(l) ==
    CASE l = "R" -> row.read > 0
      [] l = "A" -> row.advisory = 1
      [] l = "X" -> row.exclusive = 1

Released(l) ==
    CASE l = "R" -> [row EXCEPT !.read = @ - 1]
      [] l = "A" -> [row EXCEPT !.advisory = 0]
      [] l = "X" -> [row EXCEPT !.exclusive = 0]

\* Whom a release of l by p leaves without the lock they rely on.
Bereft(p, l) ==
    LET others == Holders(l) \ {p} IN
    IF l = "R" /\ row.read > Cardinality(others) THEN {} ELSE others

\* pkgdb_release_lock gives up the pid with whichever lock it releases.
\* Through a handle that was freed it may do anything a release can do.
ReleaseLock(p) ==
    /\ Doing(p, "release")
    /\ LET l == Now(p).arg
           nothing == handle[p] = "null" \/ (l = "R" /\ ~READ_LOCK)
                        \/ ~Releasable(l)
       IN \/ /\ nothing \/ handle[p] = "closed"
             /\ UNCHANGED <<row, pids, held, robbed>>
          \/ /\ ~nothing
             /\ row' = Released(l)
             /\ held' = [held EXCEPT ![p] = @ \ {l}]
             /\ robbed' = robbed \cup Bereft(p, l)
             /\ pids' = pids \ {p}
    /\ On(p)
    /\ UNCHANGED <<cmd, handle>>

\* main() returns.
Exit(p) ==
    /\ status[p] = "returned"
    /\ Leaves(p)
    /\ UNCHANGED <<row, pids, cmd, at, handle>>

Running(p) ==
    \/ Act(p) \/ OpenDb(p) \/ CloseDb(p)
    \/ ObtainLock(p) \/ ConvertLock(p) \/ Abort(p) \/ ReleaseLock(p)
    \/ Exit(p)

Next == \E p \in Proc : (\E c \in Names : Start(p, c)) \/ Running(p)

Spec == Init /\ [][Next]_vars

---------------------------------------------------------------------------
(* Properties.                                                             *)

\* A command gives its lock back on every path, whatever the other processes
\* do meanwhile.  The ones that do not: delete and autoremove when
\* pkg_jobs_new fails, query -e when the query fails, updating when it cannot
\* enter its sandbox, lock -l after list_locked failed (it releases through a
\* handle that is gone), and check -d, whose repair gave up the lock.
LockGivenBack ==
    \A p \in Proc \ robbed :
        (status[p] = "returned" /\ held[p] # {}) =>
            cmd[p] \in {"delete", "delete_n", "autoremove", "autoremove_n",
                       "query_e", "updating", "lock_l", "check_d"}

\* The package database is written under the exclusive lock, however often
\* the lock was converted before.  backup -r and the shell write without a
\* lock; so does the pkgdb_compact of delete and autoremove, when the upgrade
\* had to reset the row and the advisory lock went with the exclusive one.
WriteUnderLock ==
    \A p \in Proc :
        /\ Doing(p, "write") /\ Now(p).arg = "X"
        /\ cmd[p] \notin {"backup_r", "shell"}
        => "X" \in held[p]

\* As long as a process holds the exclusive lock, the row says so and nobody
\* gets in: neither a reset by a process that believes itself alone, nor a
\* late release, nor a downgrade takes it away.  Only check -d does that: its
\* repair gives up the lock, and its downgrade then converts the exclusive
\* lock of whoever came in between.
ExclusiveKept ==
    \/ \E p \in Proc : cmd[p] = "check_d"
    \/ \A p \in Proc : "X" \in held[p] => row.exclusive = 1

Service == INSTANCE LockService

\* The lock calls of all commands together are calls of the lock service:
\* commands nobody robbed hold compatible locks, through every conversion,
\* early return and release of a lock that is not held any more.
ServiceImplemented == Service!Spec
=============================================================================
