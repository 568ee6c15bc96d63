---------------------------- MODULE RepoCreate -----------------------------
(***************************************************************************)
(* How pkg repo makes a repository: pkg_create_repo and its worker         *)
(* processes, and pkg_finish_repo (libpkg/pkg_repo_create.c), called by    *)
(* exec_repo (src/repo.c).                                                 *)
(*                                                                         *)
(* The package files are split among workers.  A worker appends manifests  *)
(* (and lists of files) to files all of them share, under flock, and sends *)
(* the positions to the parent through a socket of its own; the parent     *)
(* collects the digests and, when every worker has ended, packs the files. *)
(*                                                                         *)
(* Workers can fail or be killed, and so can the parent: its workers then  *)
(* go on, and a second run may meet them.  A worker keeps a copy of the    *)
(* parent's end of its socket, so it never sees that the parent is gone.   *)
(***************************************************************************)
EXTENDS Integers, Sequences, FiniteSetsExt, Functions

CONSTANTS
    Files,          \* the package files, in the order of fts_items
    WORKERS_COUNT,  \* the option
    Workers,        \* bound: process ids are 1 .. Workers
    Capacity,       \* messages a socket holds
    MaxRuns,        \* bound: calls of exec_repo, with -l and without
    MaxFailures     \* bound: failures and kills

ASSUME CreateAssumption ==
    /\ Files \in Seq(Range(Files)) /\ Len(Files) > 0
    /\ IsInjective(Files)       \* fts_read gives each file once
    /\ WORKERS_COUNT \in Nat \ {0}
    /\ Workers \in Nat
    /\ Capacity \in Nat \ {0}
    /\ MaxRuns \in [BOOLEAN -> Nat]
    /\ MaxFailures \in Nat

Worker == 1..Workers
NoWorker == 0
\* The files the workers share; each has an archive, digests and meta too.
Outputs == {"manifests", "files"}
Archives == Outputs \cup {"meta", "digests"}
\* An archive is absent, packed, or broken: without its file, after a
\* signature failed.
Empty(a) == IF a = "digests" THEN {} ELSE <<>>

VARIABLES
    filelist,       \* -l is given
    pc,             \* of exec_repo
    rest,           \* package files no worker has got yet
    remain, jobs,   \* of pkg_create_repo
    fork,           \* the workers of this run, in the order of the forks
    polled,         \* those whose socket the parent still reads
    dlist,          \* digests received
    step, legacy,   \* of pkg_finish_repo
    wpc, share,     \* of each worker: its next step, its packages to do
    output, pos,    \* of each worker: the file it writes, the positions
    socket,         \* messages a worker has sent
    lock,           \* who has the flock of each output
    lost,           \* workers whose descriptor is of an unlinked output
    out,            \* the lines of each output
    digests, meta,  \* the files digests and meta
    archive, mtime, \* the archives and their times
    runs, failures, \* bounded counters
    spoiled,        \* history: in this run something failed
    whole, last     \* history: the archives are those of a run that ended
                    \* well, and the time they got then

creating == <<rest, remain, jobs, fork, polled, dlist>>
working == <<wpc, share, output, pos, socket, lock>>
result == <<digests, meta, archive, mtime, whole, last>>
vars == <<filelist, pc, creating, step, legacy, working, lost, out, result, runs,
          failures, spoiled>>

\* The lists of files are made only with -l.
Wanted(o) == o = "manifests" \/ filelist

Start == [o \in Outputs |-> 0]

Init ==
    /\ pc = "idle"
    /\ rest = <<>> /\ remain = 0 /\ jobs = 0
    /\ fork = <<>> /\ polled = {} /\ dlist = {} /\ step = 0
    /\ legacy = FALSE
    /\ wpc = [w \in Worker |-> "none"]
    /\ share = [w \in Worker |-> <<>>]
    /\ output = [w \in Worker |-> "manifests"]
    /\ pos = [w \in Worker |-> Start]
    /\ socket = [w \in Worker |-> <<>>]
    /\ lock = [o \in Outputs |-> NoWorker]
    /\ lost = [o \in Outputs |-> {}]
    /\ out = [o \in Outputs |-> <<>>]
    /\ digests = {} /\ meta = FALSE
    /\ archive = [a \in Archives |-> [is |-> "absent", has |-> Empty(a)]]
    /\ mtime = [a \in Archives |-> 0]
    /\ runs = 0 /\ failures = 0 /\ filelist \in BOOLEAN
    /\ spoiled = FALSE /\ whole = FALSE /\ last = 0

Fails == failures < MaxFailures /\ failures' = failures + 1
Mine == Range(fork)
Alive(w) == wpc[w] \notin {"none", "exited"}

----------------------------------------------------------------------------
(* The parent: pkg_create_repo.                                            *)

NumWorkers == IF WORKERS_COUNT < Len(Files) THEN WORKERS_COUNT ELSE Len(Files)
TasksPerWorker == Len(Files) \div NumWorkers

\* Fault: the workers that get one more are not counted down.
ShareOfUncounted(r) == IF r >= 0 THEN TasksPerWorker + 1 ELSE TasksPerWorker
ShareOf(r) == IF r > 0 THEN TasksPerWorker + 1 ELSE TasksPerWorker

\* The outputs are truncated, the directory is read.
Begin ==
    /\ pc = "idle" /\ runs < MaxRuns[filelist]
    /\ runs' = runs + 1
    /\ out' = [o \in Outputs |-> IF Wanted(o) THEN <<>> ELSE out[o]]
    /\ digests' = {} /\ dlist' = {}
    /\ rest' = Files
    /\ remain' = Len(Files) % NumWorkers
    /\ jobs' = ShareOf(Len(Files) % NumWorkers)
    /\ fork' = <<>> /\ polled' = {}
    /\ spoiled' = FALSE
    /\ pc' = "launch"
    /\ UNCHANGED <<step, working, lost, meta, archive, mtime, whole, last,
                   failures, legacy, filelist>>

\* The end of exec_repo.  What the process leaves is nobody's.
Return ==
    /\ pc' = "idle"
    /\ fork' = <<>> /\ polled' = {} /\ rest' = <<>>
    /\ wpc' = [w \in Worker |->
                 IF w \in Mine /\ wpc[w] = "exited" THEN "none" ELSE wpc[w]]
    /\ remain' = 0 /\ jobs' = 0 /\ step' = 0 /\ legacy' = FALSE
    /\ UNCHANGED <<share, output, pos, socket, lock>>

\* pkg_create_repo fails: what was received is written nevertheless.
CreateFailed ==
    /\ Return
    /\ digests' = dlist
    /\ UNCHANGED <<dlist, lost, out, meta, archive, mtime, whole,
                   last, runs, filelist>>

\* An output cannot be opened.
BeginFailed ==
    /\ pc = "launch" /\ fork = <<>> /\ Fails
    /\ spoiled' = TRUE
    /\ CreateFailed

\* The next worker gets its share of the packages.
Fork(w) ==
    /\ wpc' = [wpc EXCEPT ![w] = "waiting"]
    /\ share' = [share EXCEPT ![w] = SubSeq(rest, 1, jobs)]
    /\ socket' = [socket EXCEPT ![w] = <<>>]
    /\ lost' = [o \in Outputs |-> lost[o] \ {w}]
    /\ output' = [output EXCEPT ![w] = "manifests"]
    /\ pos' = [pos EXCEPT ![w] = Start]
    /\ rest' = SubSeq(rest, jobs + 1, Len(rest))
    /\ remain' = remain - 1
    /\ jobs' = ShareOf(remain - 1)
    /\ fork' = Append(fork, w) /\ polled' = polled \cup {w}
    /\ pc' = IF Len(rest') < jobs' THEN "start" ELSE pc
    /\ step' = IF Len(rest') < jobs' THEN 1 ELSE step
    /\ UNCHANGED <<dlist, lock, out, result, runs, filelist, failures, spoiled,
                   legacy>>

Launch ==
    /\ pc = "launch" /\ Len(rest) >= jobs
    /\ \E v \in Worker : wpc[v] = "none"
    /\ Fork(Min({v \in Worker : wpc[v] = "none"}))

\* socketpair or fork fails: the workers there are wait for ever.
LaunchFailed ==
    /\ pc = "launch" /\ rest # <<>> /\ fork # <<>> /\ Fails
    /\ spoiled' = TRUE
    /\ CreateFailed

\* The start marks; a worker that is dead gets none.
SendStart ==
    /\ pc = "start"
    /\ wpc' = [wpc EXCEPT ![fork[step]] = IF @ = "waiting" THEN "open" ELSE @]
    /\ pc' = IF step = Len(fork) THEN "poll" ELSE pc
    /\ step' = IF step = Len(fork) THEN 0 ELSE step + 1
    /\ UNCHANGED <<creating, share, output, pos, socket, lock, lost, out,
                   result, runs, filelist, failures, spoiled, legacy>>

EndMark == [package |-> "."]

\* pkg_create_repo_read_pipe: a digest, or the end mark.
Receive(w) ==
    /\ pc = "poll" /\ w \in polled /\ socket[w] # <<>>
    /\ socket' = [socket EXCEPT ![w] = Tail(@)]
    /\ IF Head(socket[w]) = EndMark
       THEN pc' = "wait" /\ polled' = polled \ {w} /\ UNCHANGED dlist
       ELSE dlist' = dlist \cup {Head(socket[w])} /\ UNCHANGED <<pc, polled>>
    /\ UNCHANGED <<rest, remain, jobs, fork, step, wpc, share, output, pos,
                   lock, lost, out, result, runs, filelist, failures, spoiled, legacy>>

\* The worker died: the end of its socket.
ReceiveEnd(w) ==
    /\ pc = "poll" /\ w \in polled
    /\ socket[w] = <<>> /\ wpc[w] \in {"exited", "none"}
    /\ pc' = "wait" /\ polled' = polled \ {w}
    /\ UNCHANGED <<rest, remain, jobs, fork, dlist, step, working, lost, out,
                   result, runs, filelist, failures, spoiled, legacy>>

\* wait() returns any child that has ended; its status is not looked at.
Wait(w) ==
    /\ pc = "wait" /\ w \in Mine /\ wpc[w] = "exited"
    /\ wpc' = [wpc EXCEPT ![w] = "none"]
    /\ pc' = "poll"
    /\ UNCHANGED <<creating, step, share, output, pos, socket, lock, lost, out,
                   result, runs, filelist, failures, spoiled, legacy>>

PollFailed ==
    /\ pc = "poll" /\ polled # {} /\ Fails
    /\ spoiled' = TRUE
    /\ CreateFailed

\* Every worker has ended: the digests are written, and meta, unless the
\* repository is for old versions (-L) or meta cannot be opened.  If there is
\* no file meta, pkg_finish_repo takes the repository for an old one.
Created ==
    /\ pc = "poll" /\ polled = {}
    /\ digests' = dlist
    /\ meta' \in {TRUE, meta}
    /\ legacy' = ~meta'
    /\ pc' = "pack" /\ step' = 1
    /\ UNCHANGED <<creating, working, lost, out, archive, mtime, whole, last,
                   runs, filelist, failures, spoiled>>

----------------------------------------------------------------------------
(* The parent: pkg_finish_repo.                                            *)

Order ==
    (IF legacy THEN <<>> ELSE <<"meta">>) \o <<"manifests">>
    \o (IF filelist THEN <<"files">> ELSE <<>>) \o <<"digests">>
Now == runs * (Cardinality(Archives) + 1) + step
Packing == pc = "pack" /\ step <= Len(Order)
Source(a) ==
    IF a \in Outputs THEN out[a] ELSE IF a = "digests" THEN digests ELSE <<>>

\* pkg_repo_pack_db: the archive takes the place of the old one, the file is
\* unlinked.  What workers of an earlier run do to an unlinked file is lost.
PackInto(a, kind, content) ==
    /\ archive' = [archive EXCEPT ![a] = [is |-> kind, has |-> content]]
    /\ mtime' = [mtime EXCEPT ![a] = Now]
    /\ lost' = [o \in Outputs |-> IF o = a THEN {w \in Worker : Alive(w)} ELSE lost[o]]
    /\ lock' = [o \in Outputs |-> IF o = a THEN NoWorker ELSE lock[o]]
    /\ out' = [o \in Outputs |-> IF o = a THEN <<>> ELSE out[o]]
    /\ digests' = IF a = "digests" THEN {} ELSE digests
    /\ meta' = (meta /\ a # "meta")
    /\ whole' = FALSE

Pack ==
    /\ Packing
    /\ PackInto(Order[step], "packed", Source(Order[step]))
    /\ step' = step + 1
    /\ UNCHANGED <<pc, creating, legacy, wpc, share, output, pos, socket, last,
                   runs, filelist, failures, spoiled>>

\* The file cannot be signed: an archive without it is left, and the rest is
\* not packed.
PackFailed ==
    /\ Packing /\ Fails
    /\ PackInto(Order[step], "broken", Empty(Order[step]))
    /\ pc' = "idle" /\ fork' = <<>> /\ step' = 0 /\ legacy' = FALSE
    /\ spoiled' = TRUE
    /\ UNCHANGED <<rest, remain, jobs, polled, dlist, wpc, share, output, pos,
                   socket, last, runs, filelist>>

\* All archives get the time of that of meta, if there is one.
Finished ==
    /\ pc = "pack" /\ step > Len(Order)
    /\ Return
    /\ mtime' = IF archive["meta"].is = "absent" THEN mtime
                ELSE [a \in Archives |->
                        IF a = "files" /\ ~filelist THEN mtime[a] ELSE mtime["meta"]]
    /\ whole' = TRUE /\ last' = mtime'["digests"]
    /\ UNCHANGED <<dlist, lost, out, digests, meta, archive, runs, filelist,
                   failures, spoiled>>

\* The parent is killed, by its user or at the end of a session.
Kill ==
    /\ pc # "idle" /\ Fails
    /\ Return
    /\ spoiled' = TRUE
    /\ UNCHANGED <<dlist, lost, out, result, runs, filelist>>

----------------------------------------------------------------------------
(* A worker: pkg_create_repo_worker.                                       *)

Unchanged == UNCHANGED <<pc, creating, step, legacy, result, runs, filelist>>

\* A package that cannot be opened is skipped.
Skip(w) ==
    /\ wpc[w] = "open" /\ share[w] # <<>> /\ Fails
    /\ share' = [share EXCEPT ![w] = Tail(@)]
    /\ spoiled' = (spoiled \/ w \in Mine)
    /\ UNCHANGED <<wpc, output, pos, socket, lock, lost, out>> /\ Unchanged

\* Fault: the descriptors of the workers share one lock.
CanAlwaysLock(w) == w \in Worker

\* A lock on an unlinked file is no concern of the others.
CanLock(w) == lock[output[w]] = NoWorker \/ w \in lost[output[w]]

\* The next package, or its list of files: flock, and lseek to the end, the
\* position that goes into the digest.
Flock(w) ==
    /\ wpc[w] = "flock" \/ (wpc[w] = "open" /\ share[w] # <<>>)
    /\ CanLock(w)
    /\ lock' = [lock EXCEPT ![output[w]] = IF w \in lost[output[w]] THEN @ ELSE w]
    /\ pos' = [pos EXCEPT ![w][output[w]] = Len(out[output[w]])]
    /\ wpc' = [wpc EXCEPT ![w] = "write"]
    /\ UNCHANGED <<share, output, socket, lost, out, failures, spoiled>>
    /\ Unchanged

\* Fault: the lock is not given back.
UnlockedNever(w) == lock
Unlocked(w) == [o \in Outputs |-> IF lock[o] = w THEN NoWorker ELSE lock[o]]

\* The descriptor appends, the lock is given back, and the list of files is
\* next, or the message.
Write(w) ==
    /\ wpc[w] = "write"
    /\ out' = [o \in Outputs |->
                 IF o = output[w] /\ w \notin lost[o]
                 THEN Append(out[o], Head(share[w])) ELSE out[o]]
    /\ lock' = Unlocked(w)
    /\ IF filelist /\ output[w] = "manifests"
       THEN /\ output' = [output EXCEPT ![w] = "files"]
            /\ wpc' = [wpc EXCEPT ![w] = "flock"]
       ELSE wpc' = [wpc EXCEPT ![w] = "send"] /\ UNCHANGED output
    /\ UNCHANGED <<share, pos, socket, lost, failures, spoiled>> /\ Unchanged

\* The digest, the lock or the write fails: the worker ends, with an end mark.
WorkFailed(w) ==
    /\ \/ wpc[w] = "open" /\ share[w] # <<>>
       \/ wpc[w] \in {"flock", "write"}
    /\ Fails
    /\ share' = [share EXCEPT ![w] = <<>>]
    /\ output' = [output EXCEPT ![w] = "manifests"]
    /\ wpc' = [wpc EXCEPT ![w] = "open"]
    /\ lock' = Unlocked(w)
    /\ spoiled' = (spoiled \/ w \in Mine)
    /\ UNCHANGED <<pos, socket, lost, out>> /\ Unchanged

\* Fault: the package is not counted as done.
SendAgain(w) ==
    /\ wpc[w] = "send" /\ Len(socket[w]) < Capacity
    /\ socket' = [socket EXCEPT ![w] =
                    Append(@, [package |-> Head(share[w]), position |-> pos[w]])]
    /\ wpc' = [wpc EXCEPT ![w] = "open"]
    /\ pos' = [pos EXCEPT ![w] = Start]
    /\ output' = [output EXCEPT ![w] = "manifests"]
    /\ UNCHANGED <<share, lock, lost, out, failures, spoiled>> /\ Unchanged

\* The message waits for room in the socket.
Send(w) ==
    /\ wpc[w] = "send" /\ Len(socket[w]) < Capacity
    /\ socket' = [socket EXCEPT ![w] =
                    Append(@, [package |-> Head(share[w]), position |-> pos[w]])]
    /\ share' = [share EXCEPT ![w] = Tail(@)]
    /\ wpc' = [wpc EXCEPT ![w] = "open"]
    /\ pos' = [pos EXCEPT ![w] = Start]
    /\ output' = [output EXCEPT ![w] = "manifests"]
    /\ UNCHANGED <<lock, lost, out, failures, spoiled>> /\ Unchanged

\* Of a worker without a parent nothing is left when it ends.
Ended(w) == IF w \in Mine THEN "exited" ELSE "none"

End(w) ==
    /\ wpc[w] = "open" /\ share[w] = <<>> /\ Len(socket[w]) < Capacity
    /\ socket' = [socket EXCEPT ![w] =
                    IF w \in Mine THEN Append(@, EndMark) ELSE <<>>]
    /\ wpc' = [wpc EXCEPT ![w] = Ended(w)]
    /\ share' = [share EXCEPT ![w] = <<>>]
    /\ lost' = [o \in Outputs |-> lost[o] \ {w}]
    /\ UNCHANGED <<output, pos, lock, out, failures, spoiled>> /\ Unchanged

KillWorker(w) ==
    /\ Alive(w) /\ Fails
    /\ wpc' = [wpc EXCEPT ![w] = Ended(w)]
    /\ lock' = Unlocked(w)
    /\ share' = [share EXCEPT ![w] = <<>>]
    /\ socket' = [socket EXCEPT ![w] = IF w \in Mine THEN @ ELSE <<>>]
    /\ lost' = [o \in Outputs |-> lost[o] \ {w}]
    /\ spoiled' = (spoiled \/ w \in Mine)
    /\ UNCHANGED <<output, pos, out>> /\ Unchanged

----------------------------------------------------------------------------

ParentStep ==
    \/ Launch \/ SendStart
    \/ \E w \in Worker : Receive(w) \/ ReceiveEnd(w) \/ Wait(w)
    \/ Created \/ Pack \/ Finished

WorkerStep(w) ==
    Flock(w) \/ Write(w) \/ Send(w) \/ End(w)

Next ==
    \/ Begin \/ BeginFailed \/ LaunchFailed \/ PollFailed \/ PackFailed \/ Kill
    \/ ParentStep
    \/ \E w \in Worker : WorkerStep(w) \/ Skip(w) \/ WorkFailed(w) \/ KillWorker(w)

Spec == Init /\ [][Next]_vars

\* Parent and workers are run by the scheduler.
FairSpec == Spec /\ WF_vars(ParentStep) /\ \A w \in Worker : WF_vars(WorkerStep(w))

----------------------------------------------------------------------------
(* Properties.                                                             *)

Packages == Range(Files)
Digest == [package : Packages, position : [Outputs -> Nat]]

\* The position of a digest is that of its own package.
Points(ds, o, lines) ==
    \A d \in ds : /\ d.position[o] < Len(lines)
                  /\ lines[d.position[o] + 1] = d.package

\* When all workers have ended and nothing went wrong in this run, every
\* package of the directory has its digest: the split gives each package to
\* one worker, and the end mark does not overtake a digest.
AllListed ==
    (pc = "pack" /\ ~spoiled) => {d.package : d \in dlist} = Packages

\* Every digest the parent has received points at the manifest, and at the
\* list of files, of its own package, although all workers append to the same
\* files and the workers of a run that was killed may still do so: lseek and
\* writev are under one flock.  The archives of a run that ended well then
\* belong together, until the next run packs: the digests point into the
\* manifests, and the times are equal if there is a meta.
ArchivesAgree ==
    /\ pc \in {"launch", "start", "poll", "wait"} =>
          \A o \in Outputs : Wanted(o) => Points(dlist, o, out[o])
    /\ whole =>
          /\ \A o \in Outputs :
                Wanted(o) => Points(archive["digests"].has, o, archive[o].has)
          /\ archive["meta"].is # "absent" =>
                \A a \in Archives \ {"files"} : mtime[a] = mtime["meta"]

\* pkg repo returns: the parent never waits for a worker that waits for it,
\* whatever becomes of the workers and of those of earlier runs.
CreateReturns == pc # "idle" ~> pc = "idle"

\* The digests grow by one package at a time, never the same one twice.
Listing ==
    INSTANCE RepoListing WITH
        listed <- [p \in Packages |-> Cardinality({d \in dlist : d.package = p})],
        running <- pc # "idle"
ListingImplemented == Listing!Spec
============================================================================
