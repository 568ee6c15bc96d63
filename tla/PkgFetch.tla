------------------------------ MODULE PkgFetch ------------------------------
(***************************************************************************)
(* Downloads: pkg_jobs_fetch and pkg_repo_binary_try_fetch with the package *)
(* cache, pkg_fetch_file_to_fd with its mirrors and retries, the ssh client *)
(* of libpkg/fetch.c and the server of libpkg/ssh.c.                       *)
(*                                                                         *)
(* A file is a sequence of blocks, a block is (file, place); a process is a *)
(* pkg command that fetches packages into the cache ("jobs") or files of a *)
(* repository into anonymous files ("update").  libfetch, the resolver and *)
(* stdio are modelled from how fetch.c uses them.                          *)
(***************************************************************************)
EXTENDS Integers, Sequences, FiniteSets, FiniteSetsExt, SequencesExt

CONSTANTS
    Proc,           \* pkg commands
    Package,        \* packages of the catalogue
    Document,       \* meta, digests, packagesite...
    SizeOf,         \* PKG_PKGSIZE of the packages, sizes of the documents
    Confs,          \* repositories: scheme, mirror_type, FETCH_MIRROR, FETCH_RETRY, the
                    \* commands that use it and what they fetch one after the other
    Zones,          \* SRV answers: sequences of [priority, weight]
    HttpMirrors,    \* number of lines "URL:" in the list of HTTP mirrors
    Inode,          \* files of the cache and open anonymous files
    None, Hole,
    MaxCalls,       \* bound: commands that start
    MaxFaults       \* bound: late answers, failed writes, deaths

Request == Package \cup Document

ASSUME FetchAssumption ==
    /\ SizeOf \in [Request -> Nat \ {0}]
    /\ HttpMirrors \in Nat
    /\ \A c \in Confs : /\ c.mirror_type \in {"SRV", "HTTP", "NOMIRROR"}
                          /\ c.FETCH_RETRY \in Nat
                          /\ c.users \subseteq Proc
                          /\ c.programs \subseteq Seq(Package) \cup Seq(Document)
    /\ \A z \in Zones : z \in Seq([priority : Nat, weight : Nat])
    \* A file for every name and every descriptor.
    /\ IsFiniteSet(Proc) /\ IsFiniteSet(Package) /\ IsFiniteSet(Inode)
    /\ Cardinality(Inode) >= Cardinality(Proc) + Cardinality(Package)
    /\ None \notin Inode

VARIABLES
    conf,       \* the repository of this behaviour
    zone,       \* the SRV records of the repository's host
    call,       \* [Proc -> the command's local state]
    ssh,        \* [Proc -> repo->ssh, and the server at its other end]
    cache,      \* [Package -> inode or None]: the directory PKG_CACHEDIR
    data,       \* [Inode -> content]
    touched,    \* history: [Proc -> packages others worked on meanwhile]
    calls, faults

vars == <<conf, zone, call, ssh, cache, data, touched, calls, faults>>
env == <<conf, zone>>
files == <<cache, data, touched>>

Block(r, kind, place) == [of |-> r, kind |-> kind, place |-> place]
Content(r, kind) == [i \in 1 .. SizeOf[r] |-> Block(r, kind, i)]

\* What the catalogue's size and checksum describe.
Catalogue(r) == Content(r, "good")
\* What a server may have under that name.
Served(r) == {Catalogue(r), Content(r, "other"), Append(Catalogue(r), Block(r, "other", SizeOf[r] + 1))}

NoSession == [open |-> FALSE, fresh |-> FALSE, alive |-> FALSE, asked |-> <<>>,
              chan |-> <<>>, spoiled |-> FALSE]
Idle == [pc |-> "idle", todo |-> <<>>, already |-> FALSE, fetched |-> FALSE,
         fd |-> None, off |-> 0, sz |-> 0, src |-> <<>>, retry |-> 0,
         cur |-> 1, order |-> <<>>, tried |-> {}, rc |-> "ok", skipped |-> FALSE, got |-> {}]

\* A cache as an earlier command left it: a package is absent, whole, broken
\* off, or has the right size and the wrong content.
LeftBehind(r) == {Catalogue(r), Content(r, "other"), <<>>}

Init ==
    /\ conf \in Confs
    /\ zone \in IF conf.mirror_type = "SRV" THEN Zones ELSE {<<>>}
    /\ call = [p \in Proc |-> Idle]
    /\ ssh = [p \in Proc |-> NoSession]
    /\ \/ cache = [r \in Package |-> None] /\ data = [i \in Inode |-> <<>>]
       \/ \E r \in Package, i \in {CHOOSE i \in Inode : TRUE} : \E c \in LeftBehind(r) :
             /\ cache = [s \in Package |-> IF s = r THEN i ELSE None]
             /\ data = [j \in Inode |-> IF j = i THEN c ELSE <<>>]
    /\ touched = [p \in Proc |-> {}]
    /\ calls = 0
    /\ faults = 0

------------------------------------------------------------------------------
(* The cache directory                                                     *)

At(p) == call[p].pc
Req(p) == Head(call[p].todo)

\* The command at p goes on in a state, at a place, or there with a result;
\* its session goes on in a state.
Goes(p, new) == call' = [call EXCEPT ![p] = new]
Goto(p, pc) == Goes(p, [call[p] EXCEPT !.pc = pc])
Ends(p, pc, rc) == Goes(p, [call[p] EXCEPT !.pc = pc, !.rc = rc])
Session(p, new) == ssh' = [ssh EXCEPT ![p] = new]
Fault == faults < MaxFaults /\ faults' = faults + 1

Cached(r) == cache[r] # None
OpenInodes == {call[q].fd : q \in Proc} \ {None}
FreeInode == CHOOSE i \in Inode : i \notin OpenInodes /\ \A r \in Package : cache[r] # i

\* p changed the entry or the content of r: what others verified may be gone.
Touch(p, r) == touched' = [q \in Proc |-> IF q = p THEN touched[q] ELSE touched[q] \cup {r}]

\* A file without a name or a descriptor is gone.
Collected ==
    [i \in Inode |-> IF \/ \E r \in Package : cache'[r] = i
                        \/ \E q \in Proc : call'[q].fd = i
                     THEN data[i] ELSE <<>>]

\* A descriptor is closed.
Release == UNCHANGED <<cache, touched>> /\ data' = Collected

\* unlink(dest): open descriptors keep the inode.
Unlink(p, r) ==
    /\ cache' = [cache EXCEPT ![r] = None]
    /\ data' = Collected
    /\ IF Cached(r) THEN Touch(p, r) ELSE UNCHANGED touched

\* pwrite at the offset of a descriptor; what was truncated before it is a hole.
WriteAt(c, off, b) ==
    [i \in 1 .. Max({Len(c), off + 1}) |->
        IF i = off + 1 THEN b ELSE IF i <= Len(c) THEN c[i] ELSE Hole]

------------------------------------------------------------------------------
(* pkg_jobs_fetch                                                          *)

Start(p, todo) ==
    /\ At(p) = "idle" /\ calls < MaxCalls
    /\ calls' = calls + 1
    /\ Goes(p, [call[p] EXCEPT !.pc = IF todo \in Seq(Package) THEN "size" ELSE "next",
                               !.todo = todo])
    /\ touched' = [touched EXCEPT ![p] = {}]
    /\ UNCHANGED <<env, ssh, cache, data, faults>>

\* Missing packages count whole, cached ones with the difference of the sizes,
\* which may be negative.
Missing(r) == SizeOf[r] - (IF Cached(r) THEN Len(data[cache[r]]) ELSE 0)
dlsize(p) == MapThenSumSet(Missing, Range(call[p].todo))

JobsFetch(p) ==
    /\ At(p) = "size"
    /\ \/ dlsize(p) = 0 /\ Goes(p, [call[p] EXCEPT !.pc = "done", !.skipped = TRUE])
       \/ dlsize(p) # 0 /\ \/ Ends(p, "done", "fatal")   \* no space
                           \/ Goes(p, [call[p] EXCEPT !.pc = "done", !.skipped = TRUE]) \* dry run
                           \/ Goto(p, "next")
    /\ UNCHANGED <<env, ssh, files, calls, faults>>

\* The loop over the jobs; a command that fetches documents goes on to open one.
NextRequest(p) ==
    /\ At(p) = "next"
    /\ IF call[p].todo = <<>>
       THEN Ends(p, "done", "ok")
       ELSE Goes(p, [call[p] EXCEPT !.pc = IF Req(p) \in Package THEN "access" ELSE "temp",
                     !.already = FALSE, !.fetched = FALSE, !.rc = "ok"])
    /\ UNCHANGED <<env, ssh, files, calls, faults>>

------------------------------------------------------------------------------
(* pkg_repo_binary_try_fetch                                               *)

TryFetch(p) ==
    /\ At(p) = "access"
    /\ \/ /\ Cached(Req(p))
          /\ Goes(p, [call[p] EXCEPT !.pc = "stat", !.fetched = FALSE])
       \/ /\ ~Cached(Req(p))                    \* no directory, no URL
          /\ Ends(p, "cleanup", "fatal")
       \/ /\ ~Cached(Req(p))
          /\ conf.scheme = "file" /\ ~conf.mirror
          /\ Goes(p, [call[p] EXCEPT !.pc = "next", !.todo = Tail(@)])
       \/ /\ ~Cached(Req(p))
          /\ conf.scheme # "file" \/ conf.mirror
          /\ Goto(p, "creat")
    /\ UNCHANGED <<env, ssh, files, calls, faults>>

\* pkg_fetch_file_to_fd begins.
Begin(p, fd) ==
    Goes(p, [call[p] EXCEPT !.pc = IF conf.scheme = "ssh" THEN "ssh"
                                     ELSE IF conf.mirror_type = "NOMIRROR" THEN "xget" ELSE "mirrors",
                            !.fd = fd, !.retry = conf.FETCH_RETRY])

\* pkg_fetch_file: creat opens and truncates whatever has the name by now.
Creat(p) ==
    /\ At(p) = "creat"
    /\ LET r == Req(p)
           i == IF Cached(r) THEN cache[r] ELSE FreeInode
       IN  \/ /\ Begin(p, i)
              /\ cache' = [cache EXCEPT ![r] = i]
              /\ data' = [data EXCEPT ![i] = <<>>]
              /\ Touch(p, r)
           \/ /\ Ends(p, "cleanup", "fatal")
              /\ UNCHANGED <<cache, data, touched>>
    /\ UNCHANGED <<env, ssh, calls, faults>>

\* pkg_repo_fetch_remote_tmp: a file that lost its name at once.
Temporary(p) ==
    /\ At(p) = "temp"
    /\ Begin(p, FreeInode)
    /\ data' = [data EXCEPT ![FreeInode] = <<>>]
    /\ UNCHANGED <<env, ssh, cache, touched, calls, faults>>

\* The end of pkg_fetch_file and of pkg_repo_fetch_remote_tmp.
Closed(c) == [c EXCEPT !.fd = None, !.off = 0, !.sz = 0, !.src = <<>>, !.retry = 0, !.tried = {}]

\* A package goes on to its checks, a document is done with.
ClosedPackage(c) ==
    LET ok == c.rc = "ok"
    IN  [Closed(c) EXCEPT !.pc = IF ok THEN "stat" ELSE "cleanup", !.fetched = TRUE,
                          !.rc = IF ok THEN "ok" ELSE "fatal"]
ClosedDocument(c) == [Closed(c) EXCEPT !.pc = "next", !.rc = "ok", !.todo = Tail(@)]
ClosedForGood(c) == [Closed(c) EXCEPT !.pc = "done", !.rc = "fatal"]

CloseFile(p) ==
    /\ At(p) = "close"
    /\ \/ /\ Req(p) \in Package
          /\ Goes(p, ClosedPackage(call[p]))
          /\ IF call[p].rc = "ok" THEN Release ELSE Unlink(p, Req(p))
       \/ /\ Req(p) \notin Package
          /\ \/ Goes(p, ClosedDocument(call[p]))
             \/ call[p].rc # "ok" /\ Goes(p, ClosedForGood(call[p]))
          /\ Release
    /\ UNCHANGED <<env, ssh, calls, faults>>

\* Fault: the second attempt does not know that it is one.
AgainAndAgain(p) ==
    /\ Goto(p, "access")
    /\ Unlink(p, Req(p))

\* The file is removed and fetched again, once.
Again(p) ==
    /\ Goes(p, [call[p] EXCEPT !.pc = "access", !.already = TRUE])
    /\ Unlink(p, Req(p))

Refused(p) ==
    /\ Ends(p, "cleanup", "fatal")
    /\ UNCHANGED files

CompareSize(p) ==
    /\ At(p) = "stat"
    /\ LET r == Req(p)
           same == Cached(r) /\ Len(data[cache[r]]) = SizeOf[r]
       IN  IF same THEN Goto(p, "sum") /\ UNCHANGED files
           ELSE IF call[p].already THEN Refused(p) ELSE Again(p)
    /\ UNCHANGED <<env, ssh, calls, faults>>

\* Fault: what was just downloaded is taken as it is.
CompareSumOfCached(p) ==
    /\ At(p) = "sum"
    /\ LET r == Req(p)
       IN  IF call[p].fetched \/ (Cached(r) /\ data[cache[r]] = Catalogue(r))
           THEN /\ Goto(p, "symlink")
                /\ touched' = [touched EXCEPT ![p] = @ \ {r}]
                /\ UNCHANGED <<cache, data>>
           ELSE Refused(p)
    /\ UNCHANGED <<env, ssh, calls, faults>>

CompareSum(p) ==
    /\ At(p) = "sum"
    /\ LET r == Req(p)
       IN  IF ~Cached(r) THEN Refused(p)
           ELSE IF data[cache[r]] = Catalogue(r)
           THEN /\ Goto(p, "symlink")
                /\ touched' = [touched EXCEPT ![p] = @ \ {r}]
                /\ UNCHANGED <<cache, data>>
           ELSE IF call[p].already \/ call[p].fetched THEN Refused(p) ELSE Again(p)
    /\ UNCHANGED <<env, ssh, calls, faults>>

\* pkg_repo_binary_create_symlink gives the file a second name that nothing
\* here reads, its errors are ignored, and EPKG_OK is returned.
CreateSymlink(p) ==
    /\ At(p) = "symlink"
    /\ Goes(p, [call[p] EXCEPT !.pc = "next", !.todo = Tail(@), !.got = @ \cup {Req(p)}])
    /\ UNCHANGED <<env, ssh, files, calls, faults>>

\* cleanup: the name is removed once more, whoever created it meanwhile, and
\* pkg_jobs_fetch gives up.
CleanUp(p) ==
    /\ At(p) = "cleanup"
    /\ Ends(p, "done", "fatal")
    /\ Unlink(p, Req(p))
    /\ UNCHANGED <<env, ssh, calls, faults>>

------------------------------------------------------------------------------
(* start_ssh and its stream                                                *)

Fails(p) == Ends(p, "close", "fatal")

\* ssh_write: a server that is gone gets nothing.
Sent(s, r) == IF s.alive THEN Append(s.asked, r) ELSE s.asked

NewSession(r) ==
    [NoSession EXCEPT !.open = TRUE, !.fresh = TRUE, !.alive = TRUE, !.asked = <<r>>]
\* A request makes stdio forget what it had read ahead, k blocks here.
UsedAgain(s, r, k) ==
    [s EXCEPT !.fresh = FALSE, !.chan = SubSeq(@, k + 1, Len(@)), !.asked = Sent(s, r)]

\* The session of the repository is used again; a new one has to greet first.
StartSsh(p) ==
    /\ At(p) = "ssh"
    /\ \/ ~ssh[p].open /\ Fails(p) /\ UNCHANGED ssh
       \/ /\ ~ssh[p].open
          /\ Session(p, NewSession(Req(p)))
          /\ Goto(p, "answer")
       \/ /\ ssh[p].open
          /\ \E k \in 0 .. Len(ssh[p].chan) : Session(p, UsedAgain(ssh[p], Req(p), k))
          /\ Goto(p, "answer")
    /\ UNCHANGED <<env, files, calls, faults>>

Replied(s, out) == [s EXCEPT !.asked = Tail(@), !.chan = @ \o out]
Line(r, kind, size) == Block(r, kind, size)

\* pkg_sshserve: the answer to one request; a file that shrinks while it is
\* sent is announced longer than it is.
Serve(p) ==
    LET r == Head(ssh[p].asked)
        Send(out) == Session(p, Replied(ssh[p], out))
    IN  /\ ssh[p].alive /\ ssh[p].asked # <<>>
        /\ \/ Send(<<Line(r, "ko", 0)>>)
           \/ r \in Document /\ Send(<<Line(r, "ok", 0)>>)          \* not newer
           \/ \E c \in Served(r) : Send(<<Line(r, "ok", Len(c))>> \o c)
           \/ Send(<<Line(r, "ok", SizeOf[r])>> \o Tail(Catalogue(r)))
        /\ UNCHANGED <<env, call, files, calls, faults>>

\* ssh_read takes a line or a block from the stream, or leaves it there for the
\* next reader.
Taken(s) == [s EXCEPT !.chan = Tail(@)]
Spoiled(s) == [s EXCEPT !.spoiled = TRUE]

Announced(c, size) == [c EXCEPT !.pc = "read", !.sz = size]

\* Whatever is at the head of the stream is taken for the answer.
Answer(p) ==
    /\ At(p) = "answer" /\ ssh[p].chan # <<>>
    /\ LET m == Head(ssh[p].chan)
       IN  IF m.kind # "ok" THEN Fails(p)
           ELSE IF m.place = 0 THEN Ends(p, "close", "uptodate")
           ELSE Goes(p, Announced(call[p], m.place))
    /\ Session(p, Taken(ssh[p]))
    /\ UNCHANGED <<env, files, calls, faults>>

Dies(p) ==
    /\ Goes(p, Idle)
    /\ Session(p, NoSession)
    /\ Release

\* Nothing came in time, or the server is gone.  The length -1 that getline
\* returns is unsigned, so the line is used: the greeting, if the session is
\* new, otherwise a null pointer, which may kill the process.
AnswerLate(p) ==
    /\ At(p) = "answer"
    /\ IF ssh[p].chan # <<>> THEN Fault ELSE UNCHANGED faults
    /\ \/ /\ Fails(p)
          /\ Session(p, Spoiled(ssh[p]))
          /\ UNCHANGED files
       \/ ~ssh[p].fresh /\ ssh[p].alive /\ Dies(p)
    /\ UNCHANGED <<env, calls>>

Lost(s) == [s EXCEPT !.alive = FALSE, !.asked = <<>>]
ServerDies(p) ==
    /\ ssh[p].alive /\ Fault
    /\ Session(p, Lost(ssh[p]))
    /\ UNCHANGED <<env, call, files, calls>>

------------------------------------------------------------------------------
(* The mirrors                                                             *)

\* srv_final_cmp; the final weights of equals are random or all zero.
SrvBefore(x, y) == x.priority <= y.priority

\* dns_getsrvinfo: the orders of the records by priority, equals in any order.
SrvOrders(z) ==
    {f \in Bijection(DOMAIN z, DOMAIN z) :
        \A i, j \in DOMAIN z : i < j => SrvBefore(z[f[i]], z[f[j]])}

\* compute_weight is called for a group of equals when the next group begins,
\* so never for the last one, and counts from the first record of all.
WeighedTo(s) ==
    {l \in 2 .. Len(s) - 1 : /\ s[l].priority # s[l + 1].priority
                             /\ s[l].priority = s[l - 1].priority}
TotalWeight(s, l) == FoldLeft(LAMBDA sum, d : sum + d.weight, 0, SubSeq(s, 1, l))
Modulus(s, l, i) == (s[i].weight * 100) \div TotalWeight(s, l)

\* random() % 0, or no number is left that an earlier record has not drawn.
WeightTraps(s) ==
    \E l \in WeighedTo(s) : TotalWeight(s, l) # 0 /\ \E i \in 1 .. l : Modulus(s, l, i) = 0
WeightLoops(s) ==
    \E l \in WeighedTo(s) : TotalWeight(s, l) # 0 /\ \E i \in 1 .. l : Modulus(s, l, i) < i

\* gethttpmirrors: the lines "URL:" in the order of the document.
HttpList == [i \in 1 .. HttpMirrors |-> i]

Follows(c, order) == [c EXCEPT !.pc = "xget", !.order = order, !.cur = 1]

\* The list is asked for once and stays in the repository; a repository whose
\* list is empty is fetched from directly.
Resolve(p) ==
    /\ At(p) = "mirrors"
    /\ LET Follow(order) == Goes(p, Follows(call[p], order)) /\ UNCHANGED <<ssh, files>>
           Records(f) == [i \in DOMAIN f |-> zone[f[i]]]
       IN  \/ /\ call[p].order # <<>>
              /\ Follow(call[p].order)
           \/ /\ call[p].order = <<>>
              /\ Follow(<<>>)
           \/ /\ call[p].order = <<>> /\ conf.mirror_type = "SRV"
              /\ \E f \in SrvOrders(zone) :
                    IF WeightTraps(Records(f)) THEN Dies(p)
                    ELSE \/ Follow(f)
                         \/ /\ WeightLoops(Records(f))
                            /\ Goto(p, "loops")
                            /\ UNCHANGED <<ssh, files>>
           \/ /\ call[p].order = <<>> /\ conf.mirror_type = "HTTP"
              /\ \/ Follow(HttpList)
                 \/ Dies(p)             \* getline on a buffer moved by 4 and more
    /\ UNCHANGED <<env, calls, faults>>

\* Fault: the list of SRV records is walked like the one of HTTP.
NextMirrorSecond(c) ==
    IF c.order = <<>> THEN c.cur ELSE IF Len(c.order) < 2 THEN 1 ELSE 2

\* After a temporary error: SRV goes through the list, HTTP to the second.
NextMirror(c) ==
    IF c.order = <<>> THEN c.cur
    ELSE LET after == IF conf.mirror_type = "SRV" THEN c.cur + 1 ELSE 2
         IN  IF after > Len(c.order) THEN 1 ELSE after

\* A stream of known or unknown size (-1); the last mirror that is tried; the
\* next one.
Stream(c, src, known) ==
    [c EXCEPT !.pc = "read", !.src = src, !.sz = IF known THEN Len(src) ELSE -1]
GivesUp(c) == [c EXCEPT !.pc = "close", !.rc = "gaveup", !.tried = @ \cup {c.cur}]
TriesNext(c) ==
    [c EXCEPT !.retry = @ - 1, !.tried = @ \cup {c.cur}, !.cur = NextMirror(c)]

\* fetchXGet: a stream, an answer "not newer", a file that is not there, or an
\* error that may be gone next time.
FetchXGet(p) ==
    /\ At(p) = "xget"
    /\ \/ \E src \in Served(Req(p)), known \in BOOLEAN : Goes(p, Stream(call[p], src, known))
       \/ Req(p) \in Document /\ Ends(p, "close", "uptodate")
       \/ Fails(p)
       \/ call[p].retry <= 1 /\ Goes(p, GivesUp(call[p]))
       \/ call[p].retry > 1 /\ Goes(p, TriesNext(call[p]))
    /\ UNCHANGED <<env, ssh, files, calls, faults>>

------------------------------------------------------------------------------
(* The loop that reads and writes                                          *)

\* The next block is written, or the disk is full.
Written(c) == [c EXCEPT !.off = @ + 1]

Read(p) ==
    /\ At(p) = "read" /\ call[p].off < call[p].sz
    /\ LET c == call[p]
           Write(b) ==
              /\ Goes(p, Written(c))
              /\ data' = [data EXCEPT ![c.fd] = WriteAt(@, c.off, b)]
              /\ IF Req(p) \in Package THEN Touch(p, Req(p)) ELSE UNCHANGED touched
              /\ UNCHANGED <<cache, faults>>
           Full == Fault /\ Fails(p) /\ UNCHANGED files
       IN  \/ /\ conf.scheme = "ssh" /\ ssh[p].chan # <<>>
              /\ \/ Write(Head(ssh[p].chan)) /\ Session(p, Taken(ssh[p]))
                 \/ Full /\ Session(p, Spoiled(Taken(ssh[p])))
           \/ /\ conf.scheme # "ssh"
              /\ Write(c.src[c.off + 1]) \/ Full
              /\ UNCHANGED ssh
    /\ UNCHANGED <<env, calls>>

\* fread returns nothing: a timeout, or the connection is gone.
ReadLate(p) ==
    /\ At(p) = "read" /\ call[p].off < call[p].sz
    /\ IF conf.scheme = "ssh" /\ ssh[p].chan = <<>> THEN UNCHANGED faults ELSE Fault
    /\ Fails(p)
    /\ IF conf.scheme = "ssh" THEN Session(p, Spoiled(ssh[p])) ELSE UNCHANGED ssh
    /\ UNCHANGED <<env, files, calls>>

\* Fault: the last block is left in the stream.
ReadAllButOne(p) ==
    /\ At(p) = "read" /\ call[p].off >= call[p].sz - 1
    /\ Ends(p, "close", "ok")
    /\ UNCHANGED <<env, ssh, files, calls, faults>>

ReadAll(p) ==
    /\ At(p) = "read" /\ call[p].off >= call[p].sz
    /\ Ends(p, "close", "ok")
    /\ UNCHANGED <<env, ssh, files, calls, faults>>

------------------------------------------------------------------------------

\* The process ends and its session with it.
Exit(p) ==
    /\ At(p) = "done"
    /\ Dies(p)
    /\ UNCHANGED <<env, calls, faults>>

Kill(p) ==
    /\ At(p) \notin {"idle", "done"} /\ Fault
    /\ Dies(p)
    /\ UNCHANGED <<env, calls>>

Step(p) ==
    \/ JobsFetch(p) \/ NextRequest(p) \/ TryFetch(p) \/ Creat(p) \/ Temporary(p)
    \/ CloseFile(p) \/ CompareSize(p) \/ CompareSum(p) \/ CreateSymlink(p) \/ CleanUp(p)
    \/ StartSsh(p) \/ Answer(p) \/ AnswerLate(p) \/ Resolve(p) \/ FetchXGet(p)
    \/ Read(p) \/ ReadLate(p) \/ ReadAll(p) \/ Exit(p)

Next ==
    \E p \in conf.users :
        \/ \E todo \in conf.programs : Start(p, todo)
        \/ Step(p) \/ Serve(p) \/ ServerDies(p) \/ Kill(p)

Spec == Init /\ [][Next]_vars

\* Every call of the system returns, reads because of FETCH_TIMEOUT.
FairSpec == Spec /\ \A p \in Proc : WF_vars(Step(p))

------------------------------------------------------------------------------
(* Properties                                                              *)

\* A package that try_fetch returned EPKG_OK for is in the cache exactly as the
\* catalogue describes it, until the command ends: whatever was in the cache
\* before, whatever a server sent or came out of step through the ssh session,
\* and whatever the command fetched next, unless another process worked on the
\* file after its checksum was compared.
FetchedIsVerified ==
    \A p \in Proc : \A r \in call[p].got \ touched[p] :
        Cached(r) /\ data[cache[r]] = Catalogue(r)

\* The line that start_ssh takes for an answer is the answer to the request it
\* has just sent, as long as no earlier read of the session timed out and no
\* write of its data failed: all bytes of a file are taken, no more.
AnswersMatch ==
    \A p \in Proc :
        At(p) = "answer" /\ ssh[p].chan # <<>> /\ ~ssh[p].spoiled
            => Head(ssh[p].chan).of = Req(p)

\* A download that gives up after temporary errors has tried as many mirrors as
\* it had retries or mirrors: all of an SRV list, but never the third of HTTP.
MirrorsTried ==
    \A p \in Proc :
        call[p].rc = "gaveup" =>
            LET n == Len(call[p].order)
                most == IF conf.mirror_type = "HTTP" THEN Min({n, 2}) ELSE n
            IN  call[p].tried = 1 .. Max({1, Min({conf.FETCH_RETRY, most})})

\* Every command that fetches ends, whatever the servers do, except in the
\* search for distinct random weights.
FetchReturns == \A p \in Proc : [](At(p) # "idle" => <>(At(p) \in {"idle", "loops"}))
=============================================================================
