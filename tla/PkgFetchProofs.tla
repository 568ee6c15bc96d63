--------------------------- MODULE PkgFetchProofs ---------------------------
(***************************************************************************)
(* Proofs about PkgFetch.                                                  *)
(***************************************************************************)
EXTENDS PkgFetch, FiniteSetTheorems, TLAPS

------------------------------------------------------------------------------
(* Types                                                                   *)

Pcs == {"idle", "size", "next", "access", "creat", "temp", "ssh", "answer", "mirrors", "loops",
        "xget", "read", "close", "stat", "sum", "symlink", "cleanup", "done"}
Blocks == [of : Request, kind : {"good", "other", "ok", "ko"}, place : Nat]
Commands ==
    [pc : Pcs, todo : Seq(Request), already : BOOLEAN, fetched : BOOLEAN,
     fd : Inode \cup {None}, off : Nat, sz : Int, src : Seq(Blocks), retry : Nat,
     cur : Nat, order : Seq(Nat), tried : SUBSET Nat,
     rc : {"ok", "fatal", "uptodate", "gaveup"}, skipped : BOOLEAN, got : SUBSET Package]
Sessions ==
    [open : BOOLEAN, fresh : BOOLEAN, alive : BOOLEAN, asked : Seq(Request),
     chan : Seq(Blocks), spoiled : BOOLEAN]

CallType == call \in [Proc -> Commands]
SshType == ssh \in [Proc -> Sessions]
ConfType == conf \in Confs /\ zone \in Zones \cup {<<>>}
FilesType ==
    /\ cache \in [Package -> Inode \cup {None}]
    /\ data \in [Inode -> Seq(Blocks \cup {Hole})]
    /\ touched \in [Proc -> SUBSET Package]
TypeOK == CallType /\ SshType /\ ConfType /\ FilesType /\ calls \in Nat /\ faults \in Nat

(* What a command holds at its place                                       *)

Caching == {"access", "creat", "stat", "sum", "symlink", "cleanup"}
Fetching == {"ssh", "answer", "mirrors", "loops", "xget", "read", "close"}

\* It works on a request, a package while it works on the cache; it has a
\* descriptor while it fetches, by the way its repository is reached; what it
\* reads lies before it, from its start; one that ended left nothing.
Sensible(c) ==
    /\ c.pc \in Caching \cup Fetching \cup {"temp"} => c.todo # <<>>
    /\ c.pc \in Caching => Head(c.todo) \in Package
    /\ c.pc = "temp" => Head(c.todo) \notin Package
    /\ c.pc \in Fetching <=> c.fd # None
    /\ c.pc \in {"ssh", "answer"} => conf.scheme = "ssh"
    /\ c.pc \in {"mirrors", "loops", "xget"} => conf.scheme # "ssh"
    /\ c.pc \in {"mirrors", "loops"} => conf.mirror_type # "NOMIRROR"
    /\ c.pc = "read" /\ conf.scheme # "ssh" => c.sz <= Len(c.src)
    /\ c.pc \notin {"read", "close"} => c.off = 0
    /\ c.pc = "idle" => c = Idle
AllSensible == \A p \in Proc : Sensible(call[p])

(* The cache                                                               *)

\* Packages do not share files, and what is open under the name of a package
\* was opened for it.
Named ==
    /\ \A r, s \in Package : cache[r] = cache[s] /\ cache[r] # None => r = s
    /\ \A q \in Proc, r \in Package :
          call[q].fd # None /\ call[q].fd = cache[r] => Req(q) = r

\* A package is compared before it is called fetched, and nobody fetches or
\* removes what it holds as fetched.
Compared ==
    \A p \in Proc : At(p) = "symlink" /\ Req(p) \notin touched[p] =>
        Cached(Req(p)) /\ data[cache[Req(p)]] = Catalogue(Req(p))
Spared ==
    \A p \in Proc : At(p) \in Fetching \cup {"creat", "cleanup"} =>
        Req(p) \notin call[p].got \ touched[p]

(* The ssh session                                                         *)

IsReply(ch, r) ==
    /\ ch # <<>>
    /\ \A i \in 1 .. Len(ch) : ch[i].of = r
    /\ Head(ch).kind = "ok" => Len(ch) - 1 <= Head(ch).place
    /\ Head(ch).kind # "ok" => Len(ch) = 1

\* While nothing went wrong, the session holds the request that waits for an
\* answer, the reply to it, what the command has still to read, or nothing.
InStep(c, s) ==
    /\ conf.scheme # "ssh" => s = NoSession
    /\ ~s.spoiled =>
         /\ c.pc \notin {"answer", "read"} => s.asked = <<>> /\ s.chan = <<>>
         /\ c.pc = "answer" => \/ s.asked = <<>> /\ s.chan = <<>>
                               \/ s.asked = <<Head(c.todo)>> /\ s.chan = <<>>
                               \/ s.asked = <<>> /\ IsReply(s.chan, Head(c.todo))
         /\ c.pc = "read" => /\ s.asked = <<>>
                             /\ \A i \in 1 .. Len(s.chan) : s.chan[i].of = Head(c.todo)
                             /\ conf.scheme = "ssh" => Len(s.chan) <= c.sz - c.off
AllInStep == \A p \in Proc : InStep(call[p], ssh[p])

(* The mirrors                                                             *)

\* The mirrors of the list that a download can reach.
Reached(c) == IF c.order = <<>> THEN 1
              ELSE IF conf.mirror_type = "SRV" THEN Len(c.order)
              ELSE IF Len(c.order) < 2 THEN 1 ELSE 2
Least(m, n) == IF m <= n THEN m ELSE n

\* After k failures the first k mirrors were tried, or all that are reached.
Walked(c) ==
    /\ conf.mirror_type = "NOMIRROR" => c.order = <<>> /\ c.cur = 1
    /\ c.pc \notin {"xget", "read", "close"} => c.tried = {}
    /\ c.pc = "mirrors" => c.retry = conf.FETCH_RETRY
    /\ c.pc = "xget" =>
         LET k == conf.FETCH_RETRY - c.retry
         IN  /\ k >= 0 /\ (k > 0 => c.retry > 0)
             /\ c.tried = 1 .. Least(k, Reached(c))
             /\ c.cur \in 1 .. Reached(c) /\ (k < Reached(c) => c.cur = k + 1)
    /\ c.rc = "gaveup" =>
         /\ c.pc = "close"
         /\ c.tried = 1 .. (IF conf.FETCH_RETRY = 0 THEN 1
                            ELSE Least(conf.FETCH_RETRY, Reached(c)))
AllWalked == \A p \in Proc : Walked(call[p])

Sound(c) == Sensible(c) /\ Walked(c)
AllSound == AllSensible /\ AllWalked
Proceeds(p) == \E n \in Commands : Goes(p, n) /\ Sound(n)

------------------------------------------------------------------------------
(* One command goes on                                                     *)

LEMMA IdleSound ==
  Idle \in Commands /\ (conf \in Confs => Sound(Idle))
<1>1. Idle \in Commands
  BY DEF Idle, Commands, Pcs
<1>2. ASSUME conf \in Confs PROVE Sensible(Idle)
  BY DEF Sensible, Idle, Caching, Fetching
<1>3. ASSUME conf \in Confs PROVE Walked(Idle)
  BY DEF Walked, Idle
<1> QED
  BY <1>1, <1>2, <1>3 DEF Sound

LEMMA CommandSound ==
  ASSUME TypeOK, AllSound, NEW p \in Proc
  PROVE  call[p] \in Commands /\ Sensible(call[p]) /\ Walked(call[p]) /\ Sound(call[p])
BY DEF TypeOK, CallType, AllSound, AllSensible, AllWalked, Sound

LEMMA ConfTyped ==
  ASSUME TypeOK
  PROVE  /\ conf.mirror_type \in {"SRV", "HTTP", "NOMIRROR"} /\ conf.FETCH_RETRY \in Nat
         /\ conf.users \subseteq Proc
         /\ \A todo \in conf.programs : todo \in Seq(Request)
         /\ zone \in Seq([priority : Nat, weight : Nat])
<1>1. \A s : s \in Seq(Package) \cup Seq(Document) => s \in Seq(Request)
  BY DEF Request
<1>2. conf \in Confs /\ zone \in Zones \cup {<<>>}
  BY DEF TypeOK, ConfType
<1>3. zone \in Seq([priority : Nat, weight : Nat])
  <2>1. CASE zone \in Zones
    BY <2>1, FetchAssumption
  <2>2. CASE zone = <<>>
    BY <2>2
  <2> QED
    BY <1>2, <2>1, <2>2
<1>4. /\ conf.mirror_type \in {"SRV", "HTTP", "NOMIRROR"} /\ conf.FETCH_RETRY \in Nat
      /\ conf.users \subseteq Proc /\ conf.programs \subseteq Seq(Package) \cup Seq(Document)
  BY <1>2, FetchAssumption
<1> QED
  BY <1>1, <1>3, <1>4

LEMMA Spare ==
  ASSUME TypeOK, NEW p \in Proc, call[p].fd = None
  PROVE  /\ FreeInode \in Inode /\ FreeInode \notin OpenInodes
         /\ \A r \in Package : cache[r] # FreeInode
<1> DEFINE others == {call[q].fd : q \in Proc \ {p}}
           names == {cache[r] : r \in Package}
           f == [q \in Proc \ {p} |-> call[q].fd]
           g == [r \in Package |-> cache[r]]
<1>1. IsFiniteSet(Proc \ {p}) /\ Cardinality(Proc \ {p}) = Cardinality(Proc) - 1
  BY FS_RemoveElement, FetchAssumption
<1>2. IsFiniteSet(others) /\ Cardinality(others) <= Cardinality(Proc \ {p})
  <2>1. f \in Surjection(Proc \ {p}, others)
    BY DEF Surjection
  <2> QED
    BY ONLY <2>1, <1>1, FS_Surjection
<1>3. IsFiniteSet(names) /\ Cardinality(names) <= Cardinality(Package)
  <2>1. g \in Surjection(Package, names)
    BY DEF Surjection
  <2>2. IsFiniteSet(Package)
    BY FetchAssumption
  <2> QED
    BY ONLY <2>1, <2>2, FS_Surjection
<1>4. /\ Cardinality(Proc) \in Nat /\ Cardinality(Package) \in Nat
      /\ Cardinality(Inode) \in Nat /\ IsFiniteSet(Inode)
      /\ Cardinality(Inode) >= Cardinality(Proc) + Cardinality(Package)
  BY FS_CardinalityType, FetchAssumption
<1>5. /\ Cardinality(others) \in Nat /\ Cardinality(names) \in Nat
      /\ Cardinality(others \cap names) \in Nat /\ IsFiniteSet(others \cup names)
      /\ Cardinality(others \cup names) \in Nat
  BY <1>2, <1>3, FS_CardinalityType, FS_Intersection, FS_Union
<1>6. Cardinality(others \cup names) < Cardinality(Inode)
  <2>1. Cardinality(others \cup names) =
          Cardinality(others) + Cardinality(names) - Cardinality(others \cap names)
    BY <1>2, <1>3, FS_Union
  <2> QED
    BY <2>1, <1>1, <1>2, <1>3, <1>4, <1>5
<1>7. ~(Inode \subseteq others \cup names)
  <2>1. Inode \in SUBSET (others \cup names) =>
          Cardinality(Inode) <= Cardinality(others \cup names)
    BY <1>5, FS_Subset
  <2> QED
    BY <2>1, <1>4, <1>5, <1>6
<1>8. \E i \in Inode : i \notin OpenInodes /\ \A r \in Package : cache[r] # i
  BY <1>7 DEF OpenInodes
<1> QED
  BY <1>8 DEF FreeInode

(* Each operation                                                          *)

LEMMA StartSound ==
  ASSUME TypeOK, AllSound, NEW p \in Proc, NEW todo \in conf.programs, Start(p, todo)
  PROVE  Proceeds(p)
<1> DEFINE c == call[p]
           n == [c EXCEPT !.pc = IF todo \in Seq(Package) THEN "size" ELSE "next", !.todo = todo]
<1>0. c \in Commands /\ Sensible(c) /\ Walked(c) /\ c.pc = "idle" /\ Goes(p, n)
  BY CommandSound DEF Start, At
<1>1. todo \in Seq(Request)
  BY ConfTyped
<1>2. n \in Commands
  BY <1>0, <1>1 DEF Commands, Pcs
<1>3. Sensible(n)
  BY <1>0 DEF Sensible, Commands, Caching, Fetching
<1>4. Walked(n)
  BY <1>0 DEF Walked, Commands
<1> QED
  BY <1>0, <1>2, <1>3, <1>4 DEF Proceeds, Sound

LEMMA JobsFetchSound ==
  ASSUME TypeOK, AllSound, NEW p \in Proc, JobsFetch(p)
  PROVE  Proceeds(p)
<1> DEFINE c == call[p]
<1>0. c \in Commands /\ Sensible(c) /\ Walked(c) /\ c.pc = "size"
  BY CommandSound DEF JobsFetch, At
<1>1. PICK n : /\ Goes(p, n)
               /\ n \in {[c EXCEPT !.pc = "done", !.skipped = TRUE],
                         [c EXCEPT !.pc = "done", !.rc = "fatal"], [c EXCEPT !.pc = "next"]}
  BY DEF JobsFetch, Goto, Ends
<1>2. n \in Commands
  <2>1. CASE n = [c EXCEPT !.pc = "done", !.skipped = TRUE]
    BY <1>0, <2>1 DEF Commands, Pcs
  <2>2. CASE n = [c EXCEPT !.pc = "done", !.rc = "fatal"]
    BY <1>0, <2>2 DEF Commands, Pcs
  <2>3. CASE n = [c EXCEPT !.pc = "next"]
    BY <1>0, <2>3 DEF Commands, Pcs
  <2> QED
    BY <1>1, <2>1, <2>2, <2>3
<1>3. Sensible(n)
  BY <1>0, <1>1 DEF Sensible, Commands, Caching, Fetching
<1>4. Walked(n)
  BY <1>0, <1>1 DEF Walked, Commands
<1> QED
  BY <1>1, <1>2, <1>3, <1>4 DEF Proceeds, Sound

LEMMA NextRequestSound ==
  ASSUME TypeOK, AllSound, NEW p \in Proc, NextRequest(p)
  PROVE  Proceeds(p)
<1> DEFINE c == call[p]
           e == [c EXCEPT !.pc = "done", !.rc = "ok"]
           n == [c EXCEPT !.pc = IF Req(p) \in Package THEN "access" ELSE "temp",
                          !.already = FALSE, !.fetched = FALSE, !.rc = "ok"]
<1>0. c \in Commands /\ Sensible(c) /\ Walked(c) /\ c.pc = "next"
  BY CommandSound DEF NextRequest, At
<1>1. CASE c.todo = <<>>
  <2>1. Goes(p, e)
    BY <1>1 DEF NextRequest, Ends
  <2>2. e \in Commands
    BY <1>0 DEF Commands, Pcs
  <2>3. Sensible(e)
    BY <1>0 DEF Sensible, Commands, Caching, Fetching
  <2>4. Walked(e)
    BY <1>0 DEF Walked, Commands
  <2> QED
    BY <2>1, <2>2, <2>3, <2>4 DEF Proceeds, Sound
<1>2. CASE c.todo # <<>>
  <2>1. Goes(p, n)
    BY <1>2 DEF NextRequest
  <2>2. n \in Commands
    BY <1>0 DEF Commands, Pcs
  <2>3. Sensible(n)
    BY <1>0, <1>2 DEF Sensible, Commands, Caching, Fetching, Req
  <2>4. Walked(n)
    BY <1>0 DEF Walked, Commands
  <2> QED
    BY <2>1, <2>2, <2>3, <2>4 DEF Proceeds, Sound
<1> QED
  BY <1>1, <1>2

LEMMA TryFetchSound ==
  ASSUME TypeOK, AllSound, NEW p \in Proc, TryFetch(p)
  PROVE  Proceeds(p)
<1> DEFINE c == call[p]
<1>0. c \in Commands /\ Sensible(c) /\ Walked(c) /\ c.pc = "access"
  BY CommandSound DEF TryFetch, At
<1>1. PICK n : /\ Goes(p, n)
               /\ n \in {[c EXCEPT !.pc = "stat", !.fetched = FALSE],
                         [c EXCEPT !.pc = "cleanup", !.rc = "fatal"],
                         [c EXCEPT !.pc = "next", !.todo = Tail(@)], [c EXCEPT !.pc = "creat"]}
  BY DEF TryFetch, Goto, Ends
<1>2. n \in Commands
  <2>1. CASE n = [c EXCEPT !.pc = "stat", !.fetched = FALSE]
    BY <1>0, <2>1 DEF Commands, Pcs
  <2>2. CASE n = [c EXCEPT !.pc = "next", !.todo = Tail(@)]
    <3>1. Tail(c.todo) \in Seq(Request)
      BY <1>0 DEF Commands, Sensible, Caching
    <3> QED
      BY <1>0, <2>2, <3>1 DEF Commands, Pcs
  <2>3. CASE n = [c EXCEPT !.pc = "cleanup", !.rc = "fatal"]
    BY <1>0, <2>3 DEF Commands, Pcs
  <2>4. CASE n = [c EXCEPT !.pc = "creat"]
    BY <1>0, <2>4 DEF Commands, Pcs
  <2> QED
    BY <1>1, <2>1, <2>2, <2>3, <2>4
<1>3. Sensible(n)
  BY <1>0, <1>1 DEF Sensible, Commands, Caching, Fetching
<1>4. Walked(n)
  BY <1>0, <1>1 DEF Walked, Commands
<1> QED
  BY <1>1, <1>2, <1>3, <1>4 DEF Proceeds, Sound

LEMMA BeginSound ==
  ASSUME TypeOK, AllSound, NEW p \in Proc, call[p].pc \in {"creat", "temp"},
         NEW i \in Inode, Begin(p, i)
  PROVE  Proceeds(p)
<1> DEFINE c == call[p]
           pc == IF conf.scheme = "ssh" THEN "ssh"
                   ELSE IF conf.mirror_type = "NOMIRROR" THEN "xget" ELSE "mirrors"
           n == [c EXCEPT !.pc = pc, !.fd = i, !.retry = conf.FETCH_RETRY]
<1>0. c \in Commands /\ Sensible(c) /\ Walked(c) /\ Goes(p, n) /\ i # None
  BY CommandSound, FetchAssumption DEF Begin
<1>1. conf.FETCH_RETRY \in Nat
  BY ConfTyped
<1>2. /\ pc \in {"ssh", "mirrors", "xget"} /\ (pc = "ssh" <=> conf.scheme = "ssh")
      /\ pc = "mirrors" => conf.mirror_type # "NOMIRROR"
      /\ pc = "xget" => conf.mirror_type = "NOMIRROR"
  <2>1. CASE conf.scheme = "ssh"
    BY <2>1
  <2>2. CASE conf.scheme # "ssh" /\ conf.mirror_type = "NOMIRROR"
    BY <2>2
  <2>3. CASE conf.scheme # "ssh" /\ conf.mirror_type # "NOMIRROR"
    BY <2>3
  <2> QED
    BY <2>1, <2>2, <2>3
<1> HIDE DEF pc
<1>3. n \in Commands
  BY <1>0, <1>1, <1>2 DEF Commands, Pcs
<1>4. Sensible(n)
  BY <1>0, <1>2 DEF Sensible, Commands, Caching, Fetching
<1>5. Walked(n)
  <2>1. c.tried = {} /\ c.rc # "gaveup"
    BY <1>0 DEF Walked
  <2>2. pc = "xget" => c.order = <<>> /\ c.cur = 1
    BY <1>0, <1>2 DEF Walked
  <2>3. 1 .. 0 = {}
    OBVIOUS
  <2>4. CASE pc = "xget"
    <3>1. Reached(n) = 1
      BY <1>0, <2>2, <2>4 DEF Commands, Reached
    <3>2. n.tried = {} /\ n.cur = 1 /\ n.retry = conf.FETCH_RETRY /\ n.order = <<>>
      BY <1>0, <2>1, <2>2, <2>4 DEF Commands
    <3>3. n.pc = "xget" /\ n.rc # "gaveup"
      BY <1>0, <2>1, <2>4 DEF Commands
    <3> HIDE DEF n
    <3>4. n.tried = 1 .. Least(0, 1)
      BY <2>3, <3>2 DEF Least
    <3>5. conf.FETCH_RETRY - n.retry = 0
      BY <1>1, <3>2
    <3>6. n.tried = 1 .. Least(conf.FETCH_RETRY - n.retry, Reached(n))
      BY <3>1, <3>4, <3>5
    <3>7. n.cur \in 1 .. Reached(n) /\ n.cur = conf.FETCH_RETRY - n.retry + 1
      BY <3>1, <3>2, <3>5
    <3> QED
      <4> DEFINE k == conf.FETCH_RETRY - n.retry
      <4>1. k >= 0 /\ (k > 0 => n.retry > 0)
        BY <3>5
      <4> HIDE DEF k
      <4> QED
        BY <3>2, <3>3, <3>6, <3>7, <4>1 DEF Walked, k
  <2>5. CASE pc # "xget"
    BY <1>0, <1>1, <1>2, <2>1, <2>5 DEF Walked, Commands
  <2> QED
    BY <2>4, <2>5
<1> QED
  BY <1>0, <1>3, <1>4, <1>5 DEF Proceeds, Sound

LEMMA CreatSound ==
  ASSUME TypeOK, AllSound, NEW p \in Proc, Creat(p)
  PROVE  Proceeds(p)
<1> DEFINE c == call[p]
           n == [c EXCEPT !.pc = "cleanup", !.rc = "fatal"]
           i == IF Cached(Req(p)) THEN cache[Req(p)] ELSE FreeInode
<1>0. c \in Commands /\ Sensible(c) /\ Walked(c) /\ c.pc = "creat"
  BY CommandSound DEF Creat, At
<1>1. CASE Begin(p, i)
  <2>1. i \in Inode
    BY <1>0, Spare DEF TypeOK, FilesType, Cached, Req, Sensible, Caching, Fetching
  <2> QED
    BY <1>0, <1>1, <2>1, BeginSound
<1>2. CASE Goes(p, n)
  <2>1. n \in Commands
    BY <1>0 DEF Commands, Pcs
  <2>2. Sensible(n)
    BY <1>0 DEF Sensible, Commands, Caching, Fetching
  <2>3. Walked(n)
    BY <1>0 DEF Walked, Commands
  <2> QED
    BY <1>2, <2>1, <2>2, <2>3 DEF Proceeds, Sound
<1> QED
  BY <1>1, <1>2 DEF Creat, Ends

LEMMA TemporarySound ==
  ASSUME TypeOK, AllSound, NEW p \in Proc, Temporary(p)
  PROVE  Proceeds(p)
<1>1. call[p].pc = "temp" /\ Sensible(call[p]) /\ call[p] \in Commands
  BY CommandSound DEF Temporary, At
<1>2. call[p].fd = None
  BY <1>1 DEF Sensible, Fetching
<1> QED
  BY <1>1, <1>2, Spare, BeginSound DEF Temporary

LEMMA CloseFileSound ==
  ASSUME TypeOK, AllSound, NEW p \in Proc, CloseFile(p)
  PROVE  Proceeds(p)
<1> DEFINE c == call[p]
           d == Closed(c)
           pc == IF c.rc = "ok" THEN "stat" ELSE "cleanup"
           rc == IF c.rc = "ok" THEN "ok" ELSE "fatal"
           s == ClosedPackage(c)
           t == ClosedDocument(c)
           u == ClosedForGood(c)
<1>0. c \in Commands /\ Sensible(c) /\ Walked(c) /\ c.pc = "close"
  BY CommandSound DEF CloseFile, At
<1>1. \/ Req(p) \in Package /\ Goes(p, s)
      \/ Goes(p, t) \/ Goes(p, u)
  BY DEF CloseFile
<1>5. /\ d \in Commands /\ d.todo = c.todo /\ d.fd = None /\ d.tried = {} /\ d.off = 0
      /\ d.order = c.order /\ d.cur = c.cur
  <2>1. d \in Commands
    <3> DEFINE none == <<>>
               zero == 0
               a == [c EXCEPT !.fd = None, !.off = zero, !.sz = zero]
    <3>1. zero \in Nat /\ zero \in Int /\ none \in Seq(Blocks)
      OBVIOUS
    <3>2. d = [a EXCEPT !.src = none, !.retry = zero, !.tried = {}]
      BY DEF Closed
    <3> HIDE DEF zero, none
    <3>3. a \in Commands
      BY <1>0, <3>1 DEF Commands
    <3> HIDE DEF a, d
    <3> QED
      BY <3>1, <3>2, <3>3 DEF Commands
  <2>2. d.todo = c.todo /\ d.fd = None /\ d.tried = {} /\ d.off = 0
    BY <1>0 DEF Commands, Closed
  <2>3. d.order = c.order /\ d.cur = c.cur
    BY <1>0 DEF Commands, Closed
  <2> QED
    BY <2>1, <2>2, <2>3
<1> HIDE DEF d
<1>2. CASE Req(p) \in Package /\ Goes(p, s)
  <2>0. pc \in {"stat", "cleanup"} /\ rc \in {"ok", "fatal"}
    OBVIOUS
  <2>9. s = [d EXCEPT !.pc = pc, !.fetched = TRUE, !.rc = rc]
    BY DEF ClosedPackage, d
  <2> HIDE DEF pc, rc, s
  <2>1. s \in Commands
    BY <1>5, <2>0, <2>9 DEF Commands, Pcs
  <2>2. Sensible(s)
    BY <1>0, <1>5, <1>2, <2>0, <2>9 DEF Sensible, Commands, Caching, Fetching, Req
  <2>3. Walked(s)
    BY <1>0, <1>5, <2>0, <2>9 DEF Walked, Commands
  <2> QED
    BY <1>2, <2>1, <2>2, <2>3 DEF Proceeds, Sound
<1>3. CASE Goes(p, t)
  <2>0. t = [d EXCEPT !.pc = "next", !.rc = "ok", !.todo = Tail(d.todo)]
    BY DEF ClosedDocument, d
  <2> HIDE DEF t
  <2>1. Tail(c.todo) \in Seq(Request)
    BY <1>0, <1>5, <2>0 DEF Commands, Sensible, Fetching
  <2>2. t \in Commands
    BY <1>5, <2>0, <2>1 DEF Commands, Pcs
  <2>3. Sensible(t)
    BY <1>0, <1>5, <2>0 DEF Sensible, Commands, Caching, Fetching
  <2>4. Walked(t)
    BY <1>0, <1>5, <2>0 DEF Walked, Commands
  <2> QED
    BY <1>3, <2>2, <2>3, <2>4 DEF Proceeds, Sound
<1>4. CASE Goes(p, u)
  <2>0. u = [d EXCEPT !.pc = "done", !.rc = "fatal"]
    BY DEF ClosedForGood, d
  <2> HIDE DEF u
  <2>1. u \in Commands
    BY <1>0, <1>5, <2>0 DEF Commands, Pcs
  <2>2. Sensible(u)
    BY <1>0, <1>5, <2>0 DEF Sensible, Commands, Caching, Fetching
  <2>3. Walked(u)
    BY <1>0, <1>5, <2>0 DEF Walked, Commands
  <2> QED
    BY <1>4, <2>1, <2>2, <2>3 DEF Proceeds, Sound
<1> QED
  BY <1>1, <1>2, <1>3, <1>4

Outcomes(c) ==
    {[c EXCEPT !.pc = "sum"], [c EXCEPT !.pc = "symlink"],
     [c EXCEPT !.pc = "access", !.already = TRUE], [c EXCEPT !.pc = "cleanup", !.rc = "fatal"]}

LEMMA ComparedSound ==
  ASSUME TypeOK, AllSound, NEW p \in Proc, call[p].pc \in {"stat", "sum"},
         NEW n, Goes(p, n),
         n \in Outcomes(call[p])
  PROVE  Proceeds(p)
<1> DEFINE c == call[p]
<1>0. c \in Commands /\ Sensible(c) /\ Walked(c) /\ c.pc \in {"stat", "sum"}
  BY CommandSound
<1>1. n \in Commands
  <2>1. CASE n = [c EXCEPT !.pc = "sum"]
    BY <1>0, <2>1 DEF Commands, Pcs
  <2>2. CASE n = [c EXCEPT !.pc = "symlink"]
    BY <1>0, <2>2 DEF Commands, Pcs
  <2>3. CASE n = [c EXCEPT !.pc = "access", !.already = TRUE]
    BY <1>0, <2>3 DEF Commands, Pcs
  <2>4. CASE n = [c EXCEPT !.pc = "cleanup", !.rc = "fatal"]
    BY <1>0, <2>4 DEF Commands, Pcs
  <2> QED
    BY <2>1, <2>2, <2>3, <2>4 DEF Outcomes
<1>2. Sensible(n)
  <2>1. n.pc \in Caching \ {"idle"} /\ n.todo = c.todo /\ n.fd = c.fd /\ n.off = c.off
    BY <1>0 DEF Commands, Caching, Outcomes
  <2> HIDE DEF c
  <2> QED
    BY <1>0, <2>1 DEF Sensible, Caching, Fetching
<1>3. Walked(n)
  BY <1>0 DEF Walked, Commands, Outcomes
<1> QED
  BY <1>1, <1>2, <1>3 DEF Proceeds, Sound

LEMMA CompareSizeSound ==
  ASSUME TypeOK, AllSound, NEW p \in Proc, CompareSize(p)
  PROVE  Proceeds(p)
<1>1. call[p].pc \in {"stat", "sum"}
  BY DEF CompareSize, At
<1>2. PICK n : Goes(p, n) /\ n \in Outcomes(call[p])
  BY DEF CompareSize, Goto, Ends, Refused, Again, Outcomes
<1> QED
  BY <1>1, <1>2, ComparedSound

LEMMA CompareSumSound ==
  ASSUME TypeOK, AllSound, NEW p \in Proc, CompareSum(p)
  PROVE  Proceeds(p)
<1>1. call[p].pc \in {"stat", "sum"}
  BY DEF CompareSum, At
<1>2. PICK n : Goes(p, n) /\ n \in Outcomes(call[p])
  BY DEF CompareSum, Goto, Ends, Refused, Again, Outcomes
<1> QED
  BY <1>1, <1>2, ComparedSound

LEMMA CreateSymlinkSound ==
  ASSUME TypeOK, AllSound, NEW p \in Proc, CreateSymlink(p)
  PROVE  Proceeds(p)
<1> DEFINE c == call[p]
           n == [c EXCEPT !.pc = "next", !.todo = Tail(@), !.got = @ \cup {Req(p)}]
<1>0. c \in Commands /\ Sensible(c) /\ Walked(c) /\ c.pc = "symlink" /\ Goes(p, n)
  BY CommandSound DEF CreateSymlink, At
<1>1. Tail(c.todo) \in Seq(Request) /\ Req(p) \in Package
  BY <1>0 DEF Commands, Sensible, Caching, Req
<1>2. n \in Commands
  BY <1>0, <1>1 DEF Commands, Pcs
<1>3. Sensible(n)
  BY <1>0 DEF Sensible, Commands, Caching, Fetching
<1>4. Walked(n)
  BY <1>0 DEF Walked, Commands
<1> QED
  BY <1>0, <1>2, <1>3, <1>4 DEF Proceeds, Sound

LEMMA CleanUpSound ==
  ASSUME TypeOK, AllSound, NEW p \in Proc, CleanUp(p)
  PROVE  Proceeds(p)
<1> DEFINE c == call[p]
           n == [c EXCEPT !.pc = "done", !.rc = "fatal"]
<1>0. c \in Commands /\ Sensible(c) /\ Walked(c) /\ c.pc = "cleanup" /\ Goes(p, n)
  BY CommandSound DEF CleanUp, At, Ends
<1>2. n \in Commands
  BY <1>0 DEF Commands, Pcs
<1>3. Sensible(n)
  BY <1>0 DEF Sensible, Commands, Caching, Fetching
<1>4. Walked(n)
  BY <1>0 DEF Walked, Commands
<1> QED
  BY <1>0, <1>2, <1>3, <1>4 DEF Proceeds, Sound

\* A download fails, ends, or dies.
LEMMA ClosingSound ==
  ASSUME TypeOK, AllSound, NEW p \in Proc, call[p].pc \in Fetching,
         NEW rc \in {"ok", "fatal", "uptodate"}, Ends(p, "close", rc)
  PROVE  Proceeds(p)
<1> DEFINE c == call[p]
           n == [c EXCEPT !.pc = "close", !.rc = rc]
<1>0. c \in Commands /\ Sensible(c) /\ Walked(c) /\ c.pc \in Fetching /\ Goes(p, n)
  BY CommandSound DEF Ends
<1>2. n \in Commands
  BY <1>0 DEF Commands, Pcs
<1>3. Sensible(n)
  BY <1>0 DEF Sensible, Commands, Caching, Fetching
<1>4. Walked(n)
  BY <1>0 DEF Walked, Commands, Fetching
<1> QED
  BY <1>0, <1>2, <1>3, <1>4 DEF Proceeds, Sound

LEMMA DiesSound ==
  ASSUME TypeOK, NEW p \in Proc, Dies(p)
  PROVE  Proceeds(p)
BY IdleSound DEF TypeOK, ConfType, Dies, Proceeds, Goes

LEMMA StartSshSound ==
  ASSUME TypeOK, AllSound, NEW p \in Proc, StartSsh(p)
  PROVE  Proceeds(p)
<1> DEFINE c == call[p]
           n == [c EXCEPT !.pc = "answer"]
<1>0. c \in Commands /\ Sensible(c) /\ Walked(c) /\ c.pc = "ssh"
  BY CommandSound DEF StartSsh, At
<1>1. Goes(p, n) \/ Ends(p, "close", "fatal")
  BY DEF StartSsh, Fails, Goto
<1>2. CASE Goes(p, n)
  <2>2. n \in Commands
    BY <1>0 DEF Commands, Pcs
  <2>3. Sensible(n)
    BY <1>0 DEF Sensible, Commands, Caching, Fetching
  <2>4. Walked(n)
    BY <1>0 DEF Walked, Commands
  <2> QED
    BY <1>2, <2>2, <2>3, <2>4 DEF Proceeds, Sound
<1> QED
  BY <1>0, <1>1, <1>2, ClosingSound DEF Fetching

LEMMA AnswerSound ==
  ASSUME TypeOK, AllSound, NEW p \in Proc, Answer(p)
  PROVE  Proceeds(p)
<1> DEFINE c == call[p]
           z == Head(ssh[p].chan).place
           n == Announced(c, z)
<1>0. c \in Commands /\ Sensible(c) /\ Walked(c) /\ c.pc = "answer"
  BY CommandSound DEF Answer, At
<1>1. Goes(p, n) \/ (\E rc \in {"fatal", "uptodate"} : Ends(p, "close", rc))
  BY DEF Answer, Fails
<1>2. CASE Goes(p, n)
  <2>1. z \in Nat
    <3>1. ssh[p].chan \in Seq(Blocks) /\ ssh[p].chan # <<>>
      BY DEF TypeOK, SshType, Sessions, Answer
    <3>2. Head(ssh[p].chan) \in Blocks
      BY <3>1
    <3> QED
      BY <3>2 DEF Blocks
  <2> HIDE DEF z
  <2>2. n \in Commands
    <3>1. z \in Int /\ "read" \in Pcs
      BY <2>1 DEF Pcs
    <3> QED
      BY <1>0, <3>1 DEF Commands, Announced
  <2>3. Sensible(n)
    BY <1>0 DEF Sensible, Commands, Caching, Fetching, Announced
  <2>4. Walked(n)
    BY <1>0 DEF Walked, Commands, Announced
  <2> QED
    BY <1>2, <2>2, <2>3, <2>4 DEF Proceeds, Sound
<1> QED
  BY <1>0, <1>1, <1>2, ClosingSound DEF Fetching

LEMMA AnswerLateSound ==
  ASSUME TypeOK, AllSound, NEW p \in Proc, AnswerLate(p)
  PROVE  Proceeds(p)
<1>1. call[p].pc = "answer" /\ (Ends(p, "close", "fatal") \/ Dies(p))
  BY DEF AnswerLate, At, Fails
<1> QED
  BY <1>1, ClosingSound, DiesSound DEF Fetching

LEMMA ReadLateSound ==
  ASSUME TypeOK, AllSound, NEW p \in Proc, ReadLate(p)
  PROVE  Proceeds(p)
<1>1. call[p].pc = "read" /\ Ends(p, "close", "fatal")
  BY DEF ReadLate, At, Fails
<1> QED
  BY <1>1, ClosingSound DEF Fetching

LEMMA ReadAllSound ==
  ASSUME TypeOK, AllSound, NEW p \in Proc, ReadAll(p)
  PROVE  Proceeds(p)
<1>1. call[p].pc = "read" /\ Ends(p, "close", "ok")
  BY DEF ReadAll, At
<1> QED
  BY <1>1, ClosingSound DEF Fetching

LEMMA ReadSound ==
  ASSUME TypeOK, AllSound, NEW p \in Proc, Read(p)
  PROVE  Proceeds(p)
<1> DEFINE c == call[p]
           k == c.off + 1
           n == Written(c)
<1>0. c \in Commands /\ Sensible(c) /\ Walked(c) /\ c.pc = "read"
  BY CommandSound DEF Read, At
<1>1. Goes(p, n) \/ Ends(p, "close", "fatal")
  BY DEF Read, Fails
<1>2. CASE Goes(p, n)
  <2>1. k \in Nat
    BY <1>0 DEF Commands
  <2>9. n = [c EXCEPT !.off = k]
    BY DEF Written
  <2> HIDE DEF k, n
  <2>2. n \in Commands
    BY <1>0, <2>1, <2>9 DEF Commands, Pcs
  <2>3. Sensible(n)
    BY <1>0, <2>9 DEF Sensible, Commands, Caching, Fetching
  <2>4. Walked(n)
    BY <1>0, <2>9 DEF Walked, Commands
  <2> QED
    BY <1>2, <2>2, <2>3, <2>4 DEF Proceeds, Sound
<1> QED
  BY <1>0, <1>1, <1>2, ClosingSound DEF Fetching

LEMMA ServedTyped ==
  ASSUME NEW r \in Request
  PROVE  /\ Catalogue(r) \in Seq(Blocks) /\ Len(Catalogue(r)) = SizeOf[r]
         /\ \A c \in Served(r) : c \in Seq(Blocks)
<1>1. SizeOf[r] \in Nat /\ SizeOf[r] > 0
  BY FetchAssumption
<1>2. ASSUME NEW kind \in {"good", "other"}
      PROVE  Content(r, kind) \in Seq(Blocks) /\ Len(Content(r, kind)) = SizeOf[r]
  <2>1. \A i \in 1 .. SizeOf[r] : Block(r, kind, i) \in Blocks
    BY <1>1 DEF Block, Blocks
  <2> QED
    BY <1>1, <2>1 DEF Content
<1>3. Block(r, "other", SizeOf[r] + 1) \in Blocks
  BY <1>1 DEF Block, Blocks
<1> QED
  BY <1>2, <1>3 DEF Served, Catalogue

LEMMA ReachedPositive ==
  ASSUME NEW c \in Commands
  PROVE  Reached(c) \in Nat /\ Reached(c) >= 1
BY DEF Reached, Commands

\* One failure more.
LEMMA WalkedOn ==
  ASSUME NEW k \in Nat, NEW n \in Nat, n >= 1, NEW cur \in 1 .. n, k < n => cur = k + 1
  PROVE  (1 .. Least(k, n)) \cup {cur} = 1 .. Least(k + 1, n)
<1>1. CASE k < n
  BY <1>1 DEF Least
<1>2. CASE ~(k < n)
  BY <1>2 DEF Least
<1> QED
  BY <1>1, <1>2

LEMMA NextMirrorReached ==
  ASSUME TypeOK, NEW c \in Commands, NEW k \in Nat,
         conf.mirror_type = "NOMIRROR" => c.order = <<>>,
         c.cur \in 1 .. Reached(c), k < Reached(c) => c.cur = k + 1
  PROVE  /\ NextMirror(c) \in 1 .. Reached(c)
         /\ k + 1 < Reached(c) => NextMirror(c) = k + 2
<1>1. CASE c.order = <<>>
  BY <1>1 DEF NextMirror, Reached
<1>2. CASE c.order # <<>>
  <2>1. Len(c.order) \in Nat /\ Len(c.order) >= 1
    BY <1>2 DEF Commands
  <2>2. CASE conf.mirror_type = "SRV"
    BY <1>2, <2>1, <2>2 DEF NextMirror, Reached
  <2>3. CASE conf.mirror_type # "SRV"
    BY <1>2, <2>1, <2>3 DEF NextMirror, Reached
  <2> QED
    BY <2>2, <2>3
<1> QED
  BY <1>1, <1>2

LEMMA FetchXGetSound ==
  ASSUME TypeOK, AllSound, NEW p \in Proc, FetchXGet(p)
  PROVE  Proceeds(p)
<1> DEFINE c == call[p]
           tried == c.tried \cup {c.cur}
           k == conf.FETCH_RETRY - c.retry
           up == GivesUp(c)
           on == TriesNext(c)
<1>0. c \in Commands /\ Sensible(c) /\ Walked(c) /\ c.pc = "xget"
  BY CommandSound DEF FetchXGet, At
<1>1. \/ \E src \in Served(Req(p)) : \E known \in BOOLEAN : Goes(p, Stream(c, src, known))
      \/ Ends(p, "close", "uptodate") \/ Ends(p, "close", "fatal")
      \/ c.retry <= 1 /\ Goes(p, up)
      \/ c.retry > 1 /\ Goes(p, on)
  BY DEF FetchXGet, Fails
<1>2. /\ c.todo \in Seq(Request) /\ c.todo # <<>> /\ Req(p) \in Request
      /\ c.tried \in SUBSET Nat /\ c.cur \in Nat /\ c.retry \in Nat
  BY <1>0 DEF Commands, Sensible, Fetching, Req
<1>3. Reached(c) \in Nat /\ Reached(c) >= 1 /\ conf.FETCH_RETRY \in Nat
  BY <1>0, ReachedPositive, ConfTyped
<1>4. /\ k \in Nat /\ (k > 0 => c.retry > 0)
      /\ c.tried = 1 .. Least(k, Reached(c))
      /\ c.cur \in 1 .. Reached(c) /\ (k < Reached(c) => c.cur = k + 1)
  BY <1>0, <1>2, <1>3 DEF Walked
<1>5. tried = 1 .. Least(k + 1, Reached(c))
  BY <1>3, <1>4, WalkedOn
<1>6. c.rc # "gaveup" /\ (conf.mirror_type = "NOMIRROR" => c.order = <<>> /\ c.cur = 1)
  BY <1>0 DEF Walked
<1>7. tried \in SUBSET Nat
  BY <1>2
<1>11. /\ up = [c EXCEPT !.pc = "close", !.rc = "gaveup", !.tried = tried]
       /\ on = [c EXCEPT !.retry = c.retry - 1, !.tried = tried, !.cur = NextMirror(c)]
  BY DEF GivesUp, TriesNext
<1> HIDE DEF tried, up, on
<1>8. ASSUME NEW src \in Served(Req(p)), NEW known \in BOOLEAN, Goes(p, Stream(c, src, known))
      PROVE  Proceeds(p)
  <2> DEFINE n == Stream(c, src, known)
             sz == IF known THEN Len(src) ELSE -1
  <2>9. n = [c EXCEPT !.pc = "read", !.src = src, !.sz = sz]
    BY DEF Stream
  <2>1. src \in Seq(Blocks) /\ Len(src) \in Nat
    BY <1>2, ServedTyped
  <2>2. sz \in Int /\ sz <= Len(src)
    BY <2>1
  <2> HIDE DEF n, sz
  <2>3. n \in Commands
    BY <1>0, <2>1, <2>2, <2>9 DEF Commands, Pcs
  <2>4. Sensible(n)
    BY <1>0, <2>2, <2>9 DEF Sensible, Commands, Caching, Fetching
  <2>5. Walked(n)
    BY <1>0, <1>6, <2>9 DEF Walked, Commands
  <2> QED
    BY <1>8, <2>3, <2>4, <2>5 DEF Proceeds, Sound, n
<1>9. CASE c.retry <= 1 /\ Goes(p, up)
  <2>1. up \in Commands
    BY <1>0, <1>7, <1>11 DEF Commands, Pcs
  <2>2. Sensible(up)
    BY <1>0, <1>11 DEF Sensible, Commands, Caching, Fetching
  <2>3. up.tried = tried /\ up.order = c.order /\ up.cur = c.cur /\ up.pc = "close"
    BY <1>0, <1>11 DEF Commands
  <2>4. Reached(up) = Reached(c)
    BY <2>3 DEF Reached
  <2>5. Least(k + 1, Reached(c)) =
          IF conf.FETCH_RETRY = 0 THEN 1 ELSE Least(conf.FETCH_RETRY, Reached(c))
    <3>1. IF conf.FETCH_RETRY = 0 THEN k = 0 ELSE k + 1 = conf.FETCH_RETRY
      <4>1. c.retry <= 1
        BY <1>9
      <4> QED
        BY <4>1, <1>2, <1>3, <1>4
    <3> HIDE DEF k
    <3> QED
      BY <3>1, <1>3 DEF Least
  <2> HIDE DEF k
  <2>6. Walked(up)
    BY <1>5, <1>6, <2>3, <2>4, <2>5 DEF Walked
  <2> QED
    BY <1>9, <2>1, <2>2, <2>6 DEF Proceeds, Sound
<1>10. CASE c.retry > 1 /\ Goes(p, on)
  <2> DEFINE m == NextMirror(c)
             r == c.retry - 1
  <2>1. m \in 1 .. Reached(c) /\ (k + 1 < Reached(c) => m = k + 2)
    BY <1>0, <1>4, <1>6, NextMirrorReached
  <2>2. m \in Nat /\ r \in Nat
    BY <2>1, <1>2, <1>3, <1>10
  <2>9. conf.mirror_type = "NOMIRROR" => m = 1
    BY <1>6 DEF NextMirror
  <2> HIDE DEF m, r
  <2>3. on = [c EXCEPT !.retry = r, !.tried = tried, !.cur = m]
    BY <1>11 DEF m, r
  <2>4. on \in Commands
    BY <1>0, <1>7, <2>2, <2>3 DEF Commands
  <2>5. on.pc = "xget" /\ on.rc # "gaveup" /\ on.order = c.order
    BY <1>0, <1>6, <2>3 DEF Commands
  <2>6. on.tried = tried /\ on.cur = m /\ on.retry = r
    BY <1>0, <2>3 DEF Commands
  <2>7. Sensible(on)
    BY <1>0, <2>3 DEF Sensible, Commands, Caching, Fetching
  <2>8. Walked(on)
    <3>1. Reached(on) = Reached(c)
      BY <2>5 DEF Reached
    <3>2. conf.FETCH_RETRY - on.retry = k + 1 /\ on.retry > 0 /\ k + 1 >= 0
      <4>1. c.retry > 1
        BY <1>10
      <4>2. on.retry = c.retry - 1
        BY <2>6 DEF r
      <4>3. k >= 0 /\ c.retry \in Nat /\ conf.FETCH_RETRY \in Nat
        BY <1>2, <1>3, <1>4
      <4> QED
        BY <4>1, <4>2, <4>3
    <3>3. on.tried = 1 .. Least(conf.FETCH_RETRY - on.retry, Reached(on))
      BY <2>6, <1>5, <3>1, <3>2
    <3>4. on.cur \in 1 .. Reached(on) /\ (k + 1 < Reached(on) => on.cur = k + 2)
      BY <2>1, <2>6, <3>1
    <3>5. conf.FETCH_RETRY - on.retry < Reached(on) => on.cur = conf.FETCH_RETRY - on.retry + 1
      BY <1>4, <3>2, <3>4
    <3> DEFINE j == conf.FETCH_RETRY - on.retry
    <3>6. j >= 0 /\ (j > 0 => on.retry > 0)
      BY <3>2
    <3>7. conf.mirror_type = "NOMIRROR" => on.order = <<>> /\ on.cur = 1
      BY <1>6, <2>5, <2>6, <2>9
    <3> HIDE DEF j, k
    <3> QED
      BY <2>5, <3>3, <3>4, <3>5, <3>6, <3>7 DEF Walked, j
  <2> QED
    BY <1>10, <2>4, <2>7, <2>8 DEF Proceeds, Sound
<1> QED
  BY <1>0, <1>1, <1>8, <1>9, <1>10, ClosingSound DEF Fetching

LEMMA OrdersTyped ==
  ASSUME TypeOK
  PROVE  /\ \A f \in SrvOrders(zone) : f \in Seq(Nat)
         /\ HttpList \in Seq(Nat)
<1>1. zone \in Seq([priority : Nat, weight : Nat])
  BY ConfTyped
<1>2. ASSUME NEW f \in SrvOrders(zone) PROVE f \in Seq(Nat)
  <2>1. f \in [DOMAIN zone -> DOMAIN zone]
    BY DEF SrvOrders, Bijection, Injection
  <2>2. DOMAIN zone = 1 .. Len(zone) /\ Len(zone) \in Nat
    BY <1>1
  <2> QED
    BY <2>1, <2>2
<1>3. HttpList \in Seq(Nat)
  BY FetchAssumption DEF HttpList
<1> QED
  BY <1>2, <1>3

LEMMA ResolveSound ==
  ASSUME TypeOK, AllSound, NEW p \in Proc, Resolve(p)
  PROVE  Proceeds(p)
<1> DEFINE c == call[p]
           loops == [c EXCEPT !.pc = "loops"]
<1>0. c \in Commands /\ Sensible(c) /\ Walked(c) /\ c.pc = "mirrors"
  BY CommandSound DEF Resolve, At
<1>1. \/ \E order \in Seq(Nat) : Goes(p, Follows(c, order))
      \/ Dies(p) \/ Goes(p, loops)
  <2>1. c.order \in Seq(Nat) /\ <<>> \in Seq(Nat)
    BY <1>0 DEF Commands
  <2> QED
    BY <2>1, OrdersTyped DEF Resolve, Goto
<1>2. /\ conf.mirror_type # "NOMIRROR" /\ c.tried = {} /\ c.retry = conf.FETCH_RETRY
      /\ c.rc # "gaveup"
  BY <1>0 DEF Walked, Sensible
<1>3. ASSUME NEW order \in Seq(Nat), Goes(p, Follows(c, order)) PROVE Proceeds(p)
  <2> DEFINE n == Follows(c, order)
             one == 1
  <2>1. one \in Nat
    OBVIOUS
  <2>2. n = [c EXCEPT !.pc = "xget", !.order = order, !.cur = one]
    BY DEF Follows
  <2> HIDE DEF one, n
  <2>3. n \in Commands
    BY <1>0, <2>1, <2>2 DEF Commands, Pcs
  <2>4. Sensible(n)
    BY <1>0, <2>2 DEF Sensible, Commands, Caching, Fetching
  <2>5. n.pc = "xget" /\ n.rc # "gaveup" /\ n.tried = {}
    BY <1>0, <1>2, <2>2 DEF Commands
  <2>6. n.cur = 1 /\ n.retry = conf.FETCH_RETRY
    BY <1>0, <1>2, <2>2 DEF Commands, one
  <2>7. Walked(n)
    <3>1. conf.FETCH_RETRY \in Nat
      BY ConfTyped
    <3>2. Reached(n) \in Nat /\ Reached(n) >= 1
      BY <2>3, ReachedPositive
    <3> DEFINE k == conf.FETCH_RETRY - n.retry
    <3>3. k = 0
      BY <2>6, <3>1
    <3>4. n.tried = 1 .. Least(k, Reached(n))
      <4>1. Least(k, Reached(n)) = 0 /\ 1 .. 0 = {}
        BY <3>2, <3>3 DEF Least
      <4> QED
        BY <4>1, <2>5
    <3>5. n.cur \in 1 .. Reached(n) /\ n.cur = k + 1
      BY <3>2, <3>3, <2>6
    <3>6. k >= 0 /\ ~(k > 0)
      BY <3>3
    <3> HIDE DEF k
    <3> QED
      BY <1>2, <2>5, <3>4, <3>5, <3>6 DEF Walked, k
  <2> QED
    BY <1>3, <2>3, <2>4, <2>7 DEF Proceeds, Sound, n
<1>4. CASE Goes(p, loops)
  <2>1. loops \in Commands
    BY <1>0 DEF Commands, Pcs
  <2>2. Sensible(loops)
    BY <1>0 DEF Sensible, Commands, Caching, Fetching
  <2>3. Walked(loops)
    BY <1>0, <1>2 DEF Walked, Commands
  <2> QED
    BY <1>4, <2>1, <2>2, <2>3 DEF Proceeds, Sound
<1> QED
  BY <1>1, <1>3, <1>4, DiesSound

\* Every step of the system is one of a command, and leaves the others alone.
LEMMA NextProceeds ==
  ASSUME TypeOK, AllSound, Next
  PROVE  UNCHANGED env /\ (UNCHANGED call \/ \E p \in Proc : Proceeds(p))
<1>1. PICK p \in conf.users :
        \/ \E todo \in conf.programs : Start(p, todo)
        \/ Step(p) \/ Serve(p) \/ ServerDies(p) \/ Kill(p)
  BY DEF Next
<1>2. p \in Proc
  BY ConfTyped
<1>3. CASE \E todo \in conf.programs : Start(p, todo)
  <2>1. PICK todo \in conf.programs : Start(p, todo)
    BY <1>3
  <2>2. Proceeds(p)
    BY <1>2, <2>1, StartSound
  <2>3. UNCHANGED env
    BY <2>1 DEF Start
  <2> QED
    BY <1>2, <2>2, <2>3
<1>4. CASE Serve(p)
  BY <1>4 DEF Serve
<1>5. CASE ServerDies(p)
  BY <1>5 DEF ServerDies
<1>6. CASE Kill(p)
  BY <1>2, <1>6, DiesSound DEF Kill
<1>7. CASE Step(p)
  <2>1. CASE JobsFetch(p)
    <3>1. Proceeds(p)
      BY <1>2, <2>1, JobsFetchSound
    <3>2. UNCHANGED env
      BY <2>1 DEF JobsFetch
    <3> QED
      BY <1>2, <3>1, <3>2
  <2>2. CASE NextRequest(p)
    <3>1. Proceeds(p)
      BY <1>2, <2>2, NextRequestSound
    <3>2. UNCHANGED env
      BY <2>2 DEF NextRequest
    <3> QED
      BY <1>2, <3>1, <3>2
  <2>3. CASE TryFetch(p)
    <3>1. Proceeds(p)
      BY <1>2, <2>3, TryFetchSound
    <3>2. UNCHANGED env
      BY <2>3 DEF TryFetch
    <3> QED
      BY <1>2, <3>1, <3>2
  <2>4. CASE Creat(p)
    <3>1. Proceeds(p)
      BY <1>2, <2>4, CreatSound
    <3>2. UNCHANGED env
      BY <2>4 DEF Creat
    <3> QED
      BY <1>2, <3>1, <3>2
  <2>5. CASE Temporary(p)
    <3>1. Proceeds(p)
      BY <1>2, <2>5, TemporarySound
    <3>2. UNCHANGED env
      BY <2>5 DEF Temporary
    <3> QED
      BY <1>2, <3>1, <3>2
  <2>6. CASE CloseFile(p)
    <3>1. Proceeds(p)
      BY <1>2, <2>6, CloseFileSound
    <3>2. UNCHANGED env
      BY <2>6 DEF CloseFile
    <3> QED
      BY <1>2, <3>1, <3>2
  <2>7. CASE CompareSize(p)
    <3>1. Proceeds(p)
      BY <1>2, <2>7, CompareSizeSound
    <3>2. UNCHANGED env
      BY <2>7 DEF CompareSize
    <3> QED
      BY <1>2, <3>1, <3>2
  <2>8. CASE CompareSum(p)
    <3>1. Proceeds(p)
      BY <1>2, <2>8, CompareSumSound
    <3>2. UNCHANGED env
      BY <2>8 DEF CompareSum
    <3> QED
      BY <1>2, <3>1, <3>2
  <2>9. CASE CreateSymlink(p)
    <3>1. Proceeds(p)
      BY <1>2, <2>9, CreateSymlinkSound
    <3>2. UNCHANGED env
      BY <2>9 DEF CreateSymlink
    <3> QED
      BY <1>2, <3>1, <3>2
  <2>10. CASE CleanUp(p)
    <3>1. Proceeds(p)
      BY <1>2, <2>10, CleanUpSound
    <3>2. UNCHANGED env
      BY <2>10 DEF CleanUp
    <3> QED
      BY <1>2, <3>1, <3>2
  <2>11. CASE StartSsh(p)
    <3>1. Proceeds(p)
      BY <1>2, <2>11, StartSshSound
    <3>2. UNCHANGED env
      BY <2>11 DEF StartSsh
    <3> QED
      BY <1>2, <3>1, <3>2
  <2>12. CASE Answer(p)
    <3>1. Proceeds(p)
      BY <1>2, <2>12, AnswerSound
    <3>2. UNCHANGED env
      BY <2>12 DEF Answer
    <3> QED
      BY <1>2, <3>1, <3>2
  <2>13. CASE AnswerLate(p)
    <3>1. Proceeds(p)
      BY <1>2, <2>13, AnswerLateSound
    <3>2. UNCHANGED env
      BY <2>13 DEF AnswerLate
    <3> QED
      BY <1>2, <3>1, <3>2
  <2>14. CASE Resolve(p)
    <3>1. Proceeds(p)
      BY <1>2, <2>14, ResolveSound
    <3>2. UNCHANGED env
      BY <2>14 DEF Resolve
    <3> QED
      BY <1>2, <3>1, <3>2
  <2>15. CASE FetchXGet(p)
    <3>1. Proceeds(p)
      BY <1>2, <2>15, FetchXGetSound
    <3>2. UNCHANGED env
      BY <2>15 DEF FetchXGet
    <3> QED
      BY <1>2, <3>1, <3>2
  <2>16. CASE Read(p)
    <3>1. Proceeds(p)
      BY <1>2, <2>16, ReadSound
    <3>2. UNCHANGED env
      BY <2>16 DEF Read
    <3> QED
      BY <1>2, <3>1, <3>2
  <2>17. CASE ReadLate(p)
    <3>1. Proceeds(p)
      BY <1>2, <2>17, ReadLateSound
    <3>2. UNCHANGED env
      BY <2>17 DEF ReadLate
    <3> QED
      BY <1>2, <3>1, <3>2
  <2>18. CASE ReadAll(p)
    <3>1. Proceeds(p)
      BY <1>2, <2>18, ReadAllSound
    <3>2. UNCHANGED env
      BY <2>18 DEF ReadAll
    <3> QED
      BY <1>2, <3>1, <3>2
  <2>19. CASE Exit(p)
    <3>1. Proceeds(p)
      BY <1>2, <2>19, DiesSound DEF Exit
    <3>2. UNCHANGED env
      BY <2>19 DEF Exit
    <3> QED
      BY <1>2, <3>1, <3>2
  <2> QED
    BY <1>7, <2>1, <2>2, <2>3, <2>4, <2>5, <2>6, <2>7, <2>8, <2>9, <2>10, <2>11, <2>12,
       <2>13, <2>14, <2>15, <2>16, <2>17, <2>18, <2>19 DEF Step
<1> QED
  BY <1>1, <1>3, <1>4, <1>5, <1>6, <1>7

LEMMA SoundKept ==
  ASSUME TypeOK, AllSound, Next
  PROVE  CallType' /\ AllSound' /\ ConfType'
<1>1. conf' = conf /\ zone' = zone
  BY NextProceeds DEF env
<1>2. ConfType'
  BY <1>1 DEF TypeOK, ConfType
<1>3. \A q \in Proc : call[q] \in Commands /\ Sound(call[q])
  BY CommandSound
<1>4. CallType' /\ \A q \in Proc : Sound(call'[q])
  <2>1. CASE UNCHANGED call
    BY <1>3, <2>1 DEF TypeOK, CallType
  <2>2. ASSUME NEW p \in Proc, Proceeds(p)
        PROVE  CallType' /\ \A q \in Proc : Sound(call'[q])
    <3>1. PICK n \in Commands : Goes(p, n) /\ Sound(n)
      BY <2>2 DEF Proceeds
    <3>2. call \in [Proc -> Commands] /\ call' = [call EXCEPT ![p] = n]
      BY <3>1 DEF Goes, TypeOK, CallType
    <3> QED
      BY <1>3, <3>1, <3>2 DEF CallType
  <2> QED
    BY <2>1, <2>2, NextProceeds
<1>5. AllSensible'
  BY <1>1, <1>4 DEF AllSensible, Sound, Sensible
<1>6. AllWalked'
  BY <1>1, <1>4 DEF AllWalked, Sound, Walked, Reached
<1> QED
  BY <1>2, <1>4, <1>5, <1>6 DEF AllSound

------------------------------------------------------------------------------
(* The session of a command                                                *)

Acts(p) ==
    \/ \E todo \in conf.programs : Start(p, todo)
    \/ Step(p) \/ Serve(p) \/ ServerDies(p) \/ Kill(p)
Talks(p) == \E n, s : Goes(p, n) /\ Session(p, s) /\ s \in Sessions /\ InStep(n, s)

LEMMA SessionTyped ==
  ASSUME TypeOK, NEW p \in Proc
  PROVE  /\ ssh[p] \in Sessions
         /\ ssh[p].asked \in Seq(Request) /\ ssh[p].chan \in Seq(Blocks)
         /\ UNCHANGED ssh => Session(p, ssh[p])
         /\ UNCHANGED call => Goes(p, call[p])
<1>1. ssh \in [Proc -> Sessions] /\ call \in [Proc -> Commands]
  BY DEF TypeOK, SshType, CallType
<1>2. ssh[p] \in Sessions
  BY <1>1
<1> QED
  BY <1>1, <1>2 DEF Sessions, Session, Goes

\* Who does not talk leaves an empty session behind.
LEMMA Silent ==
  ASSUME TypeOK, AllInStep, NEW p \in Proc, UNCHANGED ssh, NEW n, Goes(p, n),
         call[p].pc \notin {"answer", "read"}, n.pc \notin {"answer", "read"}
  PROVE  Talks(p)
<1>1. Session(p, ssh[p]) /\ ssh[p] \in Sessions
  BY SessionTyped
<1>2. InStep(call[p], ssh[p])
  BY DEF AllInStep
<1>3. InStep(n, ssh[p])
  BY <1>2 DEF InStep
<1> QED
  BY <1>1, <1>3 DEF Talks

LEMMA NoSessionInStep ==
  NoSession \in Sessions /\ InStep(Idle, NoSession)
<1>1. NoSession \in Sessions
  BY DEF NoSession, Sessions
<1>2. InStep(Idle, NoSession)
  BY DEF InStep, NoSession, Idle
<1> QED
  BY <1>1, <1>2

LEMMA DiesTalks ==
  ASSUME TypeOK, NEW p \in Proc, Dies(p)
  PROVE  Talks(p)
BY NoSessionInStep DEF Dies, Talks

LEMMA SpoiledTyped ==
  ASSUME TypeOK, NEW s \in Sessions, NEW n, conf.scheme = "ssh"
  PROVE  Spoiled(s) \in Sessions /\ InStep(n, Spoiled(s))
<1>1. Spoiled(s) \in Sessions
  BY DEF Spoiled, Sessions
<1>2. Spoiled(s).spoiled
  BY DEF Spoiled, Sessions
<1> QED
  BY <1>1, <1>2 DEF InStep

LEMMA TakenTyped ==
  ASSUME NEW s \in Sessions, s.chan # <<>>
  PROVE  /\ Taken(s) \in Sessions /\ Taken(s).chan = Tail(s.chan)
         /\ Taken(s).asked = s.asked /\ Taken(s).spoiled = s.spoiled
<1>1. Tail(s.chan) \in Seq(Blocks)
  BY DEF Sessions
<1> QED
  BY <1>1 DEF Taken, Sessions

LEMMA StartSshTalks ==
  ASSUME TypeOK, AllSound, AllInStep, NEW p \in Proc, StartSsh(p)
  PROVE  Talks(p)
<1> DEFINE c == call[p]
           s == ssh[p]
           n == [c EXCEPT !.pc = "answer"]
           f == [c EXCEPT !.pc = "close", !.rc = "fatal"]
<1>0. c \in Commands /\ Sensible(c) /\ InStep(c, s) /\ c.pc = "ssh"
  BY CommandSound DEF StartSsh, At, AllInStep
<1>1. \/ Goes(p, f) /\ UNCHANGED ssh
      \/ Goes(p, n) /\ Session(p, NewSession(Req(p)))
      \/ Goes(p, n) /\ \E k \in 0 .. Len(s.chan) : Session(p, UsedAgain(s, Req(p), k))
  BY DEF StartSsh, Goto, Fails, Ends
<1>2. n.pc = "answer" /\ n.todo = c.todo /\ f.pc = "close"
  BY <1>0 DEF Commands
<1> HIDE DEF n, f
<1>3. Req(p) \in Request /\ Req(p) = Head(n.todo) /\ conf.scheme = "ssh"
  BY <1>0, <1>2 DEF Commands, Sensible, Fetching, Req
<1>4. CASE Goes(p, f) /\ UNCHANGED ssh
  BY <1>0, <1>2, <1>4, Silent
<1>5. CASE Goes(p, n) /\ Session(p, NewSession(Req(p)))
  <2> DEFINE t == NewSession(Req(p))
             a == <<Req(p)>>
  <2>1. a \in Seq(Request) /\ a = <<Head(n.todo)>>
    BY <1>3
  <2>2. NoSession \in Sessions /\ NoSession.chan = <<>>
    BY NoSessionInStep DEF NoSession
  <2>6. t = [NoSession EXCEPT !.open = TRUE, !.fresh = TRUE, !.alive = TRUE, !.asked = a]
    BY DEF NewSession
  <2> HIDE DEF t, a
  <2>3. t \in Sessions
    BY <2>1, <2>2, <2>6 DEF Sessions
  <2>4. t.asked = <<Head(n.todo)>> /\ t.chan = <<>>
    BY <2>1, <2>2, <2>6 DEF Sessions
  <2>5. InStep(n, t)
    BY <1>2, <1>3, <2>4 DEF InStep
  <2> QED
    BY <1>5, <2>3, <2>5 DEF Talks, t
<1>6. ASSUME NEW k \in 0 .. Len(s.chan), Goes(p, n), Session(p, UsedAgain(s, Req(p), k))
      PROVE  Talks(p)
  <2> DEFINE t == UsedAgain(s, Req(p), k)
             ch == SubSeq(s.chan, k + 1, Len(s.chan))
             a == Sent(s, Req(p))
  <2>1. /\ s \in Sessions /\ s.asked \in Seq(Request) /\ s.chan \in Seq(Blocks)
    BY SessionTyped
  <2>2. a \in Seq(Request) /\ ch \in Seq(Blocks)
    BY <1>3, <2>1 DEF Sent
  <2>3. t = [s EXCEPT !.fresh = FALSE, !.chan = ch, !.asked = a]
    BY DEF UsedAgain
  <2>4. s.chan = <<>> /\ s.asked = <<>> => ch = <<>> /\ a \in {<<>>, <<Req(p)>>}
    BY <1>6, <1>3, <2>1 DEF Sent
  <2> HIDE DEF t, ch, a
  <2>5. t \in Sessions
    BY <2>1, <2>2, <2>3 DEF Sessions
  <2>6. t.asked = a /\ t.chan = ch /\ t.spoiled = s.spoiled
    BY <2>1, <2>3 DEF Sessions
  <2>7. InStep(n, t)
    BY <1>0, <1>2, <1>3, <2>4, <2>6 DEF InStep
  <2> QED
    BY <1>6, <2>5, <2>7 DEF Talks, t
<1> QED
  BY <1>1, <1>4, <1>5, <1>6

LEMMA ServeTalks ==
  ASSUME TypeOK, AllSound, AllInStep, NEW p \in Proc, Serve(p)
  PROVE  Talks(p)
<1> DEFINE c == call[p]
           s == ssh[p]
           r == Head(s.asked)
<1>0. c \in Commands /\ InStep(c, s) /\ s.alive /\ s.asked # <<>> /\ UNCHANGED call
  BY CommandSound DEF Serve, AllInStep
<1>1. s \in Sessions /\ s.asked \in Seq(Request) /\ s.chan \in Seq(Blocks) /\ Goes(p, c)
  BY <1>0, SessionTyped
<1>2. r \in Request /\ SizeOf[r] \in Nat /\ SizeOf[r] > 0
  BY <1>0, <1>1, FetchAssumption
<1>3. PICK out : Session(p, Replied(s, out)) /\
        \/ out \in {<<Line(r, "ko", 0)>>, <<Line(r, "ok", 0)>>}
        \/ \E d \in Served(r) : out = <<Line(r, "ok", Len(d))>> \o d
        \/ out = <<Line(r, "ok", SizeOf[r])>> \o Tail(Catalogue(r))
  BY DEF Serve
<1>4. out \in Seq(Blocks) /\ IsReply(out, r)
  <2>1. ASSUME NEW kind \in {"ok", "ko"}, NEW d \in Seq(Blocks), NEW z \in Nat, Len(d) <= z,
               kind = "ko" => d = <<>>, \A i \in 1 .. Len(d) : d[i].of = r,
               out = <<Line(r, kind, z)>> \o d
        PROVE  out \in Seq(Blocks) /\ IsReply(out, r)
    <3> DEFINE l == Line(r, kind, z)
    <3>1. l \in Blocks /\ l.of = r /\ l.kind = kind /\ l.place = z
      BY <1>2, <2>1 DEF Line, Block, Blocks
    <3> HIDE DEF l
    <3>2. /\ out \in Seq(Blocks) /\ Len(out) = Len(d) + 1 /\ Head(out) = l
          /\ out[1] = l /\ \A i \in 2 .. Len(out) : out[i] = d[i - 1]
      BY <2>1, <3>1 DEF l
    <3>3. \A i \in 1 .. Len(out) : out[i].of = r
      <4> TAKE i \in 1 .. Len(out)
      <4>1. CASE i = 1
        BY <3>1, <3>2, <4>1
      <4>2. CASE i # 1
        <5>1. i \in 2 .. Len(out) /\ i - 1 \in 1 .. Len(d)
          BY <3>2, <4>2
        <5> QED
          BY <5>1, <2>1, <3>2
      <4> QED
        BY <4>1, <4>2
    <3>4. out # <<>> /\ Len(out) - 1 <= l.place /\ (l.kind # "ok" => Len(out) = 1)
      BY <2>1, <3>1, <3>2
    <3> QED
      BY <3>2, <3>3, <3>4 DEF IsReply
  <2>2. \A d \in Served(r) : d \in Seq(Blocks) /\ \A i \in 1 .. Len(d) : d[i].of = r
    <3>1. \A d \in Served(r) : d \in Seq(Blocks)
      BY <1>2, ServedTyped
    <3>2. ASSUME NEW kind
          PROVE  /\ Len(Content(r, kind)) = SizeOf[r]
                 /\ \A i \in 1 .. SizeOf[r] : Content(r, kind)[i].of = r
      BY <1>2 DEF Content, Block
    <3>3. ASSUME NEW d, d = Append(Catalogue(r), Block(r, "other", SizeOf[r] + 1))
          PROVE  \A i \in 1 .. Len(d) : d[i].of = r
      <4>1. Catalogue(r) \in Seq(Blocks) /\ Block(r, "other", SizeOf[r] + 1) \in Blocks
        <5>1. Catalogue(r) \in Seq(Blocks)
          BY <1>2, ServedTyped
        <5>2. Block(r, "other", SizeOf[r] + 1) \in Blocks
          BY <1>2 DEF Block, Blocks
        <5> QED
          BY <5>1, <5>2
      <4>2. Block(r, "other", SizeOf[r] + 1).of = r
        BY DEF Block
      <4> DEFINE b == Block(r, "other", SizeOf[r] + 1)
                 e == Catalogue(r)
      <4>3. Len(e) = SizeOf[r] /\ \A i \in 1 .. SizeOf[r] : e[i].of = r
        BY <3>2 DEF Catalogue
      <4> HIDE DEF b, e
      <4>4. \A i \in 1 .. Len(d) : d[i] = IF i <= Len(e) THEN e[i] ELSE b
        BY <3>3, <4>1 DEF b, e
      <4>5. Len(d) = Len(e) + 1
        BY <3>3, <4>1 DEF b, e
      <4> QED
        BY <1>2, <4>2, <4>3, <4>4, <4>5 DEF b
    <3>4. ASSUME NEW d, d \in {Content(r, "good"), Content(r, "other")}
          PROVE  \A i \in 1 .. Len(d) : d[i].of = r
      <4>1. PICK kind : d = Content(r, kind)
        BY <3>4
      <4> QED
        BY <4>1, <3>2
    <3>5. ASSUME NEW d \in Served(r)
          PROVE  \A i \in 1 .. Len(d) : d[i].of = r
      <4>1. \/ d \in {Content(r, "good"), Content(r, "other")}
            \/ d = Append(Catalogue(r), Block(r, "other", SizeOf[r] + 1))
        BY <3>5 DEF Served, Catalogue
      <4> QED
        BY <4>1, <3>3, <3>4
    <3> QED
      BY <3>1, <3>5
  <2>3. CASE out \in {<<Line(r, "ko", 0)>>, <<Line(r, "ok", 0)>>}
    <3>1. PICK kind \in {"ok", "ko"} : out = <<Line(r, kind, 0)>>
      BY <2>3
    <3> DEFINE d == <<>>
               zero == 0
    <3>2. /\ d \in Seq(Blocks) /\ Len(d) <= zero /\ zero \in Nat
          /\ \A i \in 1 .. Len(d) : d[i].of = r
      OBVIOUS
    <3>3. out = <<Line(r, kind, zero)>> \o d
      BY <3>1
    <3> HIDE DEF d, zero
    <3> QED
      <4>1. kind = "ko" => d = <<>>
        BY DEF d
      <4> QED
        BY <2>1, <3>2, <3>3, <4>1
  <2>4. ASSUME NEW d \in Served(r), out = <<Line(r, "ok", Len(d))>> \o d
        PROVE  out \in Seq(Blocks) /\ IsReply(out, r)
    <3>1. d \in Seq(Blocks) /\ Len(d) \in Nat /\ Len(d) <= Len(d)
      BY <2>2
    <3>2. \A i \in 1 .. Len(d) : d[i].of = r
      BY <2>2
    <3> QED
      BY <2>1, <2>4, <3>1, <3>2
  <2>5. CASE out = <<Line(r, "ok", SizeOf[r])>> \o Tail(Catalogue(r))
    <3> DEFINE e == Catalogue(r)
               d == Tail(e)
    <3>1. e \in Served(r) /\ Len(e) = SizeOf[r]
      BY <1>2, ServedTyped DEF Served
    <3> HIDE DEF e
    <3>2. e \in Seq(Blocks) /\ e # <<>> /\ \A i \in 1 .. Len(e) : e[i].of = r
      BY <3>1, <1>2, <2>2
    <3>3. d \in Seq(Blocks) /\ Len(d) = Len(e) - 1 /\ \A i \in 1 .. Len(d) : d[i] = e[i + 1]
      BY <3>2
    <3> HIDE DEF d
    <3>4. \A i \in 1 .. Len(d) : d[i].of = r
      BY <3>2, <3>3
    <3>5. Len(d) <= SizeOf[r]
      BY <1>2, <3>1, <3>3
    <3>6. out = <<Line(r, "ok", SizeOf[r])>> \o d
      BY <2>5 DEF d, e
    <3> QED
      BY <1>2, <2>1, <3>3, <3>4, <3>5, <3>6
  <2> QED
    BY <1>3, <2>3, <2>4, <2>5
<1> DEFINE t == Replied(s, out)
           a == Tail(s.asked)
           ch == s.chan \o out
<1>5. t = [s EXCEPT !.asked = a, !.chan = ch]
  BY DEF Replied
<1>6. a \in Seq(Request) /\ ch \in Seq(Blocks)
  BY <1>0, <1>1, <1>4
<1>7. /\ s.chan = <<>> => ch = out
      /\ \A x : s.asked = <<x>> => a = <<>> /\ r = x
  <2>1. s.chan = <<>> => ch = out
    BY <1>1, <1>4
  <2>2. ASSUME NEW x, s.asked = <<x>>
        PROVE  a = <<>> /\ r = x
    BY <2>2
  <2> QED
    BY <2>1, <2>2
<1> HIDE DEF t, a, ch
<1>8. t \in Sessions /\ t.asked = a /\ t.chan = ch /\ t.spoiled = s.spoiled
  BY <1>1, <1>5, <1>6 DEF Sessions
<1>9. conf.scheme = "ssh"
  BY <1>0 DEF InStep, NoSession
<1> HIDE DEF r
<1>10. InStep(c, t)
  <2>1. CASE s.spoiled
    BY <1>8, <1>9, <2>1 DEF InStep
  <2>2. CASE ~s.spoiled
    <3>1. c.pc = "answer" /\ s.asked = <<Head(c.todo)>> /\ s.chan = <<>>
      BY <1>0, <2>2 DEF InStep
    <3>2. t.asked = <<>> /\ IsReply(t.chan, Head(c.todo))
      BY <3>1, <1>4, <1>7, <1>8
    <3> QED
      BY <1>9, <3>1, <3>2 DEF InStep
  <2> QED
    BY <2>1, <2>2
<1> QED
  BY <1>1, <1>3, <1>8, <1>10 DEF Talks, t

LEMMA AnswerTalks ==
  ASSUME TypeOK, AllSound, AllInStep, NEW p \in Proc, Answer(p)
  PROVE  Talks(p)
<1> DEFINE c == call[p]
           s == ssh[p]
           m == Head(s.chan)
           t == Taken(s)
           f == [c EXCEPT !.pc = "close", !.rc = "fatal"]
           u == [c EXCEPT !.pc = "close", !.rc = "uptodate"]
           z == m.place
           n == Announced(c, z)
<1>0. c \in Commands /\ Sensible(c) /\ InStep(c, s) /\ c.pc = "answer" /\ s.chan # <<>>
  BY CommandSound DEF Answer, At, AllInStep
<1>1. /\ \/ m.kind # "ok" /\ Goes(p, f)
         \/ m.kind = "ok" /\ m.place = 0 /\ Goes(p, u)
         \/ m.kind = "ok" /\ m.place # 0 /\ Goes(p, n)
      /\ Session(p, t)
  BY DEF Answer, Fails, Ends
<1>2. s \in Sessions /\ s.chan \in Seq(Blocks) /\ m \in Blocks /\ m.place \in Nat
  <2>1. s \in Sessions /\ s.chan \in Seq(Blocks)
    BY SessionTyped
  <2>2. m \in Blocks
    BY <1>0, <2>1
  <2> QED
    BY <2>1, <2>2 DEF Blocks
<1>3. /\ t \in Sessions /\ t.chan = Tail(s.chan) /\ t.asked = s.asked
      /\ t.spoiled = s.spoiled
  BY <1>0, <1>2, TakenTyped
<1>4. f.pc = "close" /\ u.pc = "close"
  BY <1>0 DEF Commands
<1>5. n.pc = "read" /\ n.todo = c.todo /\ n.sz = m.place /\ n.off = c.off
  BY <1>0 DEF Commands, Announced
<1> HIDE DEF t, f, u, n
<1>6. c.off = 0 /\ conf.scheme = "ssh"
  BY <1>0 DEF Sensible
<1>7. Len(Tail(s.chan)) = Len(s.chan) - 1 /\ Len(s.chan) \in Nat /\ Len(s.chan) >= 1
  BY <1>0, <1>2
<1>8. ~s.spoiled => s.asked = <<>> /\ IsReply(s.chan, Head(c.todo))
  BY <1>0 DEF InStep
<1>9. CASE m.kind # "ok" /\ Goes(p, f)
  <2>1. ~s.spoiled => Tail(s.chan) = <<>>
    <3>1. ~s.spoiled => Len(s.chan) = 1
      BY <1>8, <1>9 DEF IsReply
    <3>2. ASSUME Len(s.chan) = 1 PROVE Tail(s.chan) = <<>>
      <4> DEFINE e == Tail(s.chan)
      <4>1. e \in Seq(Blocks) /\ Len(e) = 0
        BY <1>0, <1>2, <1>7, <3>2
      <4> HIDE DEF e
      <4>2. e = <<>>
        BY <4>1
      <4> QED
        BY <4>2 DEF e
    <3> QED
      BY <3>1, <3>2
  <2>2. InStep(f, t)
    BY <1>3, <1>4, <1>6, <1>8, <2>1 DEF InStep
  <2> QED
    BY <1>1, <1>3, <1>9, <2>2 DEF Talks
<1>10. CASE m.kind = "ok" /\ m.place = 0 /\ Goes(p, u)
  <2>1. ~s.spoiled => Tail(s.chan) = <<>>
    BY <1>2, <1>7, <1>8, <1>10 DEF IsReply
  <2>2. InStep(u, t)
    BY <1>3, <1>4, <1>6, <1>8, <2>1 DEF InStep
  <2> QED
    BY <1>1, <1>3, <1>10, <2>2 DEF Talks
<1>11. CASE m.kind = "ok" /\ Goes(p, n)
  <2>1. ~s.spoiled => /\ \A i \in 1 .. Len(Tail(s.chan)) : Tail(s.chan)[i].of = Head(c.todo)
                      /\ Len(Tail(s.chan)) <= m.place
    BY <1>2, <1>7, <1>8, <1>11 DEF IsReply
  <2>2. n.sz - n.off = m.place
    BY <1>2, <1>5, <1>6
  <2>3. InStep(n, t)
    BY <1>3, <1>5, <1>6, <1>8, <2>1, <2>2 DEF InStep
  <2> QED
    BY <1>1, <1>3, <1>11, <2>3 DEF Talks
<1> QED
  BY <1>1, <1>9, <1>10, <1>11

LEMMA AnswerLateTalks ==
  ASSUME TypeOK, AllSound, AllInStep, NEW p \in Proc, AnswerLate(p)
  PROVE  Talks(p)
<1> DEFINE c == call[p]
           f == [c EXCEPT !.pc = "close", !.rc = "fatal"]
<1>1. Dies(p) \/ (Goes(p, f) /\ Session(p, Spoiled(ssh[p])))
  BY DEF AnswerLate, Fails, Ends
<1>2. c.pc = "answer" /\ Sensible(c)
  BY CommandSound DEF AnswerLate, At
<1>3. conf.scheme = "ssh"
  BY <1>2 DEF Sensible
<1> QED
  BY <1>1, <1>3, DiesTalks, SessionTyped, SpoiledTyped DEF Talks

LEMMA ServerDiesTalks ==
  ASSUME TypeOK, AllSound, AllInStep, NEW p \in Proc, ServerDies(p)
  PROVE  Talks(p)
<1> DEFINE c == call[p]
           s == ssh[p]
           t == Lost(s)
<1>0. InStep(c, s) /\ s.alive /\ Session(p, t) /\ UNCHANGED call
  BY DEF ServerDies, AllInStep
<1>1. s \in Sessions /\ Goes(p, c) /\ s.asked \in Seq(Request)
  BY <1>0, SessionTyped
<1>2. t \in Sessions /\ t.asked = <<>> /\ t.chan = s.chan /\ t.spoiled = s.spoiled
  <2>1. <<>> \in Seq(Request)
    OBVIOUS
  <2> QED
    BY <1>1, <2>1 DEF Lost, Sessions
<1>3. conf.scheme = "ssh"
  BY <1>0 DEF InStep, NoSession
<1> HIDE DEF t
<1>4. InStep(c, t)
  BY <1>0, <1>2, <1>3 DEF InStep
<1> QED
  BY <1>0, <1>1, <1>2, <1>4 DEF Talks, t

LEMMA ReadTalks ==
  ASSUME TypeOK, AllSound, AllInStep, NEW p \in Proc, Read(p)
  PROVE  Talks(p)
<1> DEFINE c == call[p]
           s == ssh[p]
           n == Written(c)
           f == [c EXCEPT !.pc = "close", !.rc = "fatal"]
<1>0. /\ c \in Commands /\ Sensible(c) /\ InStep(c, s) /\ c.pc = "read"
      /\ c.off < c.sz
  BY CommandSound DEF Read, At, AllInStep
<1>1. \/ /\ conf.scheme = "ssh" /\ s.chan # <<>>
         /\ \/ Goes(p, n) /\ Session(p, Taken(s))
            \/ Goes(p, f) /\ Session(p, Spoiled(Taken(s)))
      \/ conf.scheme # "ssh" /\ UNCHANGED ssh /\ (Goes(p, n) \/ Goes(p, f))
  BY DEF Read, Fails, Ends
<1>2. /\ n.pc = "read" /\ n.todo = c.todo /\ n.sz = c.sz /\ n.off = c.off + 1
      /\ f.pc = "close" /\ c.off \in Nat /\ c.sz \in Int
  BY <1>0 DEF Commands, Written
<1> HIDE DEF n, f
<1>3. s \in Sessions /\ s.chan \in Seq(Blocks) /\ (UNCHANGED ssh => Session(p, s))
  BY SessionTyped
<1>4. CASE conf.scheme # "ssh" /\ UNCHANGED ssh /\ (Goes(p, n) \/ Goes(p, f))
  <2>1. s = NoSession
    BY <1>0, <1>4 DEF InStep
  <2>2. s.asked = <<>> /\ s.chan = <<>>
    BY <2>1 DEF NoSession
  <2>3. InStep(n, s) /\ InStep(f, s)
    BY <1>2, <1>4, <2>1, <2>2 DEF InStep
  <2> QED
    BY <1>3, <1>4, <2>3 DEF Talks
<1>5. ASSUME conf.scheme = "ssh", s.chan # <<>>, Goes(p, n), Session(p, Taken(s))
      PROVE  Talks(p)
  <2> DEFINE t == Taken(s)
  <2>1. /\ t \in Sessions /\ t.chan = Tail(s.chan) /\ t.asked = s.asked
        /\ t.spoiled = s.spoiled
    BY <1>3, <1>5, TakenTyped
  <2>2. /\ Len(t.chan) = Len(s.chan) - 1 /\ Len(s.chan) \in Nat
        /\ \A i \in 1 .. Len(t.chan) : t.chan[i] = s.chan[i + 1]
    BY <1>3, <1>5, <2>1
  <2> HIDE DEF t
  <2>3. ~s.spoiled => /\ s.asked = <<>> /\ Len(s.chan) <= c.sz - c.off
                      /\ \A i \in 1 .. Len(s.chan) : s.chan[i].of = Head(c.todo)
    BY <1>0, <1>5 DEF InStep
  <2>4. ~s.spoiled => /\ Len(t.chan) <= n.sz - n.off
                      /\ \A i \in 1 .. Len(t.chan) : t.chan[i].of = Head(n.todo)
    <3>1. ~s.spoiled => Len(t.chan) <= n.sz - n.off
      <4>1. ~s.spoiled => Len(s.chan) <= c.sz - c.off
        BY <2>3
      <4>2. Len(t.chan) = Len(s.chan) - 1 /\ Len(s.chan) \in Nat
        BY <2>2
      <4>3. n.sz - n.off = (c.sz - c.off) - 1 /\ c.sz - c.off \in Int
        BY <1>2
      <4> HIDE DEF c, s
      <4> QED
        BY <4>1, <4>2, <4>3
    <3>2. ASSUME ~s.spoiled, NEW i \in 1 .. Len(t.chan)
          PROVE  t.chan[i].of = Head(n.todo)
      <4>1. i + 1 \in 1 .. Len(s.chan) /\ t.chan[i] = s.chan[i + 1]
        <5>1. Len(t.chan) = Len(s.chan) - 1 /\ Len(s.chan) \in Nat
          BY <2>2
        <5>2. t.chan[i] = s.chan[i + 1]
          BY <2>2
        <5> QED
          BY <5>1, <5>2
      <4> QED
        BY <4>1, <1>2, <2>3, <3>2
    <3> QED
      BY <3>1, <3>2
  <2>5. InStep(n, t)
    BY <1>2, <1>5, <2>1, <2>3, <2>4 DEF InStep
  <2> QED
    BY <1>5, <2>1, <2>5 DEF Talks, t
<1>6. ASSUME conf.scheme = "ssh", s.chan # <<>>, Goes(p, f), Session(p, Spoiled(Taken(s)))
      PROVE  Talks(p)
  <2>1. Taken(s) \in Sessions
    BY <1>3, <1>6, TakenTyped
  <2>2. Spoiled(Taken(s)) \in Sessions /\ InStep(f, Spoiled(Taken(s)))
    BY <1>6, <2>1, SpoiledTyped
  <2> QED
    BY <1>6, <2>2 DEF Talks
<1> QED
  BY <1>1, <1>4, <1>5, <1>6

LEMMA ReadEnds ==
  ASSUME TypeOK, AllSound, AllInStep, NEW p \in Proc, ReadLate(p) \/ ReadAll(p)
  PROVE  Talks(p)
<1> DEFINE c == call[p]
           s == ssh[p]
           f == [c EXCEPT !.pc = "close", !.rc = "fatal"]
           g == [c EXCEPT !.pc = "close", !.rc = "ok"]
<1>0. c \in Commands /\ Sensible(c) /\ InStep(c, s) /\ c.pc = "read"
  BY CommandSound DEF ReadLate, ReadAll, At, AllInStep
<1>1. \/ conf.scheme = "ssh" /\ Session(p, Spoiled(s)) /\ Goes(p, f)
      \/ conf.scheme # "ssh" /\ UNCHANGED ssh /\ Goes(p, f)
      \/ c.off >= c.sz /\ UNCHANGED ssh /\ Goes(p, g)
  BY DEF ReadLate, ReadAll, Fails, Ends
<1>2. f.pc = "close" /\ g.pc = "close" /\ c.off \in Nat /\ c.sz \in Int
  BY <1>0 DEF Commands
<1> HIDE DEF f, g
<1>3. s \in Sessions /\ s.chan \in Seq(Blocks) /\ (UNCHANGED ssh => Session(p, s))
  BY SessionTyped
<1>4. CASE conf.scheme = "ssh" /\ Session(p, Spoiled(s)) /\ Goes(p, f)
  BY <1>3, <1>4, SpoiledTyped DEF Talks
<1>5. CASE conf.scheme # "ssh" /\ UNCHANGED ssh /\ (Goes(p, f) \/ Goes(p, g))
  <2>1. s = NoSession
    BY <1>0, <1>5 DEF InStep
  <2>2. s.asked = <<>> /\ s.chan = <<>>
    BY <2>1 DEF NoSession
  <2>3. InStep(f, s) /\ InStep(g, s)
    BY <1>2, <1>5, <2>1, <2>2 DEF InStep
  <2> QED
    BY <1>3, <1>5, <2>3 DEF Talks
<1>6. CASE conf.scheme = "ssh" /\ c.off >= c.sz /\ UNCHANGED ssh /\ Goes(p, g)
  <2>1. ~s.spoiled => s.asked = <<>> /\ Len(s.chan) <= c.sz - c.off
    BY <1>0, <1>6 DEF InStep
  <2>2. Len(s.chan) \in Nat /\ (Len(s.chan) = 0 => s.chan = <<>>)
    BY <1>3
  <2>3. c.sz - c.off <= 0
    BY <1>2, <1>6
  <2>4. ~s.spoiled => s.chan = <<>>
    BY <1>2, <2>1, <2>2, <2>3
  <2>5. InStep(g, s)
    BY <1>2, <1>6, <2>1, <2>4 DEF InStep
  <2> QED
    BY <1>3, <1>6, <2>5 DEF Talks
<1> QED
  BY <1>1, <1>4, <1>5, <1>6

LEMMA FetchXGetTalks ==
  ASSUME TypeOK, AllSound, AllInStep, NEW p \in Proc, FetchXGet(p)
  PROVE  Talks(p)
<1> DEFINE c == call[p]
           s == ssh[p]
<1>0. Sensible(c) /\ InStep(c, s) /\ c.pc = "xget" /\ UNCHANGED ssh
  BY CommandSound DEF FetchXGet, At, AllInStep
<1>1. PICK n \in Commands : Goes(p, n)
  BY FetchXGetSound DEF Proceeds
<1>2. conf.scheme # "ssh"
  BY <1>0 DEF Sensible
<1>3. s = NoSession
  BY <1>0, <1>2 DEF InStep
<1>4. s.asked = <<>> /\ s.chan = <<>>
  BY <1>3 DEF NoSession
<1>5. InStep(n, s)
  BY <1>2, <1>3, <1>4 DEF InStep
<1> QED
  BY <1>0, <1>1, <1>5, SessionTyped DEF Talks

\* Who is neither at the answer nor reads, and goes on elsewhere.
LEMMA ElsewhereTalks ==
  ASSUME TypeOK, AllSound, AllInStep, NEW p \in Proc, UNCHANGED ssh,
         call[p].pc \notin {"answer", "read"}, Proceeds(p), call'[p].pc \notin {"answer", "read"}
  PROVE  Talks(p)
<1>1. PICK n \in Commands : Goes(p, n)
  BY DEF Proceeds
<1>2. call'[p] = n
  BY <1>1 DEF Goes, TypeOK, CallType
<1> QED
  BY <1>1, <1>2, Silent

LEMMA PlaceOf ==
  ASSUME TypeOK, NEW p \in Proc, NEW n, Goes(p, n)
  PROVE  call'[p] = n
BY DEF TypeOK, CallType, Goes

LEMMA BeginPlace ==
  ASSUME TypeOK, NEW p \in Proc, NEW i, Begin(p, i)
  PROVE  call'[p].pc \in {"ssh", "xget", "mirrors"}
<1> DEFINE c == call[p]
           pc == IF conf.scheme = "ssh" THEN "ssh"
                 ELSE IF conf.mirror_type = "NOMIRROR" THEN "xget" ELSE "mirrors"
           n == [c EXCEPT !.pc = pc, !.fd = i, !.retry = conf.FETCH_RETRY]
<1>1. c \in Commands
  BY DEF TypeOK, CallType
<1>2. Goes(p, n)
  BY DEF Begin
<1>3. pc \in {"ssh", "xget", "mirrors"}
  OBVIOUS
<1> HIDE DEF pc
<1>4. n.pc = pc
  BY <1>1 DEF Commands
<1> QED
  BY <1>2, <1>3, <1>4, PlaceOf

LEMMA StepTalks ==
  ASSUME TypeOK, AllSound, AllInStep, NEW p \in Proc, Acts(p)
  PROVE  Talks(p)
<1> DEFINE Quiet == /\ UNCHANGED ssh /\ call[p].pc \notin {"answer", "read"} /\ Proceeds(p)
                    /\ call'[p].pc \notin {"answer", "read"}
<1>0. call[p] \in Commands
  BY CommandSound
<1>1. ASSUME NEW todo \in conf.programs, Start(p, todo) PROVE Quiet
  <2>1. Proceeds(p)
    BY <1>1, StartSound
  <2>4. At(p) = "idle" /\ UNCHANGED <<env, ssh, cache, data, faults>>
    BY <1>1 DEF Start
  <2>2. UNCHANGED ssh /\ call[p].pc = "idle"
    BY <2>4 DEF At
  <2>3. call'[p].pc \in {"size", "next"}
    <3> DEFINE c == call[p]
               pc == IF todo \in Seq(Package) THEN "size" ELSE "next"
               n == [c EXCEPT !.pc = pc, !.todo = todo]
    <3>1. Goes(p, n)
      BY <1>1 DEF Start
    <3>2. pc \in {"size", "next"}
      OBVIOUS
    <3> HIDE DEF pc
    <3>3. n.pc = pc
      BY <1>0 DEF Commands
    <3> QED
      BY <3>1, <3>2, <3>3, PlaceOf
  <2> QED
    BY <2>1, <2>2, <2>3
<1>2. ASSUME JobsFetch(p) PROVE Quiet
  <2>1. Proceeds(p)
    BY <1>2, JobsFetchSound
  <2>2. UNCHANGED ssh /\ call[p].pc = "size"
    BY <1>2 DEF JobsFetch, At
  <2>3. call'[p].pc \in {"done", "next"}
    <3> DEFINE c == call[p]
               S == {[c EXCEPT !.pc = "done", !.skipped = TRUE],
                     [c EXCEPT !.pc = "done", !.rc = "fatal"],
                     [c EXCEPT !.pc = "next"]}
    <3>1. \E n \in S : Goes(p, n)
      BY <1>2 DEF JobsFetch, Goto, Ends
    <3>2. \A n \in S : n.pc \in {"done", "next"}
      BY <1>0 DEF Commands
    <3> QED
      BY <3>1, <3>2, PlaceOf
  <2> QED
    BY <2>1, <2>2, <2>3
<1>3. ASSUME NextRequest(p) PROVE Quiet
  <2>1. Proceeds(p)
    BY <1>3, NextRequestSound
  <2>2. UNCHANGED ssh /\ call[p].pc = "next"
    BY <1>3 DEF NextRequest, At
  <2>3. call'[p].pc \in {"done", "access", "temp"}
    <3> DEFINE c == call[p]
               S == {[c EXCEPT !.pc = "done", !.rc = "ok"],
                     [c EXCEPT !.pc = IF Req(p) \in Package THEN "access" ELSE "temp",
                  !.already = FALSE, !.fetched = FALSE, !.rc = "ok"]}
    <3>1. \E n \in S : Goes(p, n)
      BY <1>3 DEF NextRequest, Ends
    <3>2. \A n \in S : n.pc \in {"done", "access", "temp"}
      BY <1>0 DEF Commands
    <3> QED
      BY <3>1, <3>2, PlaceOf
  <2> QED
    BY <2>1, <2>2, <2>3
<1>4. ASSUME TryFetch(p) PROVE Quiet
  <2>1. Proceeds(p)
    BY <1>4, TryFetchSound
  <2>2. UNCHANGED ssh /\ call[p].pc = "access"
    BY <1>4 DEF TryFetch, At
  <2>3. call'[p].pc \in {"stat", "cleanup", "next", "creat"}
    <3> DEFINE c == call[p]
               S == {[c EXCEPT !.pc = "stat", !.fetched = FALSE],
                     [c EXCEPT !.pc = "cleanup", !.rc = "fatal"],
                     [c EXCEPT !.pc = "next", !.todo = Tail(@)],
                     [c EXCEPT !.pc = "creat"]}
    <3>1. \E n \in S : Goes(p, n)
      BY <1>4 DEF TryFetch, Goto, Ends
    <3>2. \A n \in S : n.pc \in {"stat", "cleanup", "next", "creat"}
      BY <1>0 DEF Commands
    <3> QED
      BY <3>1, <3>2, PlaceOf
  <2> QED
    BY <2>1, <2>2, <2>3
<1>5. ASSUME Creat(p) PROVE Quiet
  <2>1. Proceeds(p)
    BY <1>5, CreatSound
  <2>2. UNCHANGED ssh /\ call[p].pc = "creat"
    BY <1>5 DEF Creat, At
  <2>3. call'[p].pc \in {"ssh", "xget", "mirrors", "cleanup"}
    <3> DEFINE c == call[p]
               f == [c EXCEPT !.pc = "cleanup", !.rc = "fatal"]
    <3>1. Goes(p, f) \/ \E i : Begin(p, i)
      BY <1>5 DEF Creat, Ends
    <3>2. f.pc = "cleanup"
      BY <1>0 DEF Commands
    <3> QED
      BY <3>1, <3>2, PlaceOf, BeginPlace
  <2> QED
    BY <2>1, <2>2, <2>3
<1>6. ASSUME Temporary(p) PROVE Quiet
  <2>1. Proceeds(p)
    BY <1>6, TemporarySound
  <2>2. UNCHANGED ssh /\ call[p].pc = "temp"
    BY <1>6 DEF Temporary, At
  <2>3. call'[p].pc \in {"ssh", "xget", "mirrors"}
    BY <1>6, BeginPlace DEF Temporary
  <2> QED
    BY <2>1, <2>2, <2>3
<1>7. ASSUME CloseFile(p) PROVE Quiet
  <2>1. Proceeds(p)
    BY <1>7, CloseFileSound
  <2>2. UNCHANGED ssh /\ call[p].pc = "close"
    BY <1>7 DEF CloseFile, At
  <2>3. call'[p].pc \in {"stat", "cleanup", "next", "done"}
    <3>1. /\ ClosedPackage(call[p]).pc \in {"stat", "cleanup"}
          /\ ClosedDocument(call[p]).pc = "next" /\ ClosedForGood(call[p]).pc = "done"
      BY <1>0 DEF ClosedPackage, ClosedDocument, ClosedForGood, Closed, Commands
    <3>2. \/ Goes(p, ClosedPackage(call[p])) \/ Goes(p, ClosedDocument(call[p]))
          \/ Goes(p, ClosedForGood(call[p]))
      BY <1>7 DEF CloseFile
    <3> QED
      BY <3>1, <3>2, PlaceOf
  <2> QED
    BY <2>1, <2>2, <2>3
<1>8. ASSUME CompareSize(p) PROVE Quiet
  <2>1. Proceeds(p)
    BY <1>8, CompareSizeSound
  <2>2. UNCHANGED ssh /\ call[p].pc = "stat"
    BY <1>8 DEF CompareSize, At
  <2>3. call'[p].pc \in {"sum", "access", "cleanup"}
    <3> DEFINE c == call[p]
               S == {[c EXCEPT !.pc = "sum"],
                     [c EXCEPT !.pc = "access", !.already = TRUE],
                     [c EXCEPT !.pc = "cleanup", !.rc = "fatal"]}
    <3>1. \E n \in S : Goes(p, n)
      BY <1>8 DEF CompareSize, Goto, Ends, Again, Refused
    <3>2. \A n \in S : n.pc \in {"sum", "access", "cleanup"}
      BY <1>0 DEF Commands
    <3> QED
      BY <3>1, <3>2, PlaceOf
  <2> QED
    BY <2>1, <2>2, <2>3
<1>9. ASSUME CompareSum(p) PROVE Quiet
  <2>1. Proceeds(p)
    BY <1>9, CompareSumSound
  <2>2. UNCHANGED ssh /\ call[p].pc = "sum"
    BY <1>9 DEF CompareSum, At
  <2>3. call'[p].pc \in {"symlink", "access", "cleanup"}
    <3> DEFINE c == call[p]
               S == {[c EXCEPT !.pc = "symlink"],
                     [c EXCEPT !.pc = "access", !.already = TRUE],
                     [c EXCEPT !.pc = "cleanup", !.rc = "fatal"]}
    <3>1. \E n \in S : Goes(p, n)
      BY <1>9 DEF CompareSum, Goto, Ends, Again, Refused
    <3>2. \A n \in S : n.pc \in {"symlink", "access", "cleanup"}
      BY <1>0 DEF Commands
    <3> QED
      BY <3>1, <3>2, PlaceOf
  <2> QED
    BY <2>1, <2>2, <2>3
<1>10. ASSUME CreateSymlink(p) PROVE Quiet
  <2>1. Proceeds(p)
    BY <1>10, CreateSymlinkSound
  <2>2. UNCHANGED ssh /\ call[p].pc = "symlink"
    BY <1>10 DEF CreateSymlink, At
  <2>3. call'[p].pc = "next"
    BY <1>0, <1>10, PlaceOf DEF CreateSymlink, Commands
  <2> QED
    BY <2>1, <2>2, <2>3
<1>11. ASSUME CleanUp(p) PROVE Quiet
  <2>1. Proceeds(p)
    BY <1>11, CleanUpSound
  <2>2. UNCHANGED ssh /\ call[p].pc = "cleanup"
    BY <1>11 DEF CleanUp, At
  <2>3. call'[p].pc = "done"
    <3> DEFINE c == call[p]
               S == {[c EXCEPT !.pc = "done", !.rc = "fatal"]}
    <3>1. \E n \in S : Goes(p, n)
      BY <1>11 DEF CleanUp, Ends
    <3>2. \A n \in S : n.pc = "done"
      BY <1>0 DEF Commands
    <3> QED
      BY <3>1, <3>2, PlaceOf
  <2> QED
    BY <2>1, <2>2, <2>3
<1>12. CASE Resolve(p)
  <2>1. CASE Dies(p)
    BY <2>1, DiesTalks
  <2>2. CASE ~Dies(p)
    <3>1. Proceeds(p)
      BY <1>12, ResolveSound
    <3>2. UNCHANGED ssh /\ call[p].pc = "mirrors"
      BY <1>12, <2>2 DEF Resolve, At
    <3>3. \/ \E order : Goes(p, Follows(call[p], order))
          \/ Goto(p, "loops")
      BY <1>12, <2>2 DEF Resolve
    <3>4. call'[p].pc \in {"xget", "loops"}
      <4> DEFINE f == [call[p] EXCEPT !.pc = "loops"]
      <4>1. f.pc = "loops" /\ \A order : Follows(call[p], order).pc = "xget"
        BY <1>0 DEF Follows, Commands
      <4>2. Goes(p, f) \/ \E order : Goes(p, Follows(call[p], order))
        BY <3>3 DEF Goto
      <4> QED
        BY <4>1, <4>2, PlaceOf
    <3> QED
      BY <3>1, <3>2, <3>4, ElsewhereTalks
  <2> QED
    BY <2>1, <2>2
<1>13. Quiet => Talks(p)
  BY ElsewhereTalks
<1>14. CASE Exit(p) \/ Kill(p)
  BY <1>14, DiesTalks DEF Exit, Kill
<1> HIDE DEF Quiet
<1>15. CASE \E todo \in conf.programs : Start(p, todo)
  BY <1>15, <1>1, <1>13
<1> QED
  BY <1>1, <1>2, <1>3, <1>4, <1>5, <1>6, <1>7, <1>8, <1>9, <1>10, <1>11, <1>12, <1>13, <1>14, <1>15,
     StartSshTalks, ServeTalks, AnswerTalks, AnswerLateTalks, ServerDiesTalks, ReadTalks,
     ReadEnds, FetchXGetTalks DEF Step, Acts

LEMMA InStepKept ==
  ASSUME TypeOK, AllSound, AllInStep, Next
  PROVE  SshType' /\ AllInStep'
<1>1. PICK p \in Proc : Talks(p)
  BY ConfTyped, StepTalks DEF Next, Acts
<1>2. PICK n, s : Goes(p, n) /\ Session(p, s) /\ s \in Sessions /\ InStep(n, s)
  BY <1>1 DEF Talks
<1>3. /\ ssh \in [Proc -> Sessions] /\ ssh' = [ssh EXCEPT ![p] = s]
      /\ call \in [Proc -> Commands] /\ call' = [call EXCEPT ![p] = n]
  BY <1>2 DEF TypeOK, SshType, CallType, Goes, Session
<1>4. SshType'
  BY <1>2, <1>3 DEF SshType
<1>5. \A q \in Proc : InStep(call'[q], ssh'[q])
  BY <1>2, <1>3 DEF AllInStep
<1>6. conf' = conf
  BY NextProceeds DEF env
<1>7. AllInStep'
  BY <1>5, <1>6 DEF AllInStep, InStep
<1> QED
  BY <1>4, <1>7

------------------------------------------------------------------------------
(* The cache                                                               *)

Verified == FetchedIsVerified /\ Compared /\ Spared
FilesStep == FilesType' /\ Named' /\ Verified'

Whole(r) == Cached(r) /\ data[cache[r]] = Catalogue(r)
Disturbed(r) == cache'[r] # cache[r] \/ (Cached(r) /\ data'[cache[r]] # data[cache[r]])

\* p goes on in the state n: what it disturbs the others know, and it does not
\* hold as fetched; what it holds was whole.
Careful(p, n) ==
    /\ \A q \in Proc \ {p} : touched[q] \subseteq touched'[q]
    /\ \A r \in Package : Disturbed(r) =>
          /\ \A q \in Proc \ {p} : r \in touched'[q]
          /\ r \notin n.got \ touched'[p]
    /\ \A r \in n.got \ touched'[p] : Whole(r)
    /\ n.pc = "symlink" => cache' = cache /\ data' = data
    /\ n.pc = "symlink" /\ Head(n.todo) \notin touched'[p] => Whole(Head(n.todo))
    /\ n.pc \in Fetching \cup {"creat", "cleanup"} => Head(n.todo) \notin n.got \ touched'[p]

LEMMA CarefulVerified ==
  ASSUME TypeOK, AllSound, Verified, NEW p \in Proc, NEW n \in Commands, Goes(p, n), Careful(p, n)
  PROVE  Verified'
<1>1. call' \in [Proc -> Commands] /\ call'[p] = n /\ \A q \in Proc \ {p} : call'[q] = call[q]
  BY DEF TypeOK, CallType, Goes
<1>2. \A r \in Package : Whole(r) /\ ~Disturbed(r) => cache'[r] # None /\ data'[cache'[r]] = Catalogue(r)
  BY DEF Whole, Disturbed, Cached
<1>3. ASSUME NEW q \in Proc, NEW r \in call'[q].got \ touched'[q]
      PROVE  cache'[r] # None /\ data'[cache'[r]] = Catalogue(r)
  <2>1. r \in Package
    BY <1>1 DEF Commands
  <2>2. CASE q = p
    BY <1>1, <1>2, <1>3, <2>1, <2>2 DEF Careful
  <2>3. CASE q # p
    <3>1. r \in call[q].got \ touched[q]
      BY <1>1, <1>3, <2>3 DEF Careful
    <3>2. Whole(r)
      BY <3>1 DEF Verified, FetchedIsVerified, Whole
    <3>3. ~Disturbed(r)
      BY <1>3, <2>1, <2>3 DEF Careful
    <3> QED
      BY <1>2, <2>1, <3>2, <3>3
  <2> QED
    BY <2>2, <2>3
<1>4. ASSUME NEW q \in Proc, call'[q].pc = "symlink", Head(call'[q].todo) \notin touched'[q]
      PROVE  /\ cache'[Head(call'[q].todo)] # None
             /\ data'[cache'[Head(call'[q].todo)]] = Catalogue(Head(call'[q].todo))
  <2> DEFINE r == Head(call'[q].todo)
  <2>1. CASE q = p
    <3>1. n.pc = "symlink" /\ r = Head(n.todo) /\ r \notin touched'[p]
      BY <1>1, <1>4, <2>1
    <3> HIDE DEF r
    <3>2. cache' = cache /\ data' = data /\ Whole(r)
      BY <3>1 DEF Careful
    <3>3. cache'[r] # None /\ data'[cache'[r]] = Catalogue(r)
      BY <3>2 DEF Whole, Cached
    <3> QED
      BY <3>3 DEF r
  <2>2. CASE q # p
    <3>1. call[q].pc = "symlink" /\ r = Req(q) /\ r \in Package
      BY <1>1, <1>4, <2>2, CommandSound DEF Req, Sensible, Caching
    <3>2. r \notin touched[q]
      BY <1>4, <2>2 DEF Careful
    <3>3. Whole(r)
      BY <3>1, <3>2 DEF Verified, Compared, At, Whole
    <3>4. ~Disturbed(r)
      BY <1>4, <2>2, <3>1 DEF Careful
    <3> HIDE DEF r
    <3>5. cache'[r] # None /\ data'[cache'[r]] = Catalogue(r)
      BY <1>2, <3>1, <3>3, <3>4
    <3> QED
      BY <3>5 DEF r
  <2> QED
    BY <2>1, <2>2
<1>5. ASSUME NEW q \in Proc, call'[q].pc \in Fetching \cup {"creat", "cleanup"}
      PROVE  Head(call'[q].todo) \notin call'[q].got \ touched'[q]
  <2>1. CASE q = p
    BY <1>1, <1>5, <2>1 DEF Careful
  <2>2. CASE q # p
    <3>1. Head(call[q].todo) \notin call[q].got \ touched[q]
      BY <1>1, <1>5, <2>2 DEF Verified, Spared, At, Req
    <3> QED
      BY <1>1, <2>2, <3>1 DEF Careful
  <2> QED
    BY <2>1, <2>2
<1>6. FetchedIsVerified'
  BY <1>3 DEF FetchedIsVerified, Cached
<1>7. Compared'
  BY <1>4 DEF Compared, At, Req, Cached
<1>8. Spared'
  BY <1>5 DEF Spared, At, Req
<1> QED
  BY <1>6, <1>7, <1>8 DEF Verified

\* No name is new, and p opens nothing.
LEMMA NamedLess ==
  ASSUME TypeOK, Named, NEW p \in Proc, NEW n \in Commands, Goes(p, n),
         \A r \in Package : cache'[r] \in {cache[r], None},
         n.fd = None \/ (n.fd = call[p].fd /\ n.todo = call[p].todo)
  PROVE  Named'
<1>1. call' \in [Proc -> Commands] /\ call'[p] = n /\ \A q \in Proc \ {p} : call'[q] = call[q]
  BY DEF TypeOK, CallType, Goes
<1>2. \A r, s \in Package : cache'[r] = cache'[s] /\ cache'[r] # None => r = s
  BY DEF Named
<1>3. ASSUME NEW q \in Proc, NEW r \in Package, call'[q].fd # None, call'[q].fd = cache'[r]
      PROVE  Head(call'[q].todo) = r
  <2>1. call'[q].fd = call[q].fd /\ call'[q].todo = call[q].todo /\ cache'[r] = cache[r]
    BY <1>1, <1>3
  <2> QED
    BY <1>3, <2>1 DEF Named, Req
<1> QED
  BY <1>2, <1>3 DEF Named, Req

LEMMA CalmFiles ==
  ASSUME TypeOK, AllSound, Named, Verified, NEW p \in Proc, NEW n \in Commands, Goes(p, n),
         UNCHANGED files, n.fd = None \/ (n.fd = call[p].fd /\ n.todo = call[p].todo),
         n.got = call[p].got, n.pc # "symlink",
         n.pc \in Fetching \cup {"creat", "cleanup"} => Head(n.todo) \notin n.got \ touched[p]
  PROVE  FilesStep
<1>1. cache' = cache /\ data' = data /\ touched' = touched
  BY DEF files
<1>2. FilesType'
  BY <1>1 DEF TypeOK, FilesType
<1>3. Named'
  BY <1>1, NamedLess
<1>4. \A r \in n.got \ touched[p] : Whole(r)
  BY DEF Verified, FetchedIsVerified, Whole
<1>5. Careful(p, n)
  BY <1>1, <1>4 DEF Careful, Disturbed
<1> QED
  BY <1>2, <1>3, <1>5, CarefulVerified DEF FilesStep

LEMMA CollectedTyped ==
  ASSUME TypeOK, data' = Collected, cache' \in [Package -> Inode \cup {None}]
  PROVE  /\ data' \in [Inode -> Seq(Blocks \cup {Hole})]
         /\ \A r \in Package : cache'[r] # None => data'[cache'[r]] = data[cache'[r]]
<1>1. data \in [Inode -> Seq(Blocks \cup {Hole})]
  BY DEF TypeOK, FilesType
<1>2. <<>> \in Seq(Blocks \cup {Hole})
  OBVIOUS
<1> QED
  BY <1>1, <1>2 DEF Collected

LEMMA ReleaseFiles ==
  ASSUME TypeOK, AllSound, Named, Verified, NEW p \in Proc, NEW n \in Commands, Goes(p, n),
         Release, n.fd = None, n.got \in {call[p].got, {}}, n.pc # "symlink",
         n.pc \notin Fetching \cup {"creat", "cleanup"}
  PROVE  FilesStep
<1>1. cache' = cache /\ data' = Collected /\ touched' = touched
  BY DEF Release
<1>2. /\ cache \in [Package -> Inode \cup {None}]
      /\ touched \in [Proc -> SUBSET Package]
  BY DEF TypeOK, FilesType
<1>3. /\ data' \in [Inode -> Seq(Blocks \cup {Hole})]
      /\ \A r \in Package : cache[r] # None => data'[cache[r]] = data[cache[r]]
  BY <1>1, <1>2, CollectedTyped
<1>4. FilesType'
  BY <1>1, <1>2, <1>3 DEF FilesType
<1>5. Named'
  BY <1>1, NamedLess
<1>6. \A r \in n.got \ touched[p] : Whole(r)
  BY DEF Verified, FetchedIsVerified, Whole
<1>7. \A r \in Package : ~Disturbed(r)
  BY <1>1, <1>3 DEF Disturbed, Cached
<1>8. Careful(p, n)
  BY <1>1, <1>6, <1>7 DEF Careful
<1> QED
  BY <1>4, <1>5, <1>8, CarefulVerified DEF FilesStep

LEMMA UnlinkFiles ==
  ASSUME TypeOK, AllSound, Named, Verified, NEW p \in Proc, NEW n \in Commands, Goes(p, n),
         NEW r \in Package, Unlink(p, r), n.fd = None, n.got = call[p].got,
         n.pc \notin Fetching \cup {"symlink", "creat"},
         r \notin call[p].got \ touched[p], n.pc = "cleanup" => Head(n.todo) = r
  PROVE  FilesStep
<1>1. cache' = [cache EXCEPT ![r] = None] /\ data' = Collected
  BY DEF Unlink
<1>2. /\ cache \in [Package -> Inode \cup {None}]
      /\ touched \in [Proc -> SUBSET Package]
  BY DEF TypeOK, FilesType
<1>3. /\ cache' \in [Package -> Inode \cup {None}]
      /\ cache'[r] = None /\ \A s \in Package \ {r} : cache'[s] = cache[s]
  BY <1>1, <1>2
<1>4. /\ touched' \in [Proc -> SUBSET Package] /\ touched'[p] = touched[p]
      /\ \A q \in Proc \ {p} :
            touched[q] \subseteq touched'[q] /\ (Cached(r) => r \in touched'[q])
  BY <1>2 DEF Unlink, Touch
<1>5. /\ data' \in [Inode -> Seq(Blocks \cup {Hole})]
      /\ \A s \in Package : cache'[s] # None => data'[cache'[s]] = data[cache'[s]]
  BY <1>1, <1>3, CollectedTyped
<1>6. FilesType'
  BY <1>3, <1>4, <1>5 DEF FilesType
<1>7. Named'
  BY <1>3, NamedLess
<1>8. \A s \in n.got \ touched[p] : Whole(s)
  BY DEF Verified, FetchedIsVerified, Whole
<1>9. \A s \in Package : Disturbed(s) => s = r /\ Cached(r)
  BY <1>3, <1>5 DEF Disturbed, Cached
<1>10. r \notin n.got \ touched'[p] /\ n.pc \notin Fetching \cup {"creat"}
  BY <1>4
<1>11. \A q \in Proc \ {p} : touched[q] \subseteq touched'[q]
  BY <1>4
<1>12. \A s \in Package : Disturbed(s) =>
          (\A q \in Proc \ {p} : s \in touched'[q]) /\ s \notin n.got \ touched'[p]
  BY <1>4, <1>9, <1>10
<1>13. \A s \in n.got \ touched'[p] : Whole(s)
  BY <1>4, <1>8
<1>14. n.pc = "cleanup" => Head(n.todo) \notin n.got \ touched'[p]
  BY <1>10
<1>15. Careful(p, n)
  BY <1>10, <1>11, <1>12, <1>13, <1>14 DEF Careful
<1> QED
  BY <1>6, <1>7, <1>15, CarefulVerified DEF FilesStep

(* The files, one operation after the other                                *)

LEMMA Onward ==
  ASSUME TypeOK, NEW p \in Proc, Proceeds(p)
  PROVE  /\ Goes(p, call'[p]) /\ call'[p] \in Commands
         /\ call'[p].pc \in Fetching <=> call'[p].fd # None
<1>1. PICK n \in Commands : Goes(p, n) /\ Sound(n)
  BY DEF Proceeds
<1>2. call'[p] = n
  BY <1>1, PlaceOf
<1> QED
  BY <1>1, <1>2 DEF Sound, Sensible

Same(p) == call'[p].todo = call[p].todo /\ call'[p].got = call[p].got

LEMMA AsideFiles ==
  ASSUME TypeOK, AllSound, Named, Verified, NEW p \in Proc, Proceeds(p), UNCHANGED files,
         call'[p].got = call[p].got,
         call'[p].pc \notin Fetching \cup {"symlink", "creat", "cleanup"}
  PROVE  FilesStep
<1>1. /\ Goes(p, call'[p]) /\ call'[p] \in Commands /\ call'[p].fd = None
  BY Onward
<1> QED
  BY <1>1, CalmFiles

LEMMA FetchingFiles ==
  ASSUME TypeOK, AllSound, Named, Verified, NEW p \in Proc, Proceeds(p), UNCHANGED files,
         Same(p), call'[p].fd = call[p].fd,
         call[p].pc \in Fetching, call'[p].pc \in Fetching
  PROVE  FilesStep
<1>1. Goes(p, call'[p]) /\ call'[p] \in Commands
  BY Onward
<1>2. Head(call'[p].todo) \notin call'[p].got \ touched[p]
  BY DEF Verified, Spared, At, Req, Same
<1>3. call'[p].pc # "symlink"
  BY DEF Fetching
<1> QED
  BY <1>1, <1>2, <1>3, CalmFiles DEF Same

LEMMA FillingFiles ==
  ASSUME TypeOK, AllSound, Named, Verified, NEW p \in Proc, Proceeds(p), UNCHANGED files,
         Same(p), call'[p].pc \in {"creat", "cleanup"}, Req(p) \notin call[p].got \ touched[p]
  PROVE  FilesStep
<1>1. Goes(p, call'[p]) /\ call'[p] \in Commands /\ call'[p].fd = None
  BY Onward DEF Fetching
<1>2. Head(call'[p].todo) \notin call'[p].got \ touched[p]
  BY DEF Req, Same
<1> QED
  BY <1>1, <1>2, CalmFiles DEF Same

LEMMA JobsFetchFiles ==
  ASSUME TypeOK, AllSound, Named, Verified, NEW p \in Proc, JobsFetch(p)
  PROVE  FilesStep
<1> DEFINE c == call[p]
           S == {[c EXCEPT !.pc = "done", !.skipped = TRUE],
                 [c EXCEPT !.pc = "done", !.rc = "fatal"], [c EXCEPT !.pc = "next"]}
<1>1. \A n \in S : n.got = c.got /\ n.pc \in {"done", "next"}
  BY CommandSound DEF Commands
<1>2. \E n \in S : Goes(p, n)
  BY DEF JobsFetch, Goto, Ends
<1>3. call'[p].got = c.got /\ call'[p].pc \in {"done", "next"}
  BY <1>1, <1>2, PlaceOf
<1>4. UNCHANGED files
  BY DEF JobsFetch
<1> QED
  BY <1>3, <1>4, JobsFetchSound, AsideFiles DEF Fetching

LEMMA NextRequestFiles ==
  ASSUME TypeOK, AllSound, Named, Verified, NEW p \in Proc, NextRequest(p)
  PROVE  FilesStep
<1> DEFINE c == call[p]
           pc == IF Req(p) \in Package THEN "access" ELSE "temp"
           S == {[c EXCEPT !.pc = "done", !.rc = "ok"],
                 [c EXCEPT !.pc = pc, !.already = FALSE, !.fetched = FALSE, !.rc = "ok"]}
<1>2. \E n \in S : Goes(p, n)
  BY DEF NextRequest, Ends
<1>5. pc \in {"access", "temp"}
  OBVIOUS
<1> HIDE DEF pc
<1>1. \A n \in S : n.got = c.got /\ n.pc \in {"done", "access", "temp"}
  BY <1>5, CommandSound DEF Commands
<1>3. call'[p].got = c.got /\ call'[p].pc \in {"done", "access", "temp"}
  BY <1>1, <1>2, PlaceOf
<1>4. UNCHANGED files
  BY DEF NextRequest
<1> QED
  BY <1>3, <1>4, NextRequestSound, AsideFiles DEF Fetching

LEMMA TryFetchFiles ==
  ASSUME TypeOK, AllSound, Named, Verified, NEW p \in Proc, TryFetch(p)
  PROVE  FilesStep
<1> DEFINE c == call[p]
           S == {[c EXCEPT !.pc = "stat", !.fetched = FALSE], [c EXCEPT !.pc = "next", !.todo = Tail(@)]}
           T == {[c EXCEPT !.pc = "cleanup", !.rc = "fatal"], [c EXCEPT !.pc = "creat"]}
<1>3. UNCHANGED files
  BY DEF TryFetch
<1>0. c \in Commands /\ UNCHANGED files /\ Proceeds(p)
  BY <1>3, CommandSound, TryFetchSound
<1>1. CASE \E n \in S : Goes(p, n)
  <2>1. \A n \in S : n.got = c.got /\ n.pc \in {"stat", "next"}
    BY <1>0 DEF Commands
  <2>2. call'[p].got = c.got /\ call'[p].pc \in {"stat", "next"}
    BY <1>1, <2>1, PlaceOf
  <2> QED
    BY <1>0, <2>2, AsideFiles DEF Fetching
<1>2. CASE ~Cached(Req(p)) /\ \E n \in T : Goes(p, n)
  <2>1. \A n \in T : n.got = c.got /\ n.todo = c.todo /\ n.pc \in {"creat", "cleanup"}
    BY <1>0 DEF Commands
  <2>2. Same(p) /\ call'[p].pc \in {"creat", "cleanup"}
    BY <1>2, <2>1, PlaceOf DEF Same
  <2>3. Req(p) \notin call[p].got \ touched[p]
    BY <1>2 DEF Verified, FetchedIsVerified
  <2> QED
    BY <1>0, <2>2, <2>3, FillingFiles
<1> QED
  BY <1>1, <1>2 DEF TryFetch, Goto, Ends

\* What refuses a file did not see what the catalogue describes.
LEMMA RefusedFiles ==
  ASSUME TypeOK, AllSound, Named, Verified, NEW p \in Proc, Proceeds(p), Refused(p),
         Req(p) \notin call[p].got \ touched[p]
  PROVE  FilesStep
<1> DEFINE n == [call[p] EXCEPT !.pc = "cleanup", !.rc = "fatal"]
<1>1. Goes(p, n) /\ UNCHANGED files
  BY DEF Refused, Ends
<1>2. n.pc = "cleanup" /\ n.todo = call[p].todo /\ n.got = call[p].got
  BY CommandSound DEF Commands
<1> HIDE DEF n
<1>3. Same(p) /\ call'[p].pc \in {"creat", "cleanup"}
  BY <1>1, <1>2, PlaceOf DEF Same
<1> QED
  BY <1>1, <1>3, FillingFiles

LEMMA AgainFiles ==
  ASSUME TypeOK, AllSound, Named, Verified, NEW p \in Proc, Proceeds(p), Again(p),
         call[p].pc \in {"stat", "sum"}, Req(p) \notin call[p].got \ touched[p]
  PROVE  FilesStep
<1> DEFINE n == [call[p] EXCEPT !.pc = "access", !.already = TRUE]
<1>1. Goes(p, n) /\ Unlink(p, Req(p))
  BY DEF Again
<1>2. n.pc = "access" /\ n.got = call[p].got
  BY CommandSound DEF Commands
<1> HIDE DEF n
<1>3. call'[p].pc = "access" /\ call'[p].got = call[p].got
  BY <1>1, <1>2, PlaceOf
<1>4. /\ Goes(p, call'[p]) /\ call'[p] \in Commands /\ call'[p].fd = None
      /\ call'[p].pc \notin Fetching \cup {"symlink", "creat", "cleanup"}
  BY <1>3, Onward DEF Fetching
<1>5. Req(p) \in Package
  BY CommandSound DEF Sensible, Caching, Req
<1> QED
  BY <1>1, <1>3, <1>4, <1>5, UnlinkFiles

LEMMA CompareSizeFiles ==
  ASSUME TypeOK, AllSound, Named, Verified, NEW p \in Proc, CompareSize(p)
  PROVE  FilesStep
<1> DEFINE r == Req(p)
           same == Cached(r) /\ Len(data[cache[r]]) = SizeOf[r]
           n == [call[p] EXCEPT !.pc = "sum"]
<1>0. call[p] \in Commands /\ call[p].pc = "stat" /\ Proceeds(p) /\ Req(p) \in Package
  <2>1. call[p].pc = "stat"
    BY DEF CompareSize, At
  <2>2. Req(p) \in Package
    BY <2>1, CommandSound DEF Sensible, Caching, Req
  <2> QED
    BY <2>1, <2>2, CompareSizeSound, CommandSound
<1>1. CASE same
  <2>1. Goes(p, n) /\ UNCHANGED files
    BY <1>1 DEF CompareSize, Goto
  <2>2. n.pc = "sum" /\ n.got = call[p].got
    BY <1>0 DEF Commands
  <2> HIDE DEF n
  <2>3. call'[p].pc = "sum" /\ call'[p].got = call[p].got
    BY <2>1, <2>2, PlaceOf
  <2> QED
    BY <1>0, <2>1, <2>3, AsideFiles DEF Fetching
<1>2. CASE ~same
  <2>1. Refused(p) \/ Again(p)
    BY <1>2 DEF CompareSize
  <2>2. ~Whole(r)
    BY <1>0, <1>2, ServedTyped DEF Whole, Request
  <2>3. r \notin call[p].got \ touched[p]
    BY <2>2 DEF Verified, FetchedIsVerified, Whole
  <2> QED
    BY <1>0, <2>1, <2>3, RefusedFiles, AgainFiles
<1> QED
  BY <1>1, <1>2

LEMMA CompareSumFiles ==
  ASSUME TypeOK, AllSound, Named, Verified, NEW p \in Proc, CompareSum(p)
  PROVE  FilesStep
<1> DEFINE r == Req(p)
           n == [call[p] EXCEPT !.pc = "symlink"]
<1>0. call[p] \in Commands /\ call[p].pc = "sum" /\ Proceeds(p) /\ Req(p) \in Package
  <2>1. call[p].pc = "sum"
    BY DEF CompareSum, At
  <2>2. Req(p) \in Package
    BY <2>1, CommandSound DEF Sensible, Caching, Req
  <2> QED
    BY <2>1, <2>2, CompareSumSound, CommandSound
<1>1. CASE Whole(r)
  <2>1. Goes(p, n)
    BY <1>1 DEF CompareSum, Goto, Whole
  <2>2. touched' = [touched EXCEPT ![p] = touched[p] \ {r}]
    BY <1>1 DEF CompareSum, Whole
  <2>3. cache' = cache /\ data' = data
    BY <1>1 DEF CompareSum, Whole
  <2>4. n.pc = "symlink" /\ n.got = call[p].got /\ n.todo = call[p].todo
    BY <1>0 DEF Commands
  <2> HIDE DEF n
  <2>5. /\ call'[p].pc = "symlink" /\ call'[p].got = call[p].got
        /\ Head(call'[p].todo) = r
    BY <2>1, <2>4, PlaceOf DEF Req
  <2>6. Goes(p, call'[p]) /\ call'[p] \in Commands /\ call'[p].fd = None
    BY <1>0, <2>5, Onward DEF Fetching
  <2> HIDE DEF r
  <2>7. /\ touched \in [Proc -> SUBSET Package] /\ touched' \in [Proc -> SUBSET Package]
        /\ touched'[p] = touched[p] \ {r}
        /\ \A q \in Proc \ {p} : touched'[q] = touched[q]
    BY <2>2 DEF TypeOK, FilesType
  <2>8. FilesType'
    BY <2>3, <2>7 DEF TypeOK, FilesType
  <2>9. Named'
    BY <2>3, <2>6, NamedLess
  <2>10. \A s \in call'[p].got \ touched'[p] : Whole(s)
    BY <1>1, <2>5, <2>7 DEF Verified, FetchedIsVerified, Whole
  <2>11. \A s \in Package : ~Disturbed(s)
    BY <2>3 DEF Disturbed
  <2>12. Careful(p, call'[p])
    BY <1>1, <2>3, <2>5, <2>7, <2>10, <2>11 DEF Careful, Fetching
  <2> QED
    BY <2>6, <2>8, <2>9, <2>12, CarefulVerified DEF FilesStep
<1>2. CASE ~Whole(r)
  <2>1. Refused(p) \/ Again(p)
    BY <1>2 DEF CompareSum, Whole
  <2>3. r \notin call[p].got \ touched[p]
    BY <1>2 DEF Verified, FetchedIsVerified, Whole
  <2> QED
    BY <1>0, <2>1, <2>3, RefusedFiles, AgainFiles
<1> QED
  BY <1>1, <1>2

LEMMA CreateSymlinkFiles ==
  ASSUME TypeOK, AllSound, Named, Verified, NEW p \in Proc, CreateSymlink(p)
  PROVE  FilesStep
<1> DEFINE c == call[p]
           r == Req(p)
           n == [c EXCEPT !.pc = "next", !.todo = Tail(c.todo), !.got = c.got \cup {r}]
<1>11. c.pc = "symlink"
  BY DEF CreateSymlink, At
<1>0. c \in Commands /\ c.pc = "symlink" /\ Proceeds(p)
  BY <1>11, CreateSymlinkSound, CommandSound
<1>1. Goes(p, n) /\ UNCHANGED files
  BY DEF CreateSymlink
<1>2. n.pc = "next" /\ n.got = c.got \cup {r}
  BY <1>0 DEF Commands
<1> HIDE DEF n
<1>3. call'[p].pc = "next" /\ call'[p].got = c.got \cup {r}
  BY <1>1, <1>2, PlaceOf
<1>4. Goes(p, call'[p]) /\ call'[p] \in Commands /\ call'[p].fd = None
  BY <1>0, <1>3, Onward DEF Fetching
<1>5. cache' = cache /\ data' = data /\ touched' = touched
  BY <1>1 DEF files
<1>6. FilesType'
  BY <1>5 DEF TypeOK, FilesType
<1>7. Named'
  BY <1>4, <1>5, NamedLess
<1>8. r \notin touched[p] => Whole(r)
  BY <1>0 DEF Verified, Compared, At, Whole
<1>9. \A s \in call'[p].got \ touched'[p] : Whole(s)
  BY <1>3, <1>5, <1>8 DEF Verified, FetchedIsVerified, Whole
<1>10. Careful(p, call'[p])
  BY <1>3, <1>5, <1>9 DEF Careful, Disturbed, Fetching
<1> QED
  BY <1>4, <1>6, <1>7, <1>10, CarefulVerified DEF FilesStep

LEMMA CleanUpFiles ==
  ASSUME TypeOK, AllSound, Named, Verified, NEW p \in Proc, CleanUp(p)
  PROVE  FilesStep
<1> DEFINE n == [call[p] EXCEPT !.pc = "done", !.rc = "fatal"]
<1>0. call[p] \in Commands /\ call[p].pc = "cleanup" /\ Proceeds(p)
  BY CleanUpSound, CommandSound DEF CleanUp, At
<1>1. Goes(p, n) /\ Unlink(p, Req(p))
  BY DEF CleanUp, Ends
<1>2. n.pc = "done" /\ n.got = call[p].got
  BY <1>0 DEF Commands
<1> HIDE DEF n
<1>3. call'[p].pc = "done" /\ call'[p].got = call[p].got
  BY <1>1, <1>2, PlaceOf
<1>4. /\ Goes(p, call'[p]) /\ call'[p] \in Commands /\ call'[p].fd = None
      /\ call'[p].pc \notin Fetching \cup {"symlink", "creat", "cleanup"}
  BY <1>0, <1>3, Onward DEF Fetching
<1>5. Req(p) \in Package
  BY <1>0, CommandSound DEF Sensible, Caching, Req
<1>6. Req(p) \notin call[p].got \ touched[p]
  BY <1>0 DEF Verified, Spared, At
<1> QED
  BY <1>1, <1>3, <1>4, <1>5, <1>6, UnlinkFiles

LEMMA DiesFiles ==
  ASSUME TypeOK, AllSound, Named, Verified, NEW p \in Proc, Dies(p)
  PROVE  FilesStep
<1>1. Idle.fd = None /\ Idle.got = {} /\ Idle.pc = "idle"
  BY DEF Idle
<1>2. Goes(p, Idle) /\ Release /\ Idle \in Commands
  BY IdleSound DEF Dies
<1> QED
  BY <1>1, <1>2, ReleaseFiles DEF Fetching

\* What a download may turn into without a look at the files.
Passes(c) ==
    {[c EXCEPT !.pc = "answer"], [c EXCEPT !.pc = "loops"],
     [c EXCEPT !.pc = "close", !.rc = "fatal"], [c EXCEPT !.pc = "close", !.rc = "uptodate"],
     [c EXCEPT !.pc = "close", !.rc = "ok"]}
Turns(c) ==
    Passes(c) \cup {GivesUp(c)} \cup {Announced(c, size) : size \in Nat}
              \cup {Follows(c, order) : order \in Seq(Nat)}

LEMMA TurnsFiles ==
  ASSUME TypeOK, AllSound, Named, Verified, NEW p \in Proc, Proceeds(p), UNCHANGED files,
         call[p].pc \in Fetching, NEW n \in Turns(call[p]), Goes(p, n)
  PROVE  FilesStep
<1> DEFINE c == call[p]
<1>0. c \in Commands
  BY CommandSound
<1>1. \A size \in Nat :
         LET m == Announced(c, size)
         IN  m.pc = "read" /\ m.todo = c.todo /\ m.got = c.got /\ m.fd = c.fd
  BY <1>0 DEF Announced, Commands
<1>2. \A order \in Seq(Nat) :
         LET m == Follows(c, order)
         IN  m.pc = "xget" /\ m.todo = c.todo /\ m.got = c.got /\ m.fd = c.fd
  BY <1>0 DEF Follows, Commands
<1>3. LET m == GivesUp(c)
      IN  m.pc = "close" /\ m.todo = c.todo /\ m.got = c.got /\ m.fd = c.fd
  BY <1>0 DEF GivesUp, Commands
<1>6. \A m \in Passes(c) :
         m.pc \in {"answer", "loops", "close"} /\ m.todo = c.todo /\ m.got = c.got /\ m.fd = c.fd
  BY <1>0 DEF Passes, Commands
<1>4. n.pc \in Fetching /\ n.todo = c.todo /\ n.got = c.got /\ n.fd = c.fd
  BY <1>1, <1>2, <1>3, <1>6 DEF Turns, Fetching
<1>5. call'[p] = n
  BY PlaceOf
<1> QED
  BY <1>4, <1>5, FetchingFiles DEF Same

LEMMA StartSshFiles ==
  ASSUME TypeOK, AllSound, Named, Verified, NEW p \in Proc, StartSsh(p)
  PROVE  FilesStep
<1>1. call[p].pc \in Fetching
  BY DEF StartSsh, At, Fetching
<1>2. UNCHANGED files
  BY DEF StartSsh
<1>3. \E n \in Turns(call[p]) : Goes(p, n)
  BY DEF StartSsh, Fails, Ends, Goto, Turns, Passes
<1> QED
  BY <1>1, <1>2, <1>3, StartSshSound, TurnsFiles

LEMMA AnswerFiles ==
  ASSUME TypeOK, AllSound, Named, Verified, NEW p \in Proc, Answer(p)
  PROVE  FilesStep
<1>1. call[p].pc \in Fetching /\ ssh[p].chan # <<>>
  BY DEF Answer, At, Fetching
<1>2. UNCHANGED files
  BY DEF Answer
<1>3. Head(ssh[p].chan).place \in Nat
  <2>1. Head(ssh[p].chan) \in Blocks
    BY <1>1, SessionTyped
  <2> QED
    BY <2>1 DEF Blocks
<1>4. \/ Ends(p, "close", "fatal") \/ Ends(p, "close", "uptodate")
      \/ Goes(p, Announced(call[p], Head(ssh[p].chan).place))
  BY DEF Answer, Fails
<1>5. \E n \in Turns(call[p]) : Goes(p, n)
  BY <1>3, <1>4 DEF Ends, Turns, Passes
<1> QED
  BY <1>1, <1>2, <1>5, AnswerSound, TurnsFiles

LEMMA AnswerLateFiles ==
  ASSUME TypeOK, AllSound, Named, Verified, NEW p \in Proc, AnswerLate(p)
  PROVE  FilesStep
<1>1. call[p].pc \in Fetching
  BY DEF AnswerLate, At, Fetching
<1>2. CASE Fails(p) /\ UNCHANGED files
  <2>1. \E n \in Turns(call[p]) : Goes(p, n)
    BY <1>2 DEF Fails, Ends, Turns, Passes
  <2> QED
    BY <1>1, <1>2, <2>1, AnswerLateSound, TurnsFiles
<1>3. CASE Dies(p)
  BY <1>3, DiesFiles
<1> QED
  BY <1>2, <1>3 DEF AnswerLate

LEMMA ResolveFiles ==
  ASSUME TypeOK, AllSound, Named, Verified, NEW p \in Proc, Resolve(p)
  PROVE  FilesStep
<1>1. call[p].pc \in Fetching
  BY DEF Resolve, At, Fetching
<1>2. CASE Dies(p)
  BY <1>2, DiesFiles
<1>3. CASE ~Dies(p)
  <2>1. UNCHANGED files
    BY <1>3 DEF Resolve
  <2>2. \/ Goes(p, Follows(call[p], call[p].order)) \/ Goes(p, Follows(call[p], <<>>))
        \/ \E f \in SrvOrders(zone) : Goes(p, Follows(call[p], f))
        \/ Goes(p, Follows(call[p], HttpList)) \/ Goto(p, "loops")
    BY <1>3 DEF Resolve
  <2>3. call[p].order \in Seq(Nat) /\ HttpList \in Seq(Nat)
    BY CommandSound, OrdersTyped DEF Commands
  <2>4. \A f \in SrvOrders(zone) : f \in Seq(Nat)
    BY ConfTyped, OrdersTyped
  <2>5. (\E order \in Seq(Nat) : Goes(p, Follows(call[p], order))) \/ Goto(p, "loops")
    <3>1. <<>> \in Seq(Nat)
      OBVIOUS
    <3> HIDE DEF Goto
    <3> QED
      BY <2>2, <2>3, <2>4, <3>1
  <2>6. \E n \in Turns(call[p]) : Goes(p, n)
    <3>1. [call[p] EXCEPT !.pc = "loops"] \in Turns(call[p])
      BY DEF Turns, Passes
    <3>2. \A order \in Seq(Nat) : Follows(call[p], order) \in Turns(call[p])
      BY DEF Turns
    <3>3. CASE Goto(p, "loops")
      BY <3>1, <3>3 DEF Goto
    <3> QED
      BY <2>5, <3>2, <3>3
  <2> QED
    BY <1>1, <2>1, <2>6, ResolveSound, TurnsFiles
<1> QED
  BY <1>2, <1>3

LEMMA FetchXGetFiles ==
  ASSUME TypeOK, AllSound, Named, Verified, NEW p \in Proc, FetchXGet(p)
  PROVE  FilesStep
<1> DEFINE c == call[p]
<1>1. c.pc = "xget"
  BY DEF FetchXGet, At
<1>2. UNCHANGED files
  BY DEF FetchXGet
<1>3. c \in Commands /\ Proceeds(p)
  BY CommandSound, FetchXGetSound
<1>4. CASE \E n \in Turns(c) : Goes(p, n)
  BY <1>1, <1>2, <1>3, <1>4, TurnsFiles DEF Fetching
<1>5. ASSUME NEW n, Goes(p, n), n.pc \in {"read", "xget"},
             n.todo = c.todo, n.got = c.got, n.fd = c.fd
      PROVE  FilesStep
  <2>1. call'[p] = n
    BY <1>5, PlaceOf
  <2> QED
    BY <1>1, <1>2, <1>3, <1>5, <2>1, FetchingFiles DEF Fetching, Same
<1>6. CASE Goes(p, TriesNext(c))
  <2> DEFINE n == TriesNext(c)
  <2>1. n.pc = "xget" /\ n.todo = c.todo /\ n.got = c.got /\ n.fd = c.fd
    BY <1>1, <1>3 DEF TriesNext, Commands
  <2> HIDE DEF n
  <2> QED
    BY <1>5, <1>6, <2>1 DEF n
<1>7. ASSUME NEW src, NEW known, Goes(p, Stream(c, src, known)) PROVE FilesStep
  <2> DEFINE n == Stream(c, src, known)
  <2>1. n.pc = "read" /\ n.todo = c.todo /\ n.got = c.got /\ n.fd = c.fd
    BY <1>3 DEF Stream, Commands
  <2> HIDE DEF n
  <2> QED
    BY <1>5, <1>7, <2>1 DEF n
<1>8. \/ \E src, known : Goes(p, Stream(c, src, known))
      \/ Ends(p, "close", "uptodate") \/ Ends(p, "close", "fatal")
      \/ Goes(p, GivesUp(c)) \/ Goes(p, TriesNext(c))
  BY DEF FetchXGet, Fails
<1>9. \/ \E src, known : Goes(p, Stream(c, src, known))
      \/ \E n \in Turns(c) : Goes(p, n)
      \/ Goes(p, TriesNext(c))
  BY <1>8 DEF Ends, Turns, Passes
<1> QED
  BY <1>4, <1>6, <1>7, <1>9

LEMMA ReadEndsFiles ==
  ASSUME TypeOK, AllSound, Named, Verified, NEW p \in Proc, ReadLate(p) \/ ReadAll(p)
  PROVE  FilesStep
<1>1. call[p].pc \in Fetching
  BY DEF ReadLate, ReadAll, At, Fetching
<1>2. UNCHANGED files
  BY DEF ReadLate, ReadAll
<1>3. \E n \in Turns(call[p]) : Goes(p, n)
  BY DEF ReadLate, ReadAll, Fails, Ends, Turns, Passes
<1> QED
  BY <1>1, <1>2, <1>3, ReadLateSound, ReadAllSound, TurnsFiles

LEMMA ServesFiles ==
  ASSUME TypeOK, AllSound, Named, Verified, UNCHANGED <<call, cache, data, touched>>
  PROVE  FilesStep
<1>1. FilesType'
  BY DEF TypeOK, FilesType
<1>2. Named'
  BY DEF Named, Req
<1>3. FetchedIsVerified' /\ Compared' /\ Spared'
  BY DEF Verified, FetchedIsVerified, Compared, Spared, At, Req, Cached
<1> QED
  BY <1>1, <1>2, <1>3 DEF FilesStep, Verified

LEMMA CloseFileFiles ==
  ASSUME TypeOK, AllSound, Named, Verified, NEW p \in Proc, CloseFile(p)
  PROVE  FilesStep
<1> DEFINE c == call[p]
           d == Closed(c)
           pc == IF c.rc = "ok" THEN "stat" ELSE "cleanup"
           rc == IF c.rc = "ok" THEN "ok" ELSE "fatal"
<1>0. c \in Commands /\ Proceeds(p)
  BY CloseFileSound, CommandSound
<1>10. c.pc = "close"
  BY DEF CloseFile, At
<1>1. DOMAIN d = DOMAIN c /\ d.todo = c.todo /\ d.got = c.got
  BY <1>0 DEF Commands, Closed
<1>2. /\ ClosedPackage(c) = [d EXCEPT !.pc = pc, !.fetched = TRUE, !.rc = rc]
      /\ ClosedDocument(c) = [d EXCEPT !.pc = "next", !.rc = "ok", !.todo = Tail(d.todo)]
      /\ ClosedForGood(c) = [d EXCEPT !.pc = "done", !.rc = "fatal"]
  BY DEF ClosedPackage, ClosedDocument, ClosedForGood
<1>3. c \in Commands /\ DOMAIN c = {"pc", "todo", "already", "fetched", "fd", "off", "sz", "src",
                  "retry", "cur", "order", "tried", "rc", "skipped", "got"}
  BY <1>0 DEF Commands
<1> HIDE DEF pc, rc, d
<1>4. /\ ClosedPackage(c).pc = pc /\ ClosedPackage(c).got = c.got
      /\ ClosedPackage(c).todo = c.todo
      /\ ClosedDocument(c).pc = "next" /\ ClosedDocument(c).got = c.got
      /\ ClosedForGood(c).pc = "done" /\ ClosedForGood(c).got = c.got
  BY <1>1, <1>2, <1>3
<1>5. CASE Req(p) \in Package /\ Goes(p, ClosedPackage(c)) /\ c.rc = "ok" /\ Release
  <2>1. call'[p].pc = "stat" /\ call'[p].got = c.got
    BY <1>4, <1>5, PlaceOf DEF pc
  <2>2. Goes(p, call'[p]) /\ call'[p] \in Commands /\ call'[p].fd = None
    BY <1>0, <2>1, Onward DEF Fetching
  <2> QED
    BY <1>5, <2>1, <2>2, ReleaseFiles DEF Fetching
<1>6. CASE Req(p) \in Package /\ Goes(p, ClosedPackage(c)) /\ c.rc # "ok" /\ Unlink(p, Req(p))
  <2>1. call'[p].pc = "cleanup" /\ call'[p].got = c.got /\ Head(call'[p].todo) = Req(p)
    BY <1>4, <1>6, PlaceOf DEF pc, Req
  <2>2. Goes(p, call'[p]) /\ call'[p] \in Commands /\ call'[p].fd = None
    BY <1>0, <2>1, Onward DEF Fetching
  <2>3. Req(p) \notin c.got \ touched[p]
    BY <1>10 DEF Verified, Spared, At, Fetching
  <2> QED
    BY <1>6, <2>1, <2>2, <2>3, UnlinkFiles DEF Fetching
<1>7. CASE Release /\ (Goes(p, ClosedDocument(c)) \/ Goes(p, ClosedForGood(c)))
  <2>1. call'[p].pc \in {"next", "done"} /\ call'[p].got = c.got
    BY <1>4, <1>7, PlaceOf
  <2>2. Goes(p, call'[p]) /\ call'[p] \in Commands /\ call'[p].fd = None
    BY <1>0, <2>1, Onward DEF Fetching
  <2> QED
    BY <1>7, <2>1, <2>2, ReleaseFiles DEF Fetching
<1> QED
  BY <1>5, <1>6, <1>7 DEF CloseFile

LEMMA StartFiles ==
  ASSUME TypeOK, AllSound, Named, Verified, NEW p \in Proc, NEW todo \in conf.programs,
         Start(p, todo)
  PROVE  FilesStep
<1> DEFINE c == call[p]
           pc == IF todo \in Seq(Package) THEN "size" ELSE "next"
           n == [c EXCEPT !.pc = pc, !.todo = todo]
<1>1. c.pc = "idle"
  BY DEF Start, At
<1>2. c \in Commands /\ c = Idle /\ Proceeds(p)
  BY <1>1, CommandSound, StartSound DEF Sensible
<1>3. Goes(p, n) /\ touched' = [touched EXCEPT ![p] = {}] /\ cache' = cache /\ data' = data
  BY DEF Start
<1>4. pc \in {"size", "next"}
  OBVIOUS
<1> HIDE DEF pc
<1>5. n.got = c.got /\ n.pc = pc
  BY <1>2 DEF Commands
<1> HIDE DEF n
<1>6. call'[p].got = {} /\ call'[p].pc \in {"size", "next"}
  BY <1>2, <1>3, <1>4, <1>5, PlaceOf DEF Idle
<1>7. Goes(p, call'[p]) /\ call'[p] \in Commands /\ call'[p].fd = None
  BY <1>2, <1>6, Onward DEF Fetching
<1>8. touched' \in [Proc -> SUBSET Package] /\ \A q \in Proc \ {p} : touched'[q] = touched[q]
  BY <1>3 DEF TypeOK, FilesType
<1>9. FilesType'
  BY <1>3, <1>8 DEF TypeOK, FilesType
<1>10. Named'
  BY <1>3, <1>7, NamedLess
<1>11. Careful(p, call'[p])
  BY <1>3, <1>6, <1>8 DEF Careful, Disturbed, Fetching
<1> QED
  BY <1>7, <1>9, <1>10, <1>11, CarefulVerified DEF FilesStep

LEMMA BeginFields ==
  ASSUME TypeOK, AllSound, NEW p \in Proc, call[p].pc \in {"creat", "temp"},
         NEW i \in Inode, Begin(p, i)
  PROVE  /\ Goes(p, call'[p]) /\ call'[p] \in Commands /\ Same(p)
         /\ call'[p].fd = i /\ call'[p].pc \in Fetching
         /\ \A q \in Proc \ {p} : call'[q] = call[q]
<1> DEFINE c == call[p]
           pc == IF conf.scheme = "ssh" THEN "ssh"
                 ELSE IF conf.mirror_type = "NOMIRROR" THEN "xget" ELSE "mirrors"
           n == [c EXCEPT !.pc = pc, !.fd = i, !.retry = conf.FETCH_RETRY]
<1>1. c \in Commands /\ Proceeds(p)
  BY CommandSound, BeginSound
<1>2. Goes(p, n)
  BY DEF Begin
<1> HIDE DEF pc
<1>3. n.todo = c.todo /\ n.got = c.got /\ n.fd = i
  BY <1>1 DEF Commands
<1> HIDE DEF n
<1>4. Same(p) /\ call'[p].fd = i
  BY <1>2, <1>3, PlaceOf DEF Same
<1>5. call'[p].pc \in Fetching
  BY BeginPlace DEF Fetching
<1>6. \A q \in Proc \ {p} : call'[q] = call[q]
  BY <1>2 DEF Goes, TypeOK, CallType
<1> QED
  BY <1>1, <1>4, <1>5, <1>6, Onward

\* What is open belongs to the package of its name.
LEMMA Opened ==
  ASSUME TypeOK, Named, NEW q \in Proc, NEW r \in Package, call[q].fd = cache[r],
         cache[r] # None
  PROVE  Req(q) = r
BY DEF Named

LEMMA CreatFiles ==
  ASSUME TypeOK, AllSound, Named, Verified, NEW p \in Proc, Creat(p)
  PROVE  FilesStep
<1> DEFINE c == call[p]
           r == Req(p)
           i == IF Cached(r) THEN cache[r] ELSE FreeInode
           f == [c EXCEPT !.pc = "cleanup", !.rc = "fatal"]
           none == <<>>
<1>1. c.pc = "creat"
  BY DEF Creat, At
<1>2. c \in Commands /\ r \in Package /\ c.fd = None /\ r \notin c.got \ touched[p]
  <2>1. c \in Commands /\ r \in Package /\ c.fd = None
    BY <1>1, CommandSound DEF Sensible, Caching, Fetching, Req
  <2>2. r \notin c.got \ touched[p]
    BY <1>1 DEF Verified, Spared, At
  <2> QED
    BY <2>1, <2>2
<1>3. Proceeds(p)
  BY CreatSound
<1>4. CASE Goes(p, f) /\ cache' = cache /\ data' = data /\ touched' = touched
  <2>1. f.pc = "cleanup" /\ f.todo = c.todo /\ f.got = c.got
    BY <1>2 DEF Commands
  <2> HIDE DEF f
  <2>2. Same(p) /\ call'[p].pc \in {"creat", "cleanup"}
    BY <1>4, <2>1, PlaceOf DEF Same
  <2>3. UNCHANGED files
    BY <1>4 DEF files
  <2> QED
    BY <1>2, <1>3, <2>2, <2>3, FillingFiles
<1>5. CASE /\ Begin(p, i) /\ cache' = [cache EXCEPT ![r] = i]
           /\ data' = [data EXCEPT ![i] = none] /\ Touch(p, r)
  <2>1. /\ FreeInode \in Inode /\ FreeInode \notin OpenInodes
        /\ \A s \in Package : cache[s] # FreeInode
    BY <1>2, Spare
  <2>2. /\ cache \in [Package -> Inode \cup {None}] /\ touched \in [Proc -> SUBSET Package]
        /\ data \in [Inode -> Seq(Blocks \cup {Hole})]
    BY DEF TypeOK, FilesType
  <2>3. i \in Inode
    BY <1>2, <2>1, <2>2 DEF Cached
  <2>4. \A s \in Package : cache[s] = i => s = r
    BY <1>2, <2>1, <2>2 DEF Cached, Named
  <2>5. \A q \in Proc : call[q].fd = i => Req(q) = r
    <3>1. CASE Cached(r)
      BY <1>2, <3>1, Opened DEF Cached
    <3>2. CASE ~Cached(r)
      BY <2>1, <2>3, <3>2, FetchAssumption DEF OpenInodes
    <3> QED
      BY <3>1, <3>2
  <2>6. i # None
    BY <2>3, FetchAssumption
  <2> HIDE DEF i, r
  <2>7. /\ Goes(p, call'[p]) /\ call'[p] \in Commands /\ Same(p)
        /\ call'[p].fd = i /\ call'[p].pc \in Fetching
        /\ \A q \in Proc \ {p} : call'[q] = call[q]
    BY <1>1, <1>5, <2>3, BeginFields
  <2>8. /\ cache' \in [Package -> Inode \cup {None}] /\ cache'[r] = i
        /\ \A s \in Package \ {r} : cache'[s] = cache[s]
    BY <1>2, <1>5, <2>2, <2>3
  <2>9. none \in Seq(Blocks \cup {Hole})
    OBVIOUS
  <2> HIDE DEF none
  <2>10. /\ data' \in [Inode -> Seq(Blocks \cup {Hole})]
         /\ \A j \in Inode \ {i} : data'[j] = data[j]
    BY <1>5, <2>2, <2>3, <2>9
  <2>11. /\ touched' \in [Proc -> SUBSET Package] /\ touched'[p] = touched[p]
         /\ \A q \in Proc \ {p} : touched'[q] = touched[q] \cup {r}
    BY <1>2, <1>5, <2>2 DEF Touch
  <2>12. FilesType'
    BY <2>8, <2>10, <2>11 DEF FilesType
  <2>13. \A s, t \in Package : cache'[s] = cache'[t] /\ cache'[s] # None => s = t
    BY <1>2, <2>4, <2>8 DEF Named
  <2>14. ASSUME NEW q \in Proc, NEW s \in Package, call'[q].fd # None, call'[q].fd = cache'[s]
         PROVE  Head(call'[q].todo) = s
    <3>1. CASE q = p
      <4>1. s = r
        BY <1>2, <2>6, <2>7, <2>8, <2>13, <3>1, <2>14
      <4> QED
        BY <2>7, <3>1, <4>1 DEF Same, Req, r
    <3>2. CASE q # p /\ s = r
      BY <2>5, <2>7, <2>8, <2>14, <3>2 DEF Req
    <3>3. CASE q # p /\ s # r
      BY <2>7, <2>8, <2>14, <3>3 DEF Named, Req
    <3> QED
      BY <3>1, <3>2, <3>3
  <2>15. Named'
    BY <2>13, <2>14 DEF Named, Req
  <2>16. \A s \in Package : Disturbed(s) => s = r
    BY <2>2, <2>4, <2>8, <2>10 DEF Disturbed, Cached
  <2>17. \A s \in call'[p].got \ touched'[p] : Whole(s)
    BY <2>7, <2>11 DEF Verified, FetchedIsVerified, Whole, Same
  <2>18. r \notin call'[p].got \ touched'[p] /\ Head(call'[p].todo) = r
    BY <1>2, <2>7, <2>11 DEF Same, Req, r
  <2>19. \A q \in Proc \ {p} : touched[q] \subseteq touched'[q]
    BY <2>11
  <2>20. \A s \in Package : Disturbed(s) =>
            (\A q \in Proc \ {p} : s \in touched'[q]) /\ s \notin call'[p].got \ touched'[p]
    BY <2>11, <2>16, <2>18
  <2>21. call'[p].pc # "symlink"
    BY <2>7 DEF Fetching
  <2>22. Careful(p, call'[p])
    BY <2>17, <2>18, <2>19, <2>20, <2>21 DEF Careful
  <2> QED
    BY <2>7, <2>12, <2>15, <2>22, CarefulVerified DEF FilesStep
<1>6. \/ Begin(p, i) /\ cache' = [cache EXCEPT ![r] = i]
         /\ data' = [data EXCEPT ![i] = none] /\ Touch(p, r)
      \/ Goes(p, f) /\ cache' = cache /\ data' = data /\ touched' = touched
  BY DEF Creat, Ends
<1> QED
  BY <1>4, <1>5, <1>6

LEMMA TemporaryFiles ==
  ASSUME TypeOK, AllSound, Named, Verified, NEW p \in Proc, Temporary(p)
  PROVE  FilesStep
<1> DEFINE c == call[p]
           none == <<>>
           i == FreeInode
<1>1. c.pc = "temp"
  BY DEF Temporary, At
<1>2. c \in Commands /\ c.fd = None /\ Req(p) \notin c.got
  BY <1>1, CommandSound DEF Sensible, Fetching, Req, Commands
<1>3. i \in Inode /\ \A s \in Package : cache[s] # i
  BY <1>2, Spare
<1>4. Begin(p, i) /\ data' = [data EXCEPT ![i] = none] /\ cache' = cache /\ touched' = touched
  BY DEF Temporary
<1>5. none \in Seq(Blocks \cup {Hole})
  OBVIOUS
<1> HIDE DEF none, i
<1>6. /\ Goes(p, call'[p]) /\ call'[p] \in Commands /\ Same(p)
      /\ call'[p].fd = i /\ call'[p].pc \in Fetching
      /\ \A q \in Proc \ {p} : call'[q] = call[q]
  BY <1>1, <1>3, <1>4, BeginFields
<1>7. /\ cache \in [Package -> Inode \cup {None}] /\ touched \in [Proc -> SUBSET Package]
      /\ data \in [Inode -> Seq(Blocks \cup {Hole})]
  BY DEF TypeOK, FilesType
<1>8. /\ data' \in [Inode -> Seq(Blocks \cup {Hole})]
      /\ \A j \in Inode \ {i} : data'[j] = data[j]
  BY <1>3, <1>4, <1>5, <1>7
<1>9. FilesType'
  BY <1>4, <1>7, <1>8 DEF FilesType
<1>10. ASSUME NEW q \in Proc, NEW s \in Package, call'[q].fd # None, call'[q].fd = cache'[s]
       PROVE  Head(call'[q].todo) = s
  BY <1>3, <1>4, <1>6, <1>10 DEF Named, Req
<1>11. Named'
  BY <1>4, <1>10 DEF Named, Req
<1>12. \A s \in Package : ~Disturbed(s)
  BY <1>3, <1>4, <1>7, <1>8 DEF Disturbed, Cached
<1>13. \A s \in call'[p].got \ touched'[p] : Whole(s)
  BY <1>4, <1>6 DEF Verified, FetchedIsVerified, Whole, Same
<1>14. Head(call'[p].todo) \notin call'[p].got /\ call'[p].pc # "symlink"
  BY <1>2, <1>6 DEF Same, Req, Fetching
<1>15. Careful(p, call'[p])
  BY <1>4, <1>12, <1>13, <1>14 DEF Careful
<1> QED
  BY <1>6, <1>9, <1>11, <1>15, CarefulVerified DEF FilesStep

LEMMA LargerOf ==
  ASSUME NEW m \in Nat, NEW n \in Nat
  PROVE  Max({m, n}) = (IF m >= n THEN m ELSE n)
<1> DEFINE l == IF m >= n THEN m ELSE n
<1>1. l \in {m, n} /\ \A y \in {m, n} : l >= y
  OBVIOUS
<1>2. \A x \in {m, n} : (\A y \in {m, n} : x >= y) => x = l
  OBVIOUS
<1> HIDE DEF l
<1>3. Max({m, n}) = l
  BY <1>1, <1>2 DEF Max
<1> QED
  BY <1>3 DEF l

LEMMA WriteAtTyped ==
  ASSUME NEW w \in Seq(Blocks \cup {Hole}), NEW off \in Nat, NEW b \in Blocks
  PROVE  WriteAt(w, off, b) \in Seq(Blocks \cup {Hole})
<1> DEFINE m == Max({Len(w), off + 1})
<1>1. m \in Nat
  BY LargerOf
<1> HIDE DEF m
<1>2. \A i \in 1 .. m : (IF i = off + 1 THEN b ELSE IF i <= Len(w) THEN w[i] ELSE Hole)
                         \in Blocks \cup {Hole}
  OBVIOUS
<1>3. [i \in 1 .. m |-> IF i = off + 1 THEN b ELSE IF i <= Len(w) THEN w[i] ELSE Hole]
        \in Seq(Blocks \cup {Hole})
  BY <1>1, <1>2
<1> QED
  BY <1>3 DEF WriteAt, m

LEMMA WritesFiles ==
  ASSUME TypeOK, AllSound, Named, Verified, NEW p \in Proc, Proceeds(p), call[p].pc = "read",
         NEW b \in Blocks, Goes(p, Written(call[p])), cache' = cache,
         data' = [data EXCEPT ![call[p].fd] = WriteAt(data[call[p].fd], call[p].off, b)],
         IF Req(p) \in Package THEN Touch(p, Req(p)) ELSE UNCHANGED touched
  PROVE  FilesStep
<1> DEFINE c == call[p]
           n == Written(c)
           fd == c.fd
           w == WriteAt(data[fd], c.off, b)
<1>1. c \in Commands /\ fd \in Inode /\ fd # None
  <2>1. c \in Commands /\ fd # None
    BY CommandSound DEF Sensible, Fetching
  <2> QED
    BY <2>1 DEF Commands
<1>2. /\ n.todo = c.todo /\ n.got = c.got /\ n.fd = c.fd /\ n.pc = "read"
  BY <1>1 DEF Written, Commands
<1> HIDE DEF n
<1>3. /\ call'[p].todo = c.todo /\ call'[p].got = c.got /\ call'[p].fd = c.fd
      /\ call'[p].pc = "read"
  BY <1>2, PlaceOf DEF n
<1>4. Goes(p, call'[p]) /\ call'[p] \in Commands
  BY Onward
<1>5. /\ cache \in [Package -> Inode \cup {None}] /\ touched \in [Proc -> SUBSET Package]
      /\ data \in [Inode -> Seq(Blocks \cup {Hole})]
  BY DEF TypeOK, FilesType
<1>6. w \in Seq(Blocks \cup {Hole})
  <2>1. data[fd] \in Seq(Blocks \cup {Hole}) /\ c.off \in Nat
    BY <1>1, <1>5 DEF Commands
  <2> QED
    BY <2>1, WriteAtTyped
<1>7. data' = [data EXCEPT ![fd] = w]
  OBVIOUS
<1> HIDE DEF w, fd
<1>8. /\ data' \in [Inode -> Seq(Blocks \cup {Hole})]
      /\ \A j \in Inode \ {fd} : data'[j] = data[j]
  BY <1>1, <1>5, <1>6, <1>7
<1>9. /\ touched' \in [Proc -> SUBSET Package] /\ touched'[p] = touched[p]
      /\ \A q \in Proc \ {p} : touched[q] \subseteq touched'[q]
      /\ Req(p) \in Package => \A q \in Proc \ {p} : Req(p) \in touched'[q]
  <2>1. CASE Req(p) \in Package
    BY <1>5, <2>1 DEF Touch
  <2>2. CASE Req(p) \notin Package
    BY <1>5, <2>2
  <2> QED
    BY <2>1, <2>2
<1>10. FilesType'
  BY <1>5, <1>8, <1>9 DEF FilesType
<1>11. Named'
  BY <1>3, <1>4, NamedLess
<1>12. ASSUME NEW s \in Package, Disturbed(s) PROVE s = Req(p)
  <2>1. cache[s] = fd
    BY <1>5, <1>8, <1>12 DEF Disturbed, Cached
  <2> QED
    BY <1>1, <2>1, Opened DEF fd
<1>13. Req(p) \notin c.got \ touched[p]
  BY DEF Verified, Spared, At, Fetching
<1>14. \A s \in Package : Disturbed(s) =>
          (\A q \in Proc \ {p} : s \in touched'[q]) /\ s \notin call'[p].got \ touched'[p]
  BY <1>3, <1>9, <1>12, <1>13
<1>15. \A s \in call'[p].got \ touched'[p] : Whole(s)
  BY <1>3, <1>9 DEF Verified, FetchedIsVerified, Whole
<1>16. Head(call'[p].todo) \notin call'[p].got \ touched'[p]
  BY <1>3, <1>9, <1>13 DEF Req
<1>17. Careful(p, call'[p])
  BY <1>3, <1>9, <1>14, <1>15, <1>16 DEF Careful
<1> QED
  BY <1>4, <1>10, <1>11, <1>17, CarefulVerified DEF FilesStep

LEMMA ReadFiles ==
  ASSUME TypeOK, AllSound, Named, Verified, NEW p \in Proc, Read(p)
  PROVE  FilesStep
<1> DEFINE c == call[p]
           Writes(b) ==
              /\ Goes(p, Written(c)) /\ cache' = cache
              /\ data' = [data EXCEPT ![c.fd] = WriteAt(data[c.fd], c.off, b)]
              /\ IF Req(p) \in Package THEN Touch(p, Req(p)) ELSE UNCHANGED touched
<1>1. c.pc = "read" /\ c.off < c.sz
  BY DEF Read, At
<1>2. c \in Commands /\ Proceeds(p) /\ Sensible(c)
  BY CommandSound, ReadSound
<1>3. CASE Fails(p) /\ UNCHANGED files
  <2>1. \E n \in Turns(c) : Goes(p, n)
    BY <1>3 DEF Fails, Ends, Turns, Passes
  <2> QED
    BY <1>1, <1>2, <1>3, <2>1, TurnsFiles DEF Fetching
<1>4. CASE ssh[p].chan # <<>> /\ Writes(Head(ssh[p].chan))
  <2>1. Head(ssh[p].chan) \in Blocks
    BY <1>4, SessionTyped
  <2> QED
    BY <1>1, <1>2, <1>4, <2>1, WritesFiles
<1>5. CASE conf.scheme # "ssh" /\ Writes(c.src[c.off + 1])
  <2>1. c.sz <= Len(c.src)
    BY <1>1, <1>2, <1>5 DEF Sensible
  <2>2. c.src \in Seq(Blocks) /\ c.off \in Nat /\ c.sz \in Int
    BY <1>2 DEF Commands
  <2>3. c.src[c.off + 1] \in Blocks
    BY <1>1, <2>1, <2>2
  <2> QED
    BY <1>1, <1>2, <1>5, <2>3, WritesFiles
<1>6. \/ Fails(p) /\ UNCHANGED files
      \/ ssh[p].chan # <<>> /\ Writes(Head(ssh[p].chan))
      \/ conf.scheme # "ssh" /\ Writes(c.src[c.off + 1])
  BY DEF Read
<1> QED
  BY <1>3, <1>4, <1>5, <1>6

\* Whatever a process does.
LEMMA StepFiles ==
  ASSUME TypeOK, AllSound, Named, Verified, Next
  PROVE  FilesStep
<1>1. PICK p \in Proc : Acts(p)
  BY ConfTyped DEF Next, Acts
<1>2. CASE \E todo \in conf.programs : Start(p, todo)
  BY <1>2, StartFiles
<1>3. CASE Serve(p) \/ ServerDies(p)
  BY <1>3, ServesFiles DEF Serve, ServerDies, files
<1>4. CASE Kill(p) \/ Exit(p)
  BY <1>4, DiesFiles DEF Kill, Exit
<1>5. CASE Step(p) /\ ~Exit(p)
  BY <1>5, JobsFetchFiles, NextRequestFiles, TryFetchFiles, CreatFiles, TemporaryFiles,
     CloseFileFiles, CompareSizeFiles, CompareSumFiles, CreateSymlinkFiles, CleanUpFiles,
     StartSshFiles, AnswerFiles, AnswerLateFiles, ResolveFiles, FetchXGetFiles, ReadFiles,
     ReadEndsFiles DEF Step
<1> QED
  BY <1>1, <1>2, <1>3, <1>4, <1>5 DEF Acts

------------------------------------------------------------------------------
(* All of it                                                               *)

LEMMA Counted ==
  ASSUME TypeOK, Next
  PROVE  calls' \in Nat /\ faults' \in Nat
<1>0. calls \in Nat /\ faults \in Nat
  BY DEF TypeOK
<1>1. PICK p : Acts(p)
  BY DEF Next, Acts
<1>2. Fault => faults' \in Nat
  BY <1>0 DEF Fault
<1>3. ASSUME NEW todo, Start(p, todo) PROVE calls' = calls + 1 /\ faults' = faults
  BY <1>3 DEF Start
<1>4. CASE Step(p)
  <2>1. JobsFetch(p) => calls' = calls /\ faults' = faults
    BY DEF JobsFetch
  <2>2. NextRequest(p) => calls' = calls /\ faults' = faults
    BY DEF NextRequest
  <2>3. TryFetch(p) => calls' = calls /\ faults' = faults
    BY DEF TryFetch
  <2>4. Creat(p) => calls' = calls /\ faults' = faults
    BY DEF Creat
  <2>5. Temporary(p) => calls' = calls /\ faults' = faults
    BY DEF Temporary
  <2>6. CloseFile(p) => calls' = calls /\ faults' = faults
    BY DEF CloseFile
  <2>7. CompareSize(p) => calls' = calls /\ faults' = faults
    BY DEF CompareSize
  <2>8. CompareSum(p) => calls' = calls /\ faults' = faults
    BY DEF CompareSum
  <2>9. CreateSymlink(p) => calls' = calls /\ faults' = faults
    BY DEF CreateSymlink
  <2>10. CleanUp(p) => calls' = calls /\ faults' = faults
    BY DEF CleanUp
  <2>11. StartSsh(p) => calls' = calls /\ faults' = faults
    BY DEF StartSsh
  <2>12. Answer(p) => calls' = calls /\ faults' = faults
    BY DEF Answer
  <2>13. AnswerLate(p) => calls' = calls /\ (faults' = faults \/ Fault)
    BY DEF AnswerLate
  <2>14. Resolve(p) => calls' = calls /\ faults' = faults
    BY DEF Resolve
  <2>15. FetchXGet(p) => calls' = calls /\ faults' = faults
    BY DEF FetchXGet
  <2>16. Read(p) => calls' = calls /\ (faults' = faults \/ Fault)
    BY DEF Read
  <2>17. ReadLate(p) => calls' = calls /\ (faults' = faults \/ Fault)
    BY DEF ReadLate
  <2>18. ReadAll(p) => calls' = calls /\ faults' = faults
    BY DEF ReadAll
  <2>19. Exit(p) => calls' = calls /\ faults' = faults
    BY DEF Exit
  <2> QED
    BY <1>0, <1>2, <1>4, <2>1, <2>2, <2>3, <2>4, <2>5, <2>6, <2>7, <2>8, <2>9, <2>10,
       <2>11, <2>12, <2>13, <2>14, <2>15, <2>16, <2>17, <2>18, <2>19 DEF Step
<1>5. Serve(p) => calls' = calls /\ faults' = faults
  BY DEF Serve
<1>6. ServerDies(p) \/ Kill(p) => calls' = calls /\ Fault
  BY DEF ServerDies, Kill
<1>7. calls + 1 \in Nat
  BY <1>0
<1> QED
  BY <1>0, <1>1, <1>2, <1>3, <1>4, <1>5, <1>6, <1>7 DEF Acts

\* What holds of every state: the types, what each command holds at its place,
\* where its session stands, and the cache.
IInv == TypeOK /\ AllSound /\ AllInStep /\ Named /\ Verified

LEMMA LeftBehindTyped ==
  ASSUME NEW r \in Package
  PROVE  /\ (CHOOSE i \in Inode : TRUE) \in Inode
         /\ \A c \in LeftBehind(r) : c \in Seq(Blocks \cup {Hole})
<1>1. Inode # {}
  <2>1. /\ Cardinality(Proc) \in Nat /\ Cardinality(Package) \in Nat
        /\ Cardinality(Package) # 0 /\ (Inode = {} => Cardinality(Inode) = 0)
    BY FS_CardinalityType, FS_EmptySet, FetchAssumption
  <2> QED
    BY <2>1, FetchAssumption
<1>2. Catalogue(r) \in Seq(Blocks) /\ Content(r, "other") \in Seq(Blocks)
  BY ServedTyped DEF Request, Served
<1>3. \A c \in Seq(Blocks) : c \in Seq(Blocks \cup {Hole})
  OBVIOUS
<1>4. <<>> \in Seq(Blocks)
  OBVIOUS
<1> QED
  BY <1>1, <1>2, <1>3, <1>4 DEF LeftBehind

LEMMA InitHolds == Init => IInv
<1> SUFFICES ASSUME Init PROVE IInv
  OBVIOUS
<1>1. /\ conf \in Confs /\ zone \in Zones \cup {<<>>}
      /\ call = [p \in Proc |-> Idle] /\ ssh = [p \in Proc |-> NoSession]
      /\ touched = [p \in Proc |-> {}] /\ calls = 0 /\ faults = 0
  BY DEF Init
<1>2. \A p \in Proc : call[p] = Idle /\ ssh[p] = NoSession
  BY <1>1
<1>3. Idle \in Commands /\ Sound(Idle) /\ NoSession \in Sessions /\ InStep(Idle, NoSession)
  BY <1>1, IdleSound, NoSessionInStep
<1>4. Idle.fd = None /\ Idle.got = {} /\ Idle.pc = "idle"
  BY DEF Idle
<1>5. /\ cache \in [Package -> Inode \cup {None}]
      /\ data \in [Inode -> Seq(Blocks \cup {Hole})]
      /\ \A r, s \in Package : cache[r] # None /\ cache[s] # None => r = s
  <2>1. CASE cache = [r \in Package |-> None] /\ data = [i \in Inode |-> <<>>]
    <3>1. <<>> \in Seq(Blocks \cup {Hole})
      OBVIOUS
    <3> QED
      BY <2>1, <3>1
  <2>2. CASE \E r \in Package, i \in {CHOOSE i \in Inode : TRUE} : \E c \in LeftBehind(r) :
                /\ cache = [s \in Package |-> IF s = r THEN i ELSE None]
                /\ data = [j \in Inode |-> IF j = i THEN c ELSE <<>>]
    <3>1. PICK r \in Package, i \in {CHOOSE i \in Inode : TRUE} : \E c \in LeftBehind(r) :
                /\ cache = [s \in Package |-> IF s = r THEN i ELSE None]
                /\ data = [j \in Inode |-> IF j = i THEN c ELSE <<>>]
      BY <2>2
    <3>2. PICK c \in LeftBehind(r) :
                /\ cache = [s \in Package |-> IF s = r THEN i ELSE None]
                /\ data = [j \in Inode |-> IF j = i THEN c ELSE <<>>]
      BY <3>1
    <3>3. i \in Inode /\ c \in Seq(Blocks \cup {Hole}) /\ <<>> \in Seq(Blocks \cup {Hole})
      BY LeftBehindTyped
    <3> QED
      BY <3>2, <3>3
  <2> QED
    BY <2>1, <2>2 DEF Init
<1>6. TypeOK
  <2>1. CallType /\ SshType /\ ConfType
    BY <1>1, <1>3 DEF CallType, SshType, ConfType
  <2>2. FilesType
    BY <1>1, <1>5 DEF FilesType
  <2> QED
    BY <1>1, <2>1, <2>2 DEF TypeOK
<1>7. AllSound
  BY <1>2, <1>3 DEF AllSound, AllSensible, AllWalked, Sound
<1>8. AllInStep
  BY <1>2, <1>3 DEF AllInStep
<1>9. Named
  BY <1>2, <1>4, <1>5 DEF Named
<1>10. Verified
  BY <1>2, <1>4 DEF Verified, FetchedIsVerified, Compared, Spared, At, Fetching
<1> QED
  BY <1>6, <1>7, <1>8, <1>9, <1>10 DEF IInv

LEMMA StepHolds == IInv /\ [Next]_vars => IInv'
<1> SUFFICES ASSUME IInv, [Next]_vars PROVE IInv'
  OBVIOUS
<1>0. TypeOK /\ AllSound /\ AllInStep /\ Named /\ Verified
  BY DEF IInv
<1>1. CASE Next
  <2>1. CallType' /\ AllSound' /\ ConfType'
    BY <1>0, <1>1, SoundKept
  <2>2. SshType' /\ AllInStep'
    BY <1>0, <1>1, InStepKept
  <2>3. FilesType' /\ Named' /\ Verified'
    BY <1>0, <1>1, StepFiles DEF FilesStep
  <2>4. calls' \in Nat /\ faults' \in Nat
    BY <1>0, <1>1, Counted
  <2> QED
    BY <2>1, <2>2, <2>3, <2>4 DEF IInv, TypeOK
<1>2. CASE UNCHANGED vars
  <2>1. /\ conf' = conf /\ zone' = zone /\ call' = call /\ ssh' = ssh /\ cache' = cache
        /\ data' = data /\ touched' = touched /\ calls' = calls /\ faults' = faults
    BY <1>2 DEF vars
  <2>2. TypeOK'
    BY <1>0, <2>1 DEF TypeOK, CallType, SshType, ConfType, FilesType
  <2>3. AllSound'
    BY <1>0, <2>1 DEF AllSound, AllSensible, AllWalked, Sensible, Walked, Reached
  <2>4. AllInStep'
    BY <1>0, <2>1 DEF AllInStep, InStep
  <2>5. Named'
    BY <1>0, <2>1 DEF Named, Req
  <2>6. Verified'
    BY <1>0, <2>1 DEF Verified, FetchedIsVerified, Compared, Spared, At, Req, Cached
  <2> QED
    BY <2>2, <2>3, <2>4, <2>5, <2>6 DEF IInv
<1> QED
  BY <1>1, <1>2

LEMMA Inductive == Spec => []IInv
BY InitHolds, StepHolds, PTL DEF Spec

\* The commands, their descriptors and sessions, the cache directory and its
\* files are what pkg_fetch_file_to_fd, pkg_repo_binary_try_fetch and the ssh
\* client take them for, in every state of any number of pkg commands.
THEOREM TypeCorrect == Spec => []TypeOK
<1>1. IInv => TypeOK
  BY DEF IInv
<1> QED
  BY <1>1, Inductive, PTL

\* What pkg_repo_binary_try_fetch returned EPKG_OK for stays in the cache as the
\* catalogue describes it, whatever mirrors, servers, sessions and the command
\* itself do afterwards, unless another process worked on the file after its
\* checksum was compared.
THEOREM FetchedVerified == Spec => []FetchedIsVerified
<1>1. IInv => FetchedIsVerified
  BY DEF IInv, Verified
<1> QED
  BY <1>1, Inductive, PTL

\* start_ssh takes the answer to its own request for an answer, however many
\* files it fetched through the session before, while no read of the session
\* came too late and no write failed.
THEOREM AnswersBelong == Spec => []AnswersMatch
<1>1. ASSUME IInv PROVE AnswersMatch
  <2>1. TypeOK /\ AllInStep
    BY <1>1 DEF IInv
  <2>2. ASSUME NEW p \in Proc, At(p) = "answer", ssh[p].chan # <<>>, ~ssh[p].spoiled
        PROVE  Head(ssh[p].chan).of = Req(p)
    <3>1. InStep(call[p], ssh[p]) /\ call[p].pc = "answer"
      BY <2>1, <2>2 DEF AllInStep, At
    <3>2. IsReply(ssh[p].chan, Req(p))
      BY <2>2, <3>1 DEF InStep, Req
    <3>3. ssh[p].chan \in Seq(Blocks)
      BY <2>1, SessionTyped
    <3>4. Head(ssh[p].chan) = ssh[p].chan[1] /\ 1 \in 1 .. Len(ssh[p].chan)
      BY <2>2, <3>3
    <3> QED
      BY <3>2, <3>4 DEF IsReply
  <2> QED
    BY <2>2 DEF AnswersMatch
<1> QED
  BY <1>1, Inductive, PTL

LEMMA SmallerOf ==
  ASSUME NEW m \in Nat, NEW n \in Nat
  PROVE  Min({m, n}) = (IF m <= n THEN m ELSE n)
<1> DEFINE l == IF m <= n THEN m ELSE n
<1>1. l \in {m, n} /\ \A y \in {m, n} : l <= y
  OBVIOUS
<1>2. \A x \in {m, n} : (\A y \in {m, n} : x <= y) => x = l
  OBVIOUS
<1> HIDE DEF l
<1>3. Min({m, n}) = l
  BY <1>1, <1>2 DEF Min
<1> QED
  BY <1>3 DEF l

\* A download of fetch.c that gives up has failed at as many mirrors as it had
\* tries or the list had mirrors: all records of SRV, the first two of HTTP, for
\* a list of any length and any FETCH_RETRY.
THEOREM MirrorsUsed == Spec => []MirrorsTried
<1>1. ASSUME IInv PROVE MirrorsTried
  <2>0. TypeOK /\ AllSound
    BY <1>1 DEF IInv
  <2>1. ASSUME NEW p \in Proc, call[p].rc = "gaveup"
        PROVE  LET n == Len(call[p].order)
                   most == IF conf.mirror_type = "HTTP" THEN Min({n, 2}) ELSE n
               IN  call[p].tried = 1 .. Max({1, Min({conf.FETCH_RETRY, most})})
    <3> DEFINE c == call[p]
               n == Len(c.order)
               retry == conf.FETCH_RETRY
               most == IF conf.mirror_type = "HTTP" THEN Min({n, 2}) ELSE n
               tries == IF retry = 0 THEN 1 ELSE Least(retry, Reached(c))
    <3>1. c \in Commands /\ Walked(c)
      BY <2>0, CommandSound
    <3>2. retry \in Nat /\ conf.mirror_type \in {"SRV", "HTTP", "NOMIRROR"}
      BY <2>0, ConfTyped
    <3>3. n \in Nat /\ (n = 0 <=> c.order = <<>>)
      BY <3>1 DEF Commands
    <3>4. c.tried = 1 .. tries
      BY <2>1, <3>1 DEF Walked
    <3>5. conf.mirror_type = "NOMIRROR" => n = 0
      BY <3>1, <3>3 DEF Walked
    <3>6. Reached(c) = IF n = 0 THEN 1 ELSE IF conf.mirror_type = "SRV" THEN n
                         ELSE IF n < 2 THEN 1 ELSE 2
      BY <3>3 DEF Reached
    <3>7. most = IF conf.mirror_type = "HTTP" THEN (IF n <= 2 THEN n ELSE 2) ELSE n
      BY <3>3, SmallerOf
    <3> HIDE DEF n, retry, most
    <3>8. most \in Nat
      BY <3>3, <3>7
    <3>9. Min({retry, most}) = IF retry <= most THEN retry ELSE most
      BY <3>2, <3>8, SmallerOf
    <3>10. Max({1, Min({retry, most})}) =
             IF 1 >= Min({retry, most}) THEN 1 ELSE Min({retry, most})
      BY <3>2, <3>8, <3>9, LargerOf
    <3>11. tries = Max({1, Min({retry, most})})
      BY <3>2, <3>3, <3>5, <3>6, <3>7, <3>8, <3>9, <3>10 DEF Least
    <3> QED
      BY <3>4, <3>11 DEF n, retry, most
  <2> QED
    BY <2>1 DEF MirrorsTried
<1> QED
  BY <1>1, Inductive, PTL
=============================================================================
