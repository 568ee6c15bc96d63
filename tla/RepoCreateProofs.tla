------------------------- MODULE RepoCreateProofs --------------------------
(***************************************************************************)
(* Proofs about RepoCreate, for any package files, any number of workers,  *)
(* runs, failures and kills, and any room in the sockets.                  *)
(***************************************************************************)
EXTENDS RepoCreate, SequenceTheorems, FiniteSetTheorems, WellFoundedInduction,
        TLAPS

---------------------------------------------------------------------------
(* Sequences of packages and of messages.                                  *)

Message == Digest \cup {EndMark}

\* p is in the sequence s.
In(s, p) == \E i \in 1..Len(s) : s[i] = p

\* No two places of s have the same element.
Distinct(s) == \A i, j \in 1..Len(s) : s[i] = s[j] => i = j

\* A message of s is the digest of p.
Tells(s, p) == \E i \in 1..Len(s) : s[i] # EndMark /\ s[i].package = p

\* The digests of s are of different packages.
TellsOnce(s) ==
    \A i, j \in 1..Len(s) :
        s[i] # EndMark /\ s[j] # EndMark /\ s[i].package = s[j].package => i = j

\* The end mark is not a digest.
LEMMA EndMarkIsNoDigest == EndMark \notin Digest
<1>1. DOMAIN EndMark = {"package"}
  BY DEF EndMark
<1>2. \A d \in Digest : "position" \in DOMAIN d
  BY DEF Digest
<1> QED
  BY <1>1, <1>2

\* An element of a sequence that has a head is the head or in the tail.
LEMMA InTail ==
    ASSUME NEW S, NEW s \in Seq(S), s # <<>>, NEW p
    PROVE  In(s, p) <=> p = Head(s) \/ In(Tail(s), p)
<1> USE DEF In
<1>1. /\ Head(s) = s[1] /\ Len(s) \in Nat \ {0} /\ Len(Tail(s)) = Len(s) - 1
      /\ \A i \in 1..Len(Tail(s)) : Tail(s)[i] = s[i + 1]
  BY HeadTailProperties, EmptySeq
<1>2. ASSUME NEW i \in 1..Len(s), s[i] = p PROVE p = Head(s) \/ In(Tail(s), p)
  <2>1. CASE i = 1
    BY <1>1, <1>2, <2>1
  <2>2. CASE i # 1
    <3>1. i - 1 \in 1..Len(Tail(s)) /\ Tail(s)[i - 1] = s[i]
      BY <1>1, <2>2
    <3> QED
      BY <1>2, <3>1
  <2> QED
    BY <2>1, <2>2
<1>3. ASSUME NEW i \in 1..Len(Tail(s)), Tail(s)[i] = p PROVE In(s, p)
  <2>1. i + 1 \in 1..Len(s) /\ s[i + 1] = p
    BY <1>1, <1>3
  <2> QED
    BY <2>1
<1>4. p = Head(s) => In(s, p)
  BY <1>1
<1> QED
  BY <1>2, <1>3, <1>4

\* In the tail of a sequence without repetition the head is not found again.
LEMMA DistinctTail ==
    ASSUME NEW S, NEW s \in Seq(S), s # <<>>, Distinct(s)
    PROVE  Distinct(Tail(s)) /\ ~In(Tail(s), Head(s))
<1>1. /\ Head(s) = s[1] /\ Len(s) \in Nat \ {0} /\ Len(Tail(s)) = Len(s) - 1
      /\ \A i \in 1..Len(Tail(s)) : Tail(s)[i] = s[i + 1]
  BY HeadTailProperties, EmptySeq
<1>2. ASSUME NEW i \in 1..Len(Tail(s)), NEW j \in 1..Len(Tail(s)),
             Tail(s)[i] = Tail(s)[j]
      PROVE  i = j
  <2>1. i + 1 \in 1..Len(s) /\ j + 1 \in 1..Len(s) /\ s[i + 1] = s[j + 1]
    BY <1>1, <1>2
  <2>2. i + 1 = j + 1
    BY <2>1 DEF Distinct
  <2> QED
    BY <2>2
<1>3. ASSUME NEW i \in 1..Len(Tail(s)), Tail(s)[i] = Head(s) PROVE FALSE
  <2>1. i + 1 \in 1..Len(s) /\ 1 \in 1..Len(s) /\ s[i + 1] = s[1] /\ i + 1 # 1
    BY <1>1, <1>3
  <2> QED
    BY <2>1 DEF Distinct
<1> QED
  BY <1>2, <1>3 DEF Distinct, In

\* A sequence cut in two.
LEMMA InParts ==
    ASSUME NEW S, NEW s \in Seq(S), NEW n \in 0..Len(s), NEW p
    PROVE  In(s, p) <=> \/ In(SubSeq(s, 1, n), p)
                        \/ In(SubSeq(s, n + 1, Len(s)), p)
<1>1. /\ Len(s) \in Nat /\ Len(SubSeq(s, 1, n)) = n
      /\ \A i \in 1..n : SubSeq(s, 1, n)[i] = s[i]
      /\ Len(SubSeq(s, n + 1, Len(s))) = Len(s) - n
      /\ \A i \in 1..(Len(s) - n) : SubSeq(s, n + 1, Len(s))[i] = s[n + i]
  OBVIOUS
<1>2. ASSUME NEW i \in 1..Len(s), s[i] = p
      PROVE  In(SubSeq(s, 1, n), p) \/ In(SubSeq(s, n + 1, Len(s)), p)
  <2>1. CASE i <= n
    BY <1>1, <1>2, <2>1 DEF In
  <2>2. CASE i > n
    <3>1. i - n \in 1..(Len(s) - n) /\ n + (i - n) = i
      BY <1>1, <2>2
    <3> QED
      BY <1>1, <1>2, <3>1 DEF In
  <2> QED
    BY <1>1, <2>1, <2>2
<1>3. In(SubSeq(s, 1, n), p) => In(s, p)
  BY <1>1 DEF In
<1>4. ASSUME NEW i \in 1..(Len(s) - n), SubSeq(s, n + 1, Len(s))[i] = p
      PROVE  In(s, p)
  <2>1. n + i \in 1..Len(s) /\ s[n + i] = p
    BY <1>1, <1>4
  <2> QED
    BY <2>1 DEF In
<1> QED
  BY <1>1, <1>2, <1>3, <1>4 DEF In

\* The parts of a sequence without repetition have nothing in common.
LEMMA DistinctParts ==
    ASSUME NEW S, NEW s \in Seq(S), NEW n \in 0..Len(s), Distinct(s)
    PROVE  /\ Distinct(SubSeq(s, 1, n)) /\ Distinct(SubSeq(s, n + 1, Len(s)))
           /\ \A p : ~(/\ In(SubSeq(s, 1, n), p)
                       /\ In(SubSeq(s, n + 1, Len(s)), p))
<1>1. /\ Len(s) \in Nat /\ Len(SubSeq(s, 1, n)) = n
      /\ \A i \in 1..n : SubSeq(s, 1, n)[i] = s[i] /\ i \in 1..Len(s)
      /\ Len(SubSeq(s, n + 1, Len(s))) = Len(s) - n
      /\ \A i \in 1..(Len(s) - n) :
            SubSeq(s, n + 1, Len(s))[i] = s[n + i] /\ n + i \in 1..Len(s)
  OBVIOUS
<1>2. Distinct(SubSeq(s, 1, n))
  BY <1>1 DEF Distinct
<1>3. ASSUME NEW i \in 1..(Len(s) - n), NEW j \in 1..(Len(s) - n),
             s[n + i] = s[n + j]
      PROVE  i = j
  <2>1. n + i = n + j
    BY <1>1, <1>3 DEF Distinct
  <2> QED
    BY <2>1
<1>4. Distinct(SubSeq(s, n + 1, Len(s)))
  BY <1>1, <1>3 DEF Distinct
<1>5. ASSUME NEW i \in 1..n, NEW j \in 1..(Len(s) - n), s[i] = s[n + j]
      PROVE  FALSE
  <2>1. i = n + j
    BY <1>1, <1>5 DEF Distinct
  <2> QED
    BY <2>1
<1> QED
  BY <1>1, <1>2, <1>4, <1>5 DEF In

\* The messages of a socket when its first is taken...
LEMMA TellsTail ==
    ASSUME NEW s \in Seq(Message), s # <<>>
    PROVE  /\ \A p : Tells(s, p) <=> \/ Head(s) # EndMark /\ Head(s).package = p
                                     \/ Tells(Tail(s), p)
           /\ TellsOnce(s) =>
                 /\ TellsOnce(Tail(s))
                 /\ Head(s) # EndMark => ~Tells(Tail(s), Head(s).package)
<1>1. /\ Head(s) = s[1] /\ Len(s) \in Nat \ {0} /\ Len(Tail(s)) = Len(s) - 1
      /\ 1 \in 1..Len(s)
      /\ \A i \in 1..Len(Tail(s)) :
            Tail(s)[i] = s[i + 1] /\ i + 1 \in 1..Len(s) /\ i + 1 # 1
  BY HeadTailProperties, EmptySeq
<1>2. ASSUME NEW i \in 1..Len(s), i # 1
      PROVE  i - 1 \in 1..Len(Tail(s)) /\ Tail(s)[i - 1] = s[i]
  BY <1>1, <1>2
<1>3. \A p : Tells(s, p) <=> \/ Head(s) # EndMark /\ Head(s).package = p
                             \/ Tells(Tail(s), p)
  BY <1>1, <1>2 DEF Tells
<1>4. ASSUME TellsOnce(s) PROVE TellsOnce(Tail(s))
  <2> SUFFICES ASSUME NEW i \in 1..Len(Tail(s)), NEW j \in 1..Len(Tail(s)),
                      Tail(s)[i] # EndMark, Tail(s)[j] # EndMark,
                      Tail(s)[i].package = Tail(s)[j].package
               PROVE  i = j
    BY DEF TellsOnce
  <2>1. i + 1 = j + 1
    BY <1>1, <1>4 DEF TellsOnce
  <2> QED
    BY <2>1
<1>5. ASSUME TellsOnce(s), Head(s) # EndMark
      PROVE  ~Tells(Tail(s), Head(s).package)
  BY <1>1, <1>5 DEF TellsOnce, Tells
<1> QED
  BY <1>3, <1>4, <1>5

\* ... and when one is added.
LEMMA TellsAppend ==
    ASSUME NEW s \in Seq(Message), NEW m \in Message
    PROVE  /\ \A p : Tells(Append(s, m), p) <=>
                        Tells(s, p) \/ (m # EndMark /\ m.package = p)
           /\ TellsOnce(s) /\ (m # EndMark => ~Tells(s, m.package))
                => TellsOnce(Append(s, m))
<1>1. /\ Len(s) \in Nat /\ Len(Append(s, m)) = Len(s) + 1
      /\ \A i \in 1..Len(s) : Append(s, m)[i] = s[i]
      /\ Append(s, m)[Len(s) + 1] = m
  OBVIOUS
<1>2. 1..(Len(s) + 1) = 1..Len(s) \cup {Len(s) + 1}
  BY <1>1
<1>3. \A p : Tells(Append(s, m), p) <=>
                 Tells(s, p) \/ (m # EndMark /\ m.package = p)
  BY <1>1, <1>2, Zenon DEF Tells
<1>4. ASSUME TellsOnce(s), m # EndMark => ~Tells(s, m.package)
      PROVE  TellsOnce(Append(s, m))
  <2> DEFINE t == Append(s, m)
  <2> SUFFICES ASSUME NEW i \in 1..(Len(s) + 1), NEW j \in 1..(Len(s) + 1),
                      t[i] # EndMark, t[j] # EndMark,
                      t[i].package = t[j].package
               PROVE  i = j
    BY <1>1 DEF TellsOnce
  <2> HIDE DEF t
  <2>1. CASE i \in 1..Len(s) /\ j \in 1..Len(s)
    BY <1>1, <1>4, <2>1 DEF TellsOnce, t
  <2>2. CASE i = Len(s) + 1 /\ j \in 1..Len(s)
    BY <1>1, <1>4, <2>2 DEF Tells, t
  <2>3. CASE j = Len(s) + 1 /\ i \in 1..Len(s)
    BY <1>1, <1>4, <2>3 DEF Tells, t
  <2> QED
    BY <1>2, <2>1, <2>2, <2>3
<1> QED
  BY <1>3, <1>4

---------------------------------------------------------------------------
(* The invariants.                                                         *)

CreatePc == {"launch", "start", "poll", "wait"}
Working == {"flock", "write", "send"}
Gone == {"none", "exited"}
Steps == {"waiting", "open"} \cup Working \cup Gone

ParentType ==
    /\ filelist \in BOOLEAN /\ legacy \in BOOLEAN /\ spoiled \in BOOLEAN
    /\ pc \in {"idle", "pack"} \cup CreatePc
    /\ rest \in Seq(Packages) /\ remain \in Int /\ jobs \in Nat
    /\ fork \in Seq(Worker) /\ polled \in SUBSET Worker
    /\ dlist \in SUBSET Digest
    /\ step \in Nat /\ runs \in Nat /\ failures \in Nat
WorkType ==
    /\ wpc \in [Worker -> Steps]
    /\ share \in [Worker -> Seq(Packages)]
    /\ output \in [Worker -> Outputs]
    /\ pos \in [Worker -> [Outputs -> Nat]]
    /\ socket \in [Worker -> Seq(Message)]
FileType ==
    /\ lock \in [Outputs -> Worker \cup {NoWorker}]
    /\ lost \in [Outputs -> SUBSET Worker]
    /\ out \in [Outputs -> Seq(Packages)]
    /\ digests \in SUBSET Digest /\ meta \in BOOLEAN
ArchiveType ==
    /\ DOMAIN archive = Archives
    /\ \A a \in Archives :
          /\ archive[a].is \in {"absent", "packed", "broken"}
          /\ archive[a].has \in IF a = "digests" THEN SUBSET Digest
                                ELSE Seq(Packages)
    /\ mtime \in [Archives -> Nat]
    /\ whole \in BOOLEAN /\ last \in Nat

TypeInv == ParentType /\ WorkType /\ FileType /\ ArchiveType

\* What a worker has in hand where it is, and the file it is at.
Placed ==
    \A w \in Worker :
        /\ wpc[w] \in Working => share[w] # <<>>
        /\ wpc[w] \in Gone => share[w] = <<>>
        /\ wpc[w] \in {"waiting", "open"} => output[w] = "manifests"
        /\ wpc[w] = "flock" => output[w] = "files"
        /\ wpc[w] \in Working /\ output[w] = "files" => filelist
        /\ wpc[w] = "send" /\ output[w] = "manifests" => ~filelist

\* What the workers still to be forked get is what is left of the packages.
Left == NumWorkers - Len(fork)
Split ==
    /\ pc = "launch" =>
          /\ Left >= 1 /\ remain < Left
          /\ Len(rest) = Left * TasksPerWorker + (IF remain > 0 THEN remain ELSE 0)
          /\ jobs = ShareOf(remain)
    /\ pc \notin {"launch", "idle"} => rest = <<>>
    /\ pc = "start" => step \in 1..Len(fork)
    /\ pc = "pack" => step \in 1..(Len(Order) + 1) /\ polled = {}
    /\ pc = "idle" => fork = <<>>

\* The workers of this run: those the parent reads no more have ended and sent
\* all they had; an end mark is the last message.
Family ==
    /\ polled \subseteq Mine
    /\ pc \in {"launch", "start"} => \A w \in Mine : wpc[w] # "none"
    /\ \A w \in Mine \ polled : socket[w] = <<>> /\ wpc[w] \in Gone
    /\ \A w \in Mine : \A i \in 1..Len(socket[w]) :
          socket[w][i] = EndMark => i = Len(socket[w]) /\ wpc[w] \in Gone
    /\ \A w \in Mine, o \in Outputs : w \notin lost[o]

Shape == TypeInv /\ Placed /\ Split /\ Family

\* Who appends to an output has its lock.
Locked ==
    \A w \in Worker :
        wpc[w] = "write" /\ w \notin lost[output[w]] => lock[output[w]] = w

\* Package p is at position n of the output o.
At(o, n, p) == n < Len(out[o]) /\ out[o][n + 1] = p

\* The positions a worker has noted, or sent, are those of its package.
Noted(w) ==
    /\ wpc[w] = "write" => pos[w][output[w]] = Len(out[output[w]])
    /\ wpc[w] \in {"flock", "write"} /\ output[w] = "files" =>
          At("manifests", pos[w]["manifests"], Head(share[w]))
    /\ wpc[w] = "send" =>
          \A o \in Outputs : Wanted(o) => At(o, pos[w][o], Head(share[w]))
Carried(w) ==
    \A i \in 1..Len(socket[w]) : socket[w][i] # EndMark =>
        \A o \in Outputs : Wanted(o) =>
            At(o, socket[w][i].position[o], socket[w][i].package)
Pointing ==
    pc \in CreatePc =>
        /\ \A d \in dlist, o \in Outputs :
              Wanted(o) => At(o, d.position[o], d.package)
        /\ \A w \in Mine : Noted(w) /\ Carried(w)

\* While the outputs are packed, the digests fit each of them, where it is.
Packed(a) == \E i \in 1..(step - 1) : i <= Len(Order) /\ Order[i] = a
Lines(o) == IF Packed(o) THEN archive[o].has ELSE out[o]
Digests == IF Packed("digests") THEN archive["digests"].has ELSE digests
Fitting ==
    pc = "pack" => \A o \in Outputs : Wanted(o) => Points(Digests, o, Lines(o))

Agreeing == Shape /\ Locked /\ Pointing /\ Fitting /\ ArchivesAgree

\* Every package of the directory is somewhere: with the parent, in its list,
\* or with a worker...
Listed(p) == \E d \in dlist : d.package = p
With(w, p) == In(share[w], p) \/ Tells(socket[w], p)
Accounted ==
    pc # "idle" /\ ~spoiled =>
        \A p \in Packages :
            In(rest, p) \/ Listed(p) \/ \E w \in Mine : With(w, p)

\* ... and nowhere twice.
Own(w) ==
    /\ Distinct(share[w]) /\ TellsOnce(socket[w])
    /\ \A p \in Packages : ~(In(share[w], p) /\ Tells(socket[w], p))
Once ==
    /\ Distinct(rest)
    /\ \A d, e \in dlist : d.package = e.package => d = e
    /\ \A w \in Mine : Own(w)
    /\ \A p \in Packages : ~(In(rest, p) /\ Listed(p))
    /\ \A w \in Mine, p \in Packages :
          With(w, p) => ~In(rest, p) /\ ~Listed(p)
    /\ \A v, w \in Mine : v # w =>
          \A p \in Packages : ~(With(v, p) /\ With(w, p))

---------------------------------------------------------------------------
(* Facts about the constants and the operators of the parent.              *)

\* The packages are split among at least one worker, with at least one each.
LEMMA Numbers ==
    /\ Files \in Seq(Packages) /\ Len(Files) \in Nat \ {0}
    /\ NumWorkers \in Nat \ {0} /\ TasksPerWorker \in Nat \ {0}
    /\ Len(Files) % NumWorkers \in 0..(NumWorkers - 1)
    /\ Len(Files) % NumWorkers = Len(Files) - NumWorkers * TasksPerWorker
<1>1. Files \in Seq(Packages) /\ Len(Files) \in Nat \ {0}
  BY CreateAssumption DEF Packages
<1>2. NumWorkers \in Nat \ {0} /\ NumWorkers <= Len(Files)
  BY <1>1, CreateAssumption DEF NumWorkers
<1> DEFINE n == Len(Files)
           k == NumWorkers
<1>3. ASSUME NEW a \in Nat \ {0}, NEW b \in Nat \ {0}, b <= a
      PROVE  /\ a \div b \in Nat \ {0} /\ a % b \in 0..(b - 1)
             /\ a % b = a - b * (a \div b)
  <2>1. a \div b \in Int /\ b * (a \div b) \in Int
    BY <1>3
  <2>2. a % b = a - b * (a \div b) /\ a % b \in 0..(b - 1)
    BY <1>3
  <2>4. a \div b # 0
    <3>1. CASE a \div b = 0
      BY <1>3, <2>2, <3>1
    <3> QED
      BY <3>1
  <2>5. a \div b \in Nat
    BY <1>3
  <2> QED
    BY <2>2, <2>4, <2>5
<1> QED
  BY <1>1, <1>2, <1>3 DEF TasksPerWorker

\* Tuples put together from smaller ones.
LEMMA Pair == ASSUME NEW a, NEW b PROVE <<a>> \o <<b>> = <<a, b>>
<1> DEFINE s == Append(<<a>>, b)
           t == <<a, b>>
<1>1. s \in Seq({a, b}) /\ t \in Seq({a, b}) /\ Len(s) = 2 /\ Len(t) = 2
  OBVIOUS
<1>2. \A i \in 1..2 : s[i] = t[i]
  OBVIOUS
<1>3. s = <<a>> \o <<b>>
  <2>1. <<a>> \in Seq({a, b}) /\ b \in {a, b}
    OBVIOUS
  <2> QED
    BY <2>1, AppendIsConcat
<1> HIDE DEF s, t
<1>4. s = t
  BY <1>1, <1>2, SeqEqual
<1> QED
  BY <1>3, <1>4 DEF t

\* Three sequences of one element...
LEMMA Triple ==
    ASSUME NEW a, NEW b, NEW c PROVE <<a, b>> \o <<c>> = <<a, b, c>>
<1> DEFINE s == Append(<<a, b>>, c)
           t == <<a, b, c>>
<1>1. s \in Seq({a, b, c}) /\ t \in Seq({a, b, c}) /\ Len(s) = 3 /\ Len(t) = 3
  OBVIOUS
<1>2. \A i \in 1..3 : s[i] = t[i]
  OBVIOUS
<1>3. s = <<a, b>> \o <<c>>
  <2>1. <<a, b>> \in Seq({a, b, c}) /\ c \in {a, b, c}
    OBVIOUS
  <2> QED
    BY <2>1, AppendIsConcat
<1> HIDE DEF s, t
<1>4. s = t
  BY <1>1, <1>2, SeqEqual
<1> QED
  BY <1>3, <1>4 DEF t

\* ... and four.
LEMMA Quadruple ==
    ASSUME NEW a, NEW b, NEW c, NEW d
    PROVE  <<a, b, c>> \o <<d>> = <<a, b, c, d>>
<1> DEFINE s == Append(<<a, b, c>>, d)
           t == <<a, b, c, d>>
           S == {a, b, c, d}
<1>1. s \in Seq(S) /\ t \in Seq(S) /\ Len(s) = 4 /\ Len(t) = 4
  OBVIOUS
<1>2. \A i \in 1..4 : s[i] = t[i]
  OBVIOUS
<1>3. s = <<a, b, c>> \o <<d>>
  <2>1. <<a, b, c>> \in Seq(S) /\ d \in S
    OBVIOUS
  <2> QED
    BY <2>1, AppendIsConcat
<1> HIDE DEF s, t
<1>4. s = t
  BY <1>1, <1>2, SeqEqual
<1> QED
  BY <1>3, <1>4 DEF t

\* The archives in the order they are packed.
LEMMA OrderIs ==
    ASSUME legacy \in BOOLEAN, filelist \in BOOLEAN
    PROVE  Order = IF legacy
                   THEN IF filelist THEN <<"manifests", "files", "digests">>
                                    ELSE <<"manifests", "digests">>
                   ELSE IF filelist
                        THEN <<"meta", "manifests", "files", "digests">>
                        ELSE <<"meta", "manifests", "digests">>
<1> DEFINE m == <<"manifests">>
           i == <<"meta", "manifests">>
<1>1. m \in Seq(Archives)
  BY DEF Archives, Outputs
<1>2. i \in Seq(Archives)
  BY DEF Archives, Outputs
<1>3. <<>> \o m = m /\ m \o <<>> = m /\ i \o <<>> = i
  BY <1>1, <1>2, ConcatEmptySeq
<1>4. CASE legacy /\ filelist
  BY <1>3, <1>4, Pair, Triple, Zenon DEF Order
<1>5. CASE legacy /\ ~filelist
  BY <1>3, <1>5, Pair, Triple, Zenon DEF Order
<1>6. CASE ~legacy /\ filelist
  <2>1. <<"meta">> \o m = i /\ i \o <<"files">> = <<"meta", "manifests", "files">>
    BY Pair, Triple, Zenon
  <2>2. <<"meta", "manifests", "files">> \o <<"digests">>
          = <<"meta", "manifests", "files", "digests">>
    BY Quadruple, Zenon
  <2> QED
    BY <1>6, <2>1, <2>2, Zenon DEF Order
<1>7. CASE ~legacy /\ ~filelist
  BY <1>3, <1>7, Pair, Triple, Zenon DEF Order
<1> QED
  BY <1>4, <1>5, <1>6, <1>7

\* There are finitely many archives to pack.
LEMMA OrderLength ==
    legacy \in BOOLEAN /\ filelist \in BOOLEAN => Len(Order) \in Nat
  BY OrderIs

\* No archive is packed twice, all that are wanted are, the digests last.
LEMMA OrderDistinct ==
    ASSUME legacy \in BOOLEAN, filelist \in BOOLEAN
    PROVE  /\ \A i, j \in 1..Len(Order) : Order[i] = Order[j] => i = j
           /\ \A o \in Outputs : Wanted(o) => \E i \in 1..Len(Order) : Order[i] = o
           /\ Len(Order) \in 1..4 /\ Order[Len(Order)] = "digests"
<1> USE DEF Wanted, Outputs
<1>1. CASE Order = <<"manifests", "files", "digests">> /\ filelist
  BY <1>1
<1>2. CASE Order = <<"manifests", "digests">> /\ ~filelist
  BY <1>2
<1>3. CASE Order = <<"meta", "manifests", "files", "digests">> /\ filelist
  BY <1>3
<1>4. CASE Order = <<"meta", "manifests", "digests">> /\ ~filelist
  BY <1>4
<1> QED
  BY <1>1, <1>2, <1>3, <1>4, OrderIs

\* There is a first among the free process ids.
LEMMA FirstFree ==
    ASSUME NEW S, S \subseteq Worker, S # {}
    PROVE  Min(S) \in S
<1>1. Worker \subseteq Nat
  BY CreateAssumption DEF Worker
<1>2. \E x \in S : \A y \in S : ~(<<y, x>> \in OpToRel(<, Nat))
  BY <1>1, NatLessThanWellFounded, WFMin, Zenon
<1>3. \E x \in S : \A y \in S : x =< y
  <2>1. PICK x \in S : \A y \in S : <<y, x>> \notin OpToRel(<, Nat)
    BY <1>2, Zenon
  <2>2. ASSUME NEW y \in S PROVE x =< y
    <3>1. <<y, x>> \notin {ss \in Nat \X Nat : ss[1] < ss[2]}
      BY <2>1, Zenon DEF OpToRel
    <3> QED
      BY <1>1, <3>1
  <2> QED
    BY <2>2
<1> QED
  BY <1>3 DEF Min

\* Launch forks one of the free workers.
LEMMA LaunchForks ==
    ASSUME Launch
    PROVE  \E w \in Worker : wpc[w] = "none" /\ Fork(w)
<1> DEFINE S == {v \in Worker : wpc[v] = "none"}
<1>1. S \subseteq Worker /\ S # {}
  BY DEF Launch
<1>2. Min(S) \in S
  BY <1>1, FirstFree
<1>3. Fork(Min(S))
  BY DEF Launch
<1> QED
  BY <1>2, <1>3, Zenon

\* The steps of the processes, one by one.
ParentDoes ==
    \/ Begin \/ BeginFailed \/ LaunchFailed \/ PollFailed \/ PackFailed \/ Kill
    \/ Launch \/ SendStart \/ Created \/ Pack \/ Finished
ReadDoes(w) == Receive(w) \/ ReceiveEnd(w) \/ Wait(w)
WorkerDoes(w) ==
    \/ Flock(w) \/ Write(w) \/ Send(w) \/ End(w)
    \/ Skip(w) \/ WorkFailed(w) \/ KillWorker(w)

\* Each step is one of the parent, or of it and a worker, or of a worker.
LEMMA NextIs ==
    Next <=> ParentDoes \/ \E w \in Worker : ReadDoes(w) \/ WorkerDoes(w)
  BY Zenon DEF Next, ParentStep, WorkerStep, ParentDoes, ReadDoes, WorkerDoes

---------------------------------------------------------------------------
(* Types.                                                                  *)

\* Nothing is there at first.
LEMMA InitShape == Init => Shape
<1> SUFFICES ASSUME Init PROVE Shape
  OBVIOUS
<1>1. TypeInv
  <2>1. \A S : <<>> \in Seq(S)
    OBVIOUS
  <2>2. ParentType
    <3>1. /\ filelist \in BOOLEAN /\ legacy \in BOOLEAN /\ spoiled \in BOOLEAN
          /\ pc \in {"idle", "pack"} \cup CreatePc
          /\ polled \in SUBSET Worker /\ dlist \in SUBSET Digest
      BY Zenon DEF Init
    <3>2. /\ rest \in Seq(Packages) /\ remain \in Int /\ jobs \in Nat
          /\ fork \in Seq(Worker)
          /\ step \in Nat /\ runs \in Nat /\ failures \in Nat
      BY <2>1 DEF Init
    <3> QED
      BY <3>1, <3>2 DEF ParentType
  <2>3. WorkType
    BY <2>1 DEF WorkType, Init, Steps, Gone, Outputs, Start
  <2>4. FileType
    BY <2>1 DEF FileType, Init
  <2>5. ArchiveType
    BY <2>1 DEF ArchiveType, Init, Empty
  <2> QED
    BY <2>2, <2>3, <2>4, <2>5 DEF TypeInv
<1>2. Mine = {}
  BY DEF Init, Mine, Range
<1>3. Placed
  BY DEF Init, Placed, Working, Gone
<1>4. Split
  BY DEF Init, Split
<1>5. Family
  BY <1>2 DEF Init, Family
<1> QED
  BY <1>1, <1>3, <1>4, <1>5 DEF Shape

\* What a process that returns leaves is well typed.
LEMMA ReturnType ==
    ASSUME TypeInv, Return
    PROVE  /\ pc' = "idle" /\ rest' \in Seq(Packages) /\ remain' \in Int
           /\ jobs' \in Nat /\ fork' \in Seq(Worker) /\ polled' \in SUBSET Worker
           /\ step' \in Nat /\ legacy' \in BOOLEAN /\ WorkType'
           /\ lock' = lock
<1>1. wpc' \in [Worker -> Steps]
  BY DEF TypeInv, WorkType, Return, Steps, Gone
<1>2. <<>> \in Seq(Packages) /\ <<>> \in Seq(Worker)
  OBVIOUS
<1>3. /\ pc' = "idle" /\ rest' = <<>> /\ remain' = 0 /\ jobs' = 0 /\ fork' = <<>>
      /\ polled' = {} /\ step' = 0 /\ legacy' = FALSE /\ lock' = lock
      /\ share' = share /\ output' = output /\ pos' = pos /\ socket' = socket
  BY DEF Return
<1>4. WorkType'
  BY <1>1, <1>3 DEF TypeInv, WorkType
<1>5. /\ pc' = "idle" /\ remain' \in Int /\ jobs' \in Nat
      /\ step' \in Nat
  BY <1>3
<1>7. legacy' \in BOOLEAN /\ lock' = lock
  BY <1>3, Zenon
<1>6. rest' \in Seq(Packages) /\ fork' \in Seq(Worker) /\ polled' \in SUBSET Worker
  BY <1>2, <1>3
<1> QED
  BY <1>4, <1>5, <1>6, <1>7, Zenon

\* There are finitely many archives, so times are numbers.
LEMMA NowType == ASSUME ParentType PROVE Now \in Nat
<1> DEFINE A == {"meta"}
           B == A \cup {"digests"}
           C == B \cup {"manifests"}
<1>1. IsFiniteSet(A)
  BY FS_Singleton
<1>2. IsFiniteSet(B)
  BY <1>1, FS_AddElement
<1> HIDE DEF B
<1>3. IsFiniteSet(C)
  BY <1>2, FS_AddElement
<1> HIDE DEF C
<1>4. IsFiniteSet(C \cup {"files"})
  BY <1>3, FS_AddElement
<1>5. Archives = C \cup {"files"}
  BY DEF Archives, Outputs, A, B, C
<1>6. Cardinality(Archives) \in Nat
  BY <1>4, <1>5, FS_CardinalityType
<1> DEFINE n == Cardinality(Archives) + 1
<1>7. n \in Nat /\ runs \in Nat /\ step \in Nat
  BY <1>6 DEF ParentType
<1> HIDE DEF n
<1>8. runs * n \in Nat
  BY <1>7
<1>9. runs * n + step \in Nat
  BY <1>7, <1>8
<1> QED
  BY <1>9 DEF Now, n

\* Packing takes what is there.
LEMMA PackType ==
    ASSUME TypeInv, NEW a \in Archives, NEW k \in {"packed", "broken"}, NEW c,
           c \in IF a = "digests" THEN SUBSET Digest ELSE Seq(Packages),
           PackInto(a, k, c), last' = last
    PROVE  FileType' /\ ArchiveType'
<1>1. mtime' \in [Archives -> Nat]
  BY NowType DEF PackInto, TypeInv, ArchiveType
<1>2. FileType'
  <2>1. lock' \in [Outputs -> Worker \cup {NoWorker}]
    BY DEF PackInto, TypeInv, FileType
  <2>2. lost' \in [Outputs -> SUBSET Worker]
    BY DEF PackInto, TypeInv, FileType
  <2>3. out' \in [Outputs -> Seq(Packages)]
    BY DEF PackInto, TypeInv, FileType
  <2>4. digests' \in SUBSET Digest /\ meta' \in BOOLEAN
    BY DEF PackInto, TypeInv, FileType
  <2> QED
    BY <2>1, <2>2, <2>3, <2>4 DEF FileType
<1>3. /\ DOMAIN archive' = Archives
      /\ \A b \in Archives :
            archive'[b] = IF b = a THEN [is |-> k, has |-> c] ELSE archive[b]
  BY DEF PackInto, TypeInv, ArchiveType
<1>4. \A b \in Archives :
         /\ archive'[b].is \in {"absent", "packed", "broken"}
         /\ archive'[b].has \in IF b = "digests" THEN SUBSET Digest
                                ELSE Seq(Packages)
  <2> SUFFICES ASSUME NEW b \in Archives
               PROVE /\ archive'[b].is \in {"absent", "packed", "broken"}
                     /\ archive'[b].has \in IF b = "digests" THEN SUBSET Digest
                                            ELSE Seq(Packages)
    OBVIOUS
  <2>1. CASE b = a
    BY <1>3, <2>1
  <2>2. CASE b # a
    BY <1>3, <2>2 DEF TypeInv, ArchiveType
  <2> QED
    BY <2>1, <2>2
<1>5. whole' \in BOOLEAN /\ last' \in Nat
  BY DEF PackInto, TypeInv, ArchiveType
<1> QED
  BY <1>1, <1>2, <1>3, <1>4, <1>5 DEF ArchiveType

\* What is packed next.
LEMMA NextPacked ==
    ASSUME TypeInv, Split, Packing
    PROVE  /\ Order[step] \in Archives
           /\ Source(Order[step]) \in IF Order[step] = "digests"
                                      THEN SUBSET Digest ELSE Seq(Packages)
           /\ Empty(Order[step]) \in IF Order[step] = "digests"
                                     THEN SUBSET Digest ELSE Seq(Packages)
<1>1. Order[step] \in Archives
  <2>1. Order \in Seq(Archives) /\ step \in 1..Len(Order)
    <3>1. legacy \in BOOLEAN /\ filelist \in BOOLEAN /\ step \in Nat
      BY DEF TypeInv, ParentType
    <3>2. step \in 1..Len(Order)
      BY <3>1 DEF Split, Packing
    <3>3. /\ <<"manifests", "files", "digests">> \in Seq(Archives)
          /\ <<"manifests", "digests">> \in Seq(Archives)
      BY DEF Archives, Outputs
    <3>4. /\ <<"meta", "manifests", "files", "digests">> \in Seq(Archives)
          /\ <<"meta", "manifests", "digests">> \in Seq(Archives)
      BY DEF Archives, Outputs
    <3>5. Order \in Seq(Archives)
      BY <3>1, <3>3, <3>4, OrderIs, Zenon
    <3> QED
      BY <3>2, <3>5
  <2> QED
    BY <2>1
<1>2. <<>> \in Seq(Packages)
  OBVIOUS
<1>3. ASSUME NEW a \in Archives
      PROVE  /\ Source(a) \in IF a = "digests"
                              THEN SUBSET Digest ELSE Seq(Packages)
             /\ Empty(a) \in IF a = "digests"
                             THEN SUBSET Digest ELSE Seq(Packages)
  <2>1. CASE a \in Outputs
    <3>1. a # "digests" /\ out[a] \in Seq(Packages)
      BY <2>1 DEF Outputs, TypeInv, FileType
    <3> QED
      BY <1>2, <2>1, <3>1 DEF Source, Empty
  <2>2. CASE a = "digests"
    BY <2>2 DEF Source, Empty, TypeInv, FileType, Outputs
  <2>3. CASE a = "meta"
    BY <1>2, <2>3 DEF Source, Empty, Outputs
  <2> QED
    BY <2>1, <2>2, <2>3 DEF Archives
<1> QED
  BY <1>1, <1>3

\* The steps of the parent keep the types...
LEMMA ParentTypes == ASSUME Shape, ParentDoes PROVE TypeInv'
<1>0. TypeInv /\ ParentType /\ WorkType /\ FileType /\ ArchiveType
  BY DEF Shape, TypeInv
<1>1. CASE Begin
  <2>1. rest' \in Seq(Packages) /\ remain' \in Int /\ jobs' \in Nat
    <3>1. TasksPerWorker + 1 \in Nat /\ TasksPerWorker \in Nat
      BY Numbers
    <3> QED
      BY <1>1, <3>1, Numbers DEF Begin, ShareOf
  <2>2. fork' = <<>> /\ fork' \in Seq(Worker)
    BY <1>1 DEF Begin
  <2>3. runs' \in Nat /\ step' \in Nat /\ failures' \in Nat
    BY <1>0, <1>1 DEF Begin, ParentType
  <2>4. /\ pc' \in {"idle", "pack"} \cup CreatePc
        /\ digests' = {} /\ dlist' = {} /\ polled' = {}
        /\ spoiled' = FALSE /\ legacy' = legacy /\ filelist' = filelist
    BY <1>1 DEF Begin, CreatePc
  <2>5. ParentType'
    BY <1>0, <2>1, <2>2, <2>3, <2>4 DEF ParentType
  <2>6. WorkType'
    BY <1>0, <1>1 DEF Begin, working, WorkType
  <2>7. FileType'
    BY <1>0, <1>1, <2>4 DEF Begin, working, FileType
  <2>8. ArchiveType'
    BY <1>0, <1>1 DEF Begin, ArchiveType
  <2> QED
    BY <2>5, <2>6, <2>7, <2>8 DEF TypeInv
<1>2. ASSUME CreateFailed, failures' \in Nat, spoiled' \in BOOLEAN PROVE TypeInv'
  <2>1. ParentType'
    BY <1>0, <1>2, ReturnType DEF CreateFailed, ParentType
  <2>2. WorkType' /\ ArchiveType'
    BY <1>0, <1>2, ReturnType DEF CreateFailed, ArchiveType
  <2>3. FileType'
    BY <1>0, <1>2, ReturnType DEF CreateFailed, FileType, ParentType
  <2> QED
    BY <2>1, <2>2, <2>3 DEF TypeInv
<1>3. CASE BeginFailed \/ LaunchFailed \/ PollFailed
  <2>1. CreateFailed /\ failures' \in Nat /\ spoiled' = TRUE
    BY <1>0, <1>3 DEF BeginFailed, LaunchFailed, PollFailed, Fails, ParentType
  <2> QED
    BY <1>2, <2>1
<1>4. CASE PackFailed
  <2>1. FileType' /\ ArchiveType'
    BY <1>0, <1>4, PackType, NextPacked DEF PackFailed, Shape
  <2>2. ParentType'
    <3>1. <<>> \in Seq(Worker)
      OBVIOUS
    <3>2. failures' \in Nat /\ spoiled' = TRUE /\ legacy' = FALSE
      BY <1>0, <1>4 DEF PackFailed, Fails, ParentType
    <3>3. /\ pc' = "idle" /\ fork' = <<>> /\ step' = 0
          /\ UNCHANGED <<rest, remain, jobs, polled, dlist, runs, filelist>>
      BY <1>4 DEF PackFailed
    <3> QED
      BY <1>0, <3>1, <3>2, <3>3 DEF ParentType
  <2>3. WorkType'
    BY <1>0, <1>4 DEF PackFailed, WorkType
  <2> QED
    BY <2>1, <2>2, <2>3 DEF TypeInv
<1>5. CASE Kill
  <2>1. ParentType'
    BY <1>0, <1>5, ReturnType DEF Kill, Fails, ParentType
  <2>2. WorkType'
    BY <1>0, <1>5, ReturnType DEF Kill
  <2>3. FileType' /\ ArchiveType'
    BY <1>0, <1>5, ReturnType DEF Kill, result, FileType, ArchiveType
  <2> QED
    BY <2>1, <2>2, <2>3 DEF TypeInv
<1>6. CASE Launch
  <2>1. PICK w \in Worker : Fork(w)
    BY <1>6, LaunchForks
  <2>2. /\ SubSeq(rest, 1, jobs) \in Seq(Packages)
        /\ SubSeq(rest, jobs + 1, Len(rest)) \in Seq(Packages)
    BY <1>0, <1>6 DEF Launch, ParentType
  <2>3. jobs' \in Nat
    BY <2>1, Numbers DEF Fork, ShareOf
  <2>4. fork' \in Seq(Worker) /\ polled' \in SUBSET Worker
    BY <1>0, <2>1 DEF Fork, ParentType
  <2>5. step' \in Nat /\ pc' \in {"idle", "pack"} \cup CreatePc
    BY <1>0, <2>1 DEF Fork, ParentType, CreatePc
  <2>6. rest' \in Seq(Packages) /\ remain' \in Int
    BY <1>0, <2>1, <2>2 DEF Fork, ParentType
  <2>7. ParentType'
    BY <1>0, <2>1, <2>3, <2>4, <2>5, <2>6 DEF Fork, ParentType
  <2>8. WorkType'
    <3>1. wpc' \in [Worker -> Steps]
      BY <1>0, <2>1 DEF Fork, WorkType, Steps
    <3>2. share' \in [Worker -> Seq(Packages)]
      BY <1>0, <2>1, <2>2 DEF Fork, WorkType
    <3>3. socket' \in [Worker -> Seq(Message)]
      <4>1. <<>> \in Seq(Message)
        OBVIOUS
      <4> QED
        BY <1>0, <2>1, <4>1 DEF Fork, WorkType
    <3>4. output' \in [Worker -> Outputs]
      BY <1>0, <2>1 DEF Fork, WorkType, Outputs
    <3>5. pos' \in [Worker -> [Outputs -> Nat]]
      BY <1>0, <2>1 DEF Fork, WorkType, Start
    <3> QED
      BY <3>1, <3>2, <3>3, <3>4, <3>5 DEF WorkType
  <2>9. FileType' /\ ArchiveType'
    BY <1>0, <2>1 DEF Fork, result, FileType, ArchiveType
  <2> QED
    BY <2>7, <2>8, <2>9 DEF TypeInv
<1>7. CASE SendStart
  <2>1. ParentType'
    BY <1>0, <1>7 DEF SendStart, creating, ParentType, CreatePc
  <2>2. WorkType'
    <3>1. wpc' \in [Worker -> Steps]
      BY <1>0, <1>7 DEF SendStart, WorkType, Steps
    <3> QED
      BY <1>0, <1>7, <3>1 DEF SendStart, WorkType
  <2>3. FileType' /\ ArchiveType'
    BY <1>0, <1>7 DEF SendStart, result, FileType, ArchiveType
  <2> QED
    BY <2>1, <2>2, <2>3 DEF TypeInv
<1>8. CASE Created
  <2>1. meta' \in BOOLEAN
    BY <1>0, <1>8, Zenon DEF Created, FileType
  <2>2. ParentType'
    BY <1>0, <1>8, <2>1 DEF Created, creating, ParentType
  <2>3. WorkType' /\ ArchiveType'
    BY <1>0, <1>8 DEF Created, working, WorkType, ArchiveType
  <2>4. FileType'
    BY <1>0, <1>8, <2>1 DEF Created, working, FileType, ParentType
  <2> QED
    BY <2>2, <2>3, <2>4 DEF TypeInv
<1>9. CASE Pack
  <2>1. FileType' /\ ArchiveType'
    BY <1>0, <1>9, PackType, NextPacked DEF Pack, Shape
  <2>2. ParentType' /\ WorkType'
    BY <1>0, <1>9 DEF Pack, creating, ParentType, WorkType
  <2> QED
    BY <2>1, <2>2 DEF TypeInv
<1>10. CASE Finished
  <2>1. ParentType' /\ WorkType'
    BY <1>0, <1>10, ReturnType DEF Finished, ParentType
  <2>2. FileType'
    BY <1>0, <1>10, ReturnType DEF Finished, FileType
  <2>3. mtime' \in [Archives -> Nat]
    BY <1>0, <1>10 DEF Finished, ArchiveType, Archives
  <2>4. ArchiveType'
    BY <1>0, <1>10, <2>3 DEF Finished, ArchiveType, Archives
  <2> QED
    BY <2>1, <2>2, <2>4 DEF TypeInv
<1> QED
  BY <1>1, <1>3, <1>4, <1>5, <1>6, <1>7, <1>8, <1>9, <1>10 DEF ParentDoes

\* ... and so do those about a worker.
LEMMA WorkerTypes ==
    ASSUME Shape, NEW w \in Worker, ReadDoes(w) \/ WorkerDoes(w)
    PROVE  TypeInv'
<1>0. TypeInv /\ ParentType /\ WorkType /\ FileType /\ ArchiveType
  BY DEF Shape, TypeInv
<1>1. ArchiveType'
  BY <1>0 DEF ReadDoes, WorkerDoes, Receive, ReceiveEnd, Wait, Flock, Write, Send,
              End, Skip, WorkFailed, KillWorker, Unchanged, result, ArchiveType
<1>2. ParentType'
  <2>1. CASE Receive(w)
    <3>1. Head(socket[w]) # EndMark => Head(socket[w]) \in Digest
      BY <1>0, <2>1 DEF Receive, WorkType, Message
    <3> QED
      BY <1>0, <2>1, <3>1 DEF Receive, ParentType, CreatePc
  <2>2. CASE ReceiveEnd(w)
    BY <1>0, <2>2 DEF ReceiveEnd, ParentType, CreatePc
  <2>3. CASE Wait(w)
    BY <1>0, <2>3 DEF Wait, creating, ParentType, CreatePc
  <2>4. CASE Flock(w) \/ Write(w) \/ Send(w) \/ End(w)
    BY <1>0, <2>4
       DEF Flock, Write, Send, End, Unchanged, creating, ParentType
  <2>5. CASE Skip(w) \/ WorkFailed(w) \/ KillWorker(w)
    <3>1. failures' \in Nat
      BY <1>0, <2>5 DEF Skip, WorkFailed, KillWorker, Fails, ParentType
    <3>2. spoiled' \in BOOLEAN
      BY <1>0, <2>5, Zenon DEF Skip, WorkFailed, KillWorker, ParentType
    <3>3. UNCHANGED <<pc, creating, step, legacy, runs, filelist>>
      BY <2>5 DEF Skip, WorkFailed, KillWorker, Unchanged
    <3> QED
      BY <1>0, <3>1, <3>2, <3>3 DEF creating, ParentType
  <2> QED
    BY <2>1, <2>2, <2>3, <2>4, <2>5 DEF ReadDoes, WorkerDoes
<1>3. wpc' \in [Worker -> Steps]
  BY <1>0 DEF ReadDoes, WorkerDoes, Receive, ReceiveEnd, Wait, Flock, Write, Send,
              End, Skip, WorkFailed, KillWorker, Ended, working, WorkType, Steps,
              Working, Gone
<1>4. share' \in [Worker -> Seq(Packages)]
  <2>1. share[w] # <<>> => Tail(share[w]) \in Seq(Packages)
    BY <1>0 DEF WorkType
  <2>2. share[w] # <<>> \/ ~(Send(w) \/ Skip(w))
    BY DEF Shape, Placed, Send, Skip, Working
  <2>3. <<>> \in Seq(Packages)
    OBVIOUS
  <2> QED
    BY <1>0, <2>1, <2>2, <2>3
       DEF ReadDoes, WorkerDoes, Receive, ReceiveEnd, Wait, Flock, Write, Send,
           End, Skip, WorkFailed, KillWorker, working, WorkType
<1>5. output' \in [Worker -> Outputs]
  BY <1>0 DEF ReadDoes, WorkerDoes, Receive, ReceiveEnd, Wait, Flock, Write, Send,
              End, Skip, WorkFailed, KillWorker, working, WorkType, Outputs
<1>6. pos' \in [Worker -> [Outputs -> Nat]]
  <2>1. CASE Flock(w)
    <3>1. Len(out[output[w]]) \in Nat /\ output[w] \in Outputs
      BY <1>0 DEF WorkType, FileType
    <3> QED
      BY <1>0, <2>1, <3>1 DEF Flock, WorkType
  <2>2. CASE Send(w)
    <3>1. Start \in [Outputs -> Nat]
      BY DEF Start
    <3> QED
      BY <1>0, <2>2, <3>1 DEF Send, WorkType
  <2>3. CASE ~(Flock(w) \/ Send(w))
    BY <1>0, <2>3
       DEF ReadDoes, WorkerDoes, Receive, ReceiveEnd, Wait, Write,
           End, Skip, WorkFailed, KillWorker, working, WorkType
  <2> QED
    BY <2>1, <2>2, <2>3
<1>7. socket' \in [Worker -> Seq(Message)]
  <2>1. CASE Send(w)
    <3>1. Head(share[w]) \in Packages
      BY <1>0, <2>1 DEF Shape, Placed, Send, Working, WorkType
    <3>2. [package |-> Head(share[w]), position |-> pos[w]] \in Message
      BY <1>0, <3>1 DEF Message, Digest, WorkType
    <3> QED
      BY <1>0, <2>1, <3>2 DEF Send, WorkType
  <2>2. CASE End(w)
    <3>1. EndMark \in Message /\ <<>> \in Seq(Message)
      BY DEF Message
    <3> QED
      BY <1>0, <2>2, <3>1 DEF End, WorkType
  <2>3. CASE Receive(w)
    <3>1. Tail(socket[w]) \in Seq(Message)
      BY <1>0, <2>3 DEF Receive, WorkType
    <3> QED
      BY <1>0, <2>3, <3>1 DEF Receive, WorkType
  <2>4. CASE KillWorker(w)
    <3>1. <<>> \in Seq(Message)
      OBVIOUS
    <3> QED
      BY <1>0, <2>4, <3>1 DEF KillWorker, WorkType
  <2>5. CASE ~(Send(w) \/ End(w) \/ Receive(w) \/ KillWorker(w))
    BY <1>0, <2>5 DEF ReadDoes, WorkerDoes, ReceiveEnd, Wait, Flock, Write,
                      Skip, WorkFailed, working, WorkType
  <2> QED
    BY <2>1, <2>2, <2>3, <2>4, <2>5
<1>8. lock' \in [Outputs -> Worker \cup {NoWorker}]
  BY <1>0 DEF ReadDoes, WorkerDoes, Receive, ReceiveEnd, Wait, Flock, Write, Send,
              End, Skip, WorkFailed, KillWorker, Unlocked, working, WorkType, FileType
<1>9. lost' \in [Outputs -> SUBSET Worker]
  BY <1>0 DEF ReadDoes, WorkerDoes, Receive, ReceiveEnd, Wait, Flock, Write, Send,
              End, Skip, WorkFailed, KillWorker, FileType
<1>10. out' \in [Outputs -> Seq(Packages)]
  <2>1. CASE Write(w)
    <3>1. Head(share[w]) \in Packages
      BY <1>0, <2>1 DEF Shape, Placed, Write, Working, WorkType
    <3> QED
      BY <1>0, <2>1, <3>1 DEF Write, FileType
  <2>2. CASE ~Write(w)
    BY <1>0, <2>2
       DEF ReadDoes, WorkerDoes, Receive, ReceiveEnd, Wait, Flock, Send,
           End, Skip, WorkFailed, KillWorker, FileType
  <2> QED
    BY <2>1, <2>2
<1>11. digests' \in SUBSET Digest /\ meta' \in BOOLEAN
  BY <1>0 DEF ReadDoes, WorkerDoes, Receive, ReceiveEnd, Wait, Flock, Write, Send,
              End, Skip, WorkFailed, KillWorker, Unchanged, result, FileType
<1> QED
  BY <1>1, <1>2, <1>3, <1>4, <1>5, <1>6, <1>7, <1>8, <1>9, <1>10, <1>11
     DEF TypeInv, WorkType, FileType

\* The workers of this run: a fork adds one, the end of a run forgets them.
LEMMA MineIs ==
    ASSUME TypeInv
    PROVE  /\ Mine \subseteq Worker
           /\ fork = <<>> => Mine = {}
           /\ fork' = fork => Mine' = Mine
           /\ fork' = <<>> => Mine' = {}
           /\ \A w \in Worker : fork' = Append(fork, w) => Mine' = Mine \cup {w}
<1>0. fork \in Seq(Worker) /\ DOMAIN fork = 1..Len(fork) /\ Len(fork) \in Nat
  BY DEF TypeInv, ParentType
<1>1. Mine \subseteq Worker
  BY <1>0 DEF Mine, Range
<1>2. ASSUME NEW w \in Worker, fork' = Append(fork, w) PROVE Mine' = Mine \cup {w}
  <2>1. /\ DOMAIN fork' = 1..(Len(fork) + 1) /\ fork'[Len(fork) + 1] = w
        /\ \A i \in 1..Len(fork) : fork'[i] = fork[i]
    BY <1>0, <1>2
  <2>2. Mine' = {fork'[i] : i \in 1..(Len(fork) + 1)}
    BY <2>1 DEF Mine, Range
  <2>3. Mine = {fork[i] : i \in 1..Len(fork)}
    BY <1>0 DEF Mine, Range
  <2>4. 1..(Len(fork) + 1) = 1..Len(fork) \cup {Len(fork) + 1}
    BY <1>0
  <2> QED
    BY <2>1, <2>2, <2>3, <2>4
<1>3. fork = <<>> => Mine = {}
  BY DEF Mine, Range
<1>4. fork' = <<>> => Mine' = {}
  BY DEF Mine, Range
<1>5. fork' = fork => Mine' = Mine
  BY DEF Mine
<1> QED
  BY <1>1, <1>2, <1>3, <1>4, <1>5

\* A worker's step is about itself.
LEMMA OwnOnly ==
    ASSUME TypeInv, NEW w \in Worker, ReadDoes(w) \/ WorkerDoes(w),
           NEW v \in Worker, v # w
    PROVE  /\ wpc'[v] = wpc[v] /\ share'[v] = share[v] /\ output'[v] = output[v]
           /\ pos'[v] = pos[v] /\ socket'[v] = socket[v]
           /\ \A o \in Outputs : v \in lost'[o] <=> v \in lost[o]
<1>1. wpc'[v] = wpc[v] /\ share'[v] = share[v] /\ output'[v] = output[v]
  BY DEF ReadDoes, WorkerDoes, Receive, ReceiveEnd, Wait, Flock, Write, Send,
         End, Skip, WorkFailed, KillWorker, working, TypeInv, WorkType
<1>2. pos'[v] = pos[v] /\ socket'[v] = socket[v]
  BY DEF ReadDoes, WorkerDoes, Receive, ReceiveEnd, Wait, Flock, Write, Send,
         End, Skip, WorkFailed, KillWorker, working, TypeInv, WorkType
<1>3. \A o \in Outputs : v \in lost'[o] <=> v \in lost[o]
  BY DEF ReadDoes, WorkerDoes, Receive, ReceiveEnd, Wait, Flock, Write, Send,
         End, Skip, WorkFailed, KillWorker, working, TypeInv, FileType
<1> QED
  BY <1>1, <1>2, <1>3

\* The steps of the parent change little of the workers.
LEMMA ParentLeaves ==
    ASSUME TypeInv, ParentDoes, ~Launch
    PROVE  /\ UNCHANGED <<share, output, pos, socket, filelist>>
           /\ \A w \in Worker :
                 \/ wpc'[w] = wpc[w]
                 \/ wpc[w] = "waiting" /\ wpc'[w] = "open" /\ pc = "start"
                 \/ wpc[w] = "exited" /\ wpc'[w] = "none" /\ fork' = <<>>
<1>1. UNCHANGED <<share, output, pos, socket, filelist>>
  BY DEF ParentDoes, Begin, BeginFailed, LaunchFailed, PollFailed, CreateFailed,
         PackFailed, Kill, SendStart, Created, Pack, Finished, Return, working
<1>2. CASE SendStart
  BY <1>2 DEF SendStart, TypeInv, WorkType
<1>3. Return => \A w \in Worker :
                    \/ wpc'[w] = wpc[w]
                    \/ wpc[w] = "exited" /\ wpc'[w] = "none" /\ fork' = <<>>
  BY DEF Return, TypeInv, WorkType
<1>4. CASE ~SendStart /\ ~Return
  BY <1>4 DEF ParentDoes, Begin, BeginFailed, LaunchFailed, PollFailed,
              CreateFailed, PackFailed, Kill, Created, Pack, Finished, working
<1> QED
  BY <1>1, <1>2, <1>3, <1>4

\* The worker forked.
LEMMA ForkedWorker ==
    ASSUME TypeInv, NEW w \in Worker, Fork(w)
    PROVE  /\ wpc'[w] = "waiting" /\ share'[w] = SubSeq(rest, 1, jobs)
           /\ socket'[w] = <<>> /\ output'[w] = "manifests" /\ pos'[w] = Start
           /\ \A v \in Worker : v # w =>
                 /\ wpc'[v] = wpc[v] /\ share'[v] = share[v]
                 /\ output'[v] = output[v] /\ pos'[v] = pos[v]
                 /\ socket'[v] = socket[v]
                 /\ \A o \in Outputs : v \in lost'[o] <=> v \in lost[o]
           /\ \A o \in Outputs : w \notin lost'[o]
<1>1. /\ wpc'[w] = "waiting" /\ share'[w] = SubSeq(rest, 1, jobs)
      /\ \A v \in Worker : v # w => wpc'[v] = wpc[v] /\ share'[v] = share[v]
  BY DEF Fork, TypeInv, WorkType
<1>2. /\ socket'[w] = <<>> /\ output'[w] = "manifests" /\ pos'[w] = Start
      /\ \A v \in Worker : v # w =>
            output'[v] = output[v] /\ pos'[v] = pos[v] /\ socket'[v] = socket[v]
  BY DEF Fork, TypeInv, WorkType
<1>3. \A o \in Outputs : /\ w \notin lost'[o]
                         /\ \A v \in Worker : v # w =>
                               (v \in lost'[o] <=> v \in lost[o])
  BY DEF Fork, TypeInv, FileType
<1> QED
  BY <1>1, <1>2, <1>3

---------------------------------------------------------------------------
(* Where the workers and the parent are.                                   *)

\* What a worker has in hand fits where it is.
LEMMA PlacedNext == ASSUME Shape, Next PROVE Placed'
<1>0. TypeInv /\ Placed
  BY DEF Shape
<1>1. ASSUME NEW w \in Worker, ReadDoes(w) \/ WorkerDoes(w) PROVE Placed'
  <2> SUFFICES ASSUME NEW v \in Worker
               PROVE  /\ wpc'[v] \in Working => share'[v] # <<>>
                      /\ wpc'[v] \in Gone => share'[v] = <<>>
                      /\ wpc'[v] \in {"waiting", "open"} => output'[v] = "manifests"
                      /\ wpc'[v] = "flock" => output'[v] = "files"
                      /\ wpc'[v] \in Working /\ output'[v] = "files" => filelist'
                      /\ wpc'[v] = "send" /\ output'[v] = "manifests" => ~filelist'
    BY DEF Placed
  <2>0. filelist' = filelist
    BY <1>1 DEF ReadDoes, WorkerDoes, Receive, ReceiveEnd, Wait, Flock, Write, Send,
                End, Skip, WorkFailed, KillWorker, Unchanged
  <2>1. CASE v # w
    BY <1>0, <1>1, <2>0, <2>1, OwnOnly DEF Placed
  <2>2. CASE v = w
    <3>0. output[w] \in Outputs /\ wpc[w] \in Steps
      BY <1>0 DEF TypeInv, WorkType
    <3>1. CASE ReadDoes(w)
      BY <1>0, <2>0, <2>2, <3>1
         DEF ReadDoes, Receive, ReceiveEnd, Wait, working, Placed, Working, Gone,
             TypeInv, WorkType
    <3>2. CASE Flock(w)
      BY <1>0, <2>0, <2>2, <3>0, <3>2
         DEF Flock, Placed, Working, Gone, Outputs, TypeInv, WorkType
    <3>3. CASE Write(w)
      BY <1>0, <2>0, <2>2, <3>0, <3>3
         DEF Write, Placed, Working, Gone, Outputs, TypeInv, WorkType
    <3>4. CASE Send(w) \/ End(w) \/ Skip(w)
      BY <1>0, <2>0, <2>2, <3>0, <3>4
         DEF Send, End, Ended, Skip, Placed, Working, Gone, TypeInv, WorkType
    <3>5. CASE WorkFailed(w) \/ KillWorker(w)
      BY <1>0, <2>0, <2>2, <3>0, <3>5
         DEF WorkFailed, KillWorker, Ended, Placed, Working, Gone, TypeInv, WorkType
    <3> QED
      BY <1>1, <3>1, <3>2, <3>3, <3>4, <3>5 DEF WorkerDoes
  <2> QED
    BY <2>1, <2>2
<1>2. CASE ParentDoes /\ ~Launch
  BY <1>0, <1>2, ParentLeaves DEF Placed, Working, Gone
<1>3. CASE Launch
  <2>1. PICK w \in Worker : wpc[w] = "none" /\ Fork(w)
    BY <1>3, LaunchForks
  <2>2. filelist' = filelist
    BY <2>1 DEF Fork
  <2> QED
    BY <1>0, <2>1, <2>2, ForkedWorker DEF Placed, Working, Gone
<1> QED
  BY <1>1, <1>2, <1>3, NextIs

\* The packages a worker gets are there, and those of the last are the last.
LEMMA SplitLaunch == ASSUME Shape, Launch PROVE Split'
<1> DEFINE T == TasksPerWorker
<1>0. TypeInv /\ ParentType /\ Split /\ pc = "launch"
  BY DEF Shape, TypeInv, Launch
<1>1. PICK w \in Worker : Fork(w)
  BY LaunchForks
<1>2. /\ T \in Nat \ {0} /\ NumWorkers \in Nat \ {0}
      /\ remain \in Int /\ Len(rest) \in Nat /\ Len(fork) \in Nat /\ jobs \in Nat
  BY <1>0, Numbers DEF ParentType
<1>3. /\ Left \in Nat \ {0} /\ remain < Left /\ jobs = ShareOf(remain)
      /\ Len(rest) = Left * T + (IF remain > 0 THEN remain ELSE 0)
      /\ Len(rest) >= jobs /\ jobs >= 1
  BY <1>0, <1>2 DEF Split, Left, Launch, ShareOf
<1>4. /\ Len(rest') = Len(rest) - jobs /\ remain' = remain - 1
      /\ jobs' = ShareOf(remain - 1) /\ Len(fork') = Len(fork) + 1
      /\ Left' = Left - 1 /\ rest' \in Seq(Packages)
  <2>1. /\ rest' = SubSeq(rest, jobs + 1, Len(rest)) /\ remain' = remain - 1
        /\ jobs' = ShareOf(remain - 1) /\ fork' = Append(fork, w)
    BY <1>1 DEF Fork
  <2>2. Len(rest') = Len(rest) - jobs /\ rest' \in Seq(Packages)
    BY <1>0, <1>2, <1>3, <2>1 DEF ParentType
  <2>3. Len(fork') = Len(fork) + 1
    BY <1>0, <2>1 DEF ParentType
  <2>4. Left' = Left - 1
    BY <1>2, <2>3 DEF Left, NumWorkers
  <2> QED
    BY <2>1, <2>2, <2>3, <2>4
<1>5. (Left - 1) * T = Left * T - T /\ Left * T \in Nat /\ (Left - 1) * T \in Nat
  BY <1>2, <1>3
<1>6. Left' * T = (Left - 1) * T
  BY <1>4
<1>7. Len(rest') = (Left - 1) * T + (IF remain - 1 > 0 THEN remain - 1 ELSE 0)
  <2>1. CASE remain > 0
    BY <1>2, <1>3, <1>4, <1>5, <2>1 DEF ShareOf
  <2>2. CASE remain <= 0
    BY <1>2, <1>3, <1>4, <1>5, <2>2 DEF ShareOf
  <2> QED
    BY <1>2, <2>1, <2>2
<1>8. CASE Left = 1
  <2>1. (Left - 1) * T = 0 /\ remain <= 0
    BY <1>2, <1>3, <1>8
  <2>2. Len(rest') = 0
    BY <1>2, <1>7, <2>1
  <2>3. rest' = <<>>
    BY <1>4, <2>2, EmptySeq
  <2>4. jobs' > 0
    BY <1>2, <1>4 DEF ShareOf
  <2>5. pc' = "start" /\ step' = 1
    BY <1>1, <2>2, <2>4 DEF Fork
  <2> QED
    BY <1>2, <1>4, <2>3, <2>5 DEF Split
<1>9. CASE Left > 1
  <2>1. (Left - 1) * T >= T
    <3>1. \A k \in Nat \ {0} : k * T >= T
      BY <1>2
    <3> QED
      BY <1>3, <1>9, <3>1
  <2>2. PICK p \in Nat : p = (Left - 1) * T
    BY <1>5
  <2>3. pc' = "launch"
    <3>1. p >= T /\ Len(rest') = p + (IF remain - 1 > 0 THEN remain - 1 ELSE 0)
      BY <1>7, <2>1, <2>2
    <3>2. Len(rest') >= jobs' /\ Len(rest') \in Nat /\ jobs' \in Nat
      <4>1. CASE remain - 1 > 0
        BY <1>2, <1>4, <3>1, <4>1 DEF ShareOf
      <4>2. CASE remain - 1 <= 0
        BY <1>2, <1>4, <3>1, <4>2 DEF ShareOf
      <4> QED
        BY <1>2, <4>1, <4>2
    <3>3. ~(Len(rest') < jobs')
      BY <3>2
    <3> QED
      BY <1>0, <1>1, <3>3 DEF Fork
  <2>4. Len(rest') = Left' * TasksPerWorker + (IF remain' > 0 THEN remain' ELSE 0)
    BY <1>4, <1>6, <1>7
  <2>5. Left' >= 1 /\ remain' < Left' /\ jobs' = ShareOf(remain')
    BY <1>2, <1>3, <1>4, <1>9
  <2>6. TasksPerWorker' = TasksPerWorker /\ ShareOf(remain)' = ShareOf(remain')
    BY DEF TasksPerWorker, NumWorkers, ShareOf
  <2> QED
    BY <2>3, <2>4, <2>5, <2>6 DEF Split
<1> QED
  BY <1>3, <1>8, <1>9

\* What the parent has in hand fits where it is.
LEMMA SplitNext == ASSUME Shape, Next PROVE Split'
<1>0. TypeInv /\ ParentType /\ Split
  BY DEF Shape, TypeInv
<1>1. ASSUME UNCHANGED <<pc, rest, fork, remain, jobs, step, legacy, filelist, polled>>
      PROVE  Split'
  <2>1. Left' = Left /\ Order' = Order
    BY <1>1 DEF Left, NumWorkers, Order
  <2>2. ShareOf(remain)' = ShareOf(remain) /\ TasksPerWorker' = TasksPerWorker
    BY <1>1 DEF ShareOf, TasksPerWorker, NumWorkers
  <2> QED
    BY <1>0, <1>1, <2>1, <2>2 DEF Split
<1>2. ASSUME NEW w \in Worker, WorkerDoes(w) PROVE Split'
  <2>1. UNCHANGED <<pc, rest, fork, remain, jobs, step, legacy, filelist, polled>>
    BY <1>2 DEF WorkerDoes, Flock, Write, Send, End, Skip, WorkFailed, KillWorker,
                Unchanged, creating
  <2> QED
    BY <1>1, <2>1
<1>3. ASSUME NEW w \in Worker, ReadDoes(w) PROVE Split'
  <2>1. pc \in {"poll", "wait"} /\ pc' \in {"poll", "wait"} /\ rest' = rest
    BY <1>3 DEF ReadDoes, Receive, ReceiveEnd, Wait, creating
  <2> QED
    BY <1>0, <2>1 DEF Split
<1>4. CASE Launch
  BY <1>4, SplitLaunch
<1>5. CASE Begin
  <2>1. /\ pc' = "launch" /\ rest' = Files /\ Len(fork') = 0 /\ fork' = <<>>
        /\ remain' = Len(Files) % NumWorkers /\ jobs' = ShareOf(remain')
    BY <1>5 DEF Begin
  <2>2. Left' = NumWorkers
    BY <2>1, Numbers DEF Left, NumWorkers
  <2>3. /\ Left' >= 1 /\ remain' < Left'
        /\ Len(rest') = Left' * TasksPerWorker + (IF remain' > 0 THEN remain' ELSE 0)
    <3>1. NumWorkers * TasksPerWorker \in Nat
      BY Numbers
    <3> DEFINE m == NumWorkers * TasksPerWorker
               r == Len(Files) % NumWorkers
    <3>2. /\ m \in Nat /\ r = Len(Files) - m /\ Len(Files) \in Nat
          /\ r \in 0..(NumWorkers - 1) /\ NumWorkers \in Nat \ {0}
      BY <3>1, Numbers
    <3>3. Left' * TasksPerWorker = m /\ remain' = r /\ Len(rest') = Len(Files)
      BY <2>1, <2>2
    <3> HIDE DEF m, r
    <3>4. Len(Files) = m + r
      BY <3>2
    <3> QED
      BY <2>2, <3>2, <3>3, <3>4
  <2>4. TasksPerWorker' = TasksPerWorker /\ ShareOf(remain)' = ShareOf(remain')
    BY DEF TasksPerWorker, NumWorkers, ShareOf
  <2> QED
    BY <2>1, <2>3, <2>4 DEF Split
<1>6. CASE pc' = "idle" /\ fork' = <<>>
  BY <1>6 DEF Split
<1>7. CASE SendStart
  <2>1. /\ rest' = rest /\ rest = <<>> /\ fork' = fork /\ pc = "start"
        /\ step \in 1..Len(fork) /\ Len(fork) \in Nat
    BY <1>0, <1>7 DEF SendStart, creating, Split, ParentType
  <2>2. CASE step = Len(fork)
    BY <1>7, <2>1, <2>2 DEF SendStart, Split
  <2>3. CASE step # Len(fork)
    BY <1>7, <2>1, <2>3 DEF SendStart, Split
  <2> QED
    BY <2>2, <2>3
<1>8. CASE Created
  <2>1. /\ rest' = rest /\ rest = <<>> /\ pc' = "pack" /\ step' = 1 /\ polled' = {}
        /\ filelist' = filelist
    BY <1>0, <1>8 DEF Created, creating, Split
  <2>2. legacy' \in BOOLEAN /\ filelist' \in BOOLEAN
    BY <1>0, <1>8, Zenon DEF Created, ParentType, FileType
  <2>3. (legacy \in BOOLEAN /\ filelist \in BOOLEAN => Len(Order) \in Nat)'
    BY OrderLength, PTL
  <2>4. Len(Order') \in Nat
    BY <2>2, <2>3
  <2> QED
    BY <2>1, <2>4 DEF Split
<1>9. CASE Pack
  <2>1. /\ pc' = pc /\ pc = "pack" /\ rest' = rest /\ rest = <<>> /\ step' = step + 1
        /\ polled' = polled /\ legacy' = legacy /\ filelist' = filelist
        /\ step \in 1..(Len(Order) + 1) /\ step <= Len(Order) /\ polled = {}
    BY <1>0, <1>9 DEF Pack, Packing, creating, Split
  <2>2. Order' = Order
    BY <2>1 DEF Order
  <2>3. Len(Order) \in Nat
    <3>1. legacy \in BOOLEAN /\ filelist \in BOOLEAN
      BY <1>0 DEF ParentType
    <3> QED
      BY <3>1, OrderIs
  <2> QED
    BY <2>1, <2>2, <2>3 DEF Split
<1>10. ParentDoes /\ ~(Begin \/ Launch \/ SendStart \/ Created \/ Pack)
           => pc' = "idle" /\ fork' = <<>>
  BY DEF ParentDoes, BeginFailed, LaunchFailed, PollFailed, CreateFailed, PackFailed,
         Kill, Finished, Return
<1> QED
  BY <1>2, <1>3, <1>4, <1>5, <1>6, <1>7, <1>8, <1>9, <1>10, NextIs

\* No worker of this run has a descriptor of an unlinked output, also when the
\* outputs are packed: they have all ended then.
LEMMA LostNext ==
    ASSUME Shape, ParentDoes, ~Launch
    PROVE  \A w \in Mine', o \in Outputs : w \notin lost'[o]
<1>0. TypeInv /\ Family /\ Split
  BY DEF Shape
<1>1. ASSUME lost' = lost, fork' = fork \/ fork' = <<>>
      PROVE  \A w \in Mine', o \in Outputs : w \notin lost'[o]
  BY <1>0, <1>1, MineIs DEF Family
<1>2. CASE Pack
  <2>1. Mine' = Mine /\ pc = "pack" /\ polled = {}
    BY <1>0, <1>2, MineIs DEF Pack, Packing, creating, Split
  <2>2. \A w \in Mine : ~Alive(w)
    BY <1>0, <2>1 DEF Family, Alive, Gone
  <2>3. \A o \in Outputs : lost'[o] = lost[o] \/ lost'[o] = {w \in Worker : Alive(w)}
    BY <1>2 DEF Pack, PackInto
  <2> QED
    BY <1>0, <2>1, <2>2, <2>3 DEF Family
<1>3. CASE fork' = <<>>
  BY <1>0, <1>3, MineIs
<1>4. CASE SendStart \/ Created
  BY <1>1, <1>4 DEF SendStart, Created, creating
<1>5. ParentDoes /\ ~(Launch \/ SendStart \/ Created \/ Pack) => fork' = <<>>
  BY DEF ParentDoes, Begin, BeginFailed, LaunchFailed, PollFailed, CreateFailed,
         PackFailed, Kill, Finished, Return
<1> QED
  BY <1>2, <1>3, <1>4, <1>5

\* The workers the parent reads no more have ended and said all they had to.
LEMMA FamilyNext == ASSUME Shape, Next PROVE Family'
<1>0. TypeInv /\ Placed /\ Family /\ Split
  BY DEF Shape
<1>1. ASSUME NEW w \in Worker, WorkerDoes(w) PROVE Family'
  <2>1. UNCHANGED <<pc, fork, polled>> /\ Mine' = Mine
    BY <1>0, <1>1, MineIs
       DEF WorkerDoes, Flock, Write, Send, End, Skip, WorkFailed, KillWorker,
           Unchanged, creating
  <2>2. /\ wpc[w] \notin {"none", "exited"}
        /\ w \in Mine => wpc'[w] # "none"
        /\ wpc'[w] \in Gone => End(w) \/ KillWorker(w)
    BY <1>0, <1>1
       DEF WorkerDoes, Flock, Write, Send, End, Skip, WorkFailed, KillWorker, Ended,
           Alive, Gone, Working, TypeInv, WorkType
  <2>3. w \in Mine => w \in polled
    BY <1>0, <2>2 DEF Family, Gone
  <2>4. ASSUME w \in Mine, NEW i \in 1..Len(socket'[w]), socket'[w][i] = EndMark
        PROVE  i = Len(socket'[w]) /\ wpc'[w] \in Gone
    <3>0. /\ socket[w] \in Seq(Message) /\ Len(socket[w]) \in Nat
          /\ \A j \in 1..Len(socket[w]) : socket[w][j] # EndMark
      BY <1>0, <2>2, <2>4 DEF TypeInv, WorkType, Family, Gone
    <3>1. CASE Send(w)
      <4>1. PICK m : m = [package |-> Head(share[w]), position |-> pos[w]]
        OBVIOUS
      <4>2. m # EndMark
        <5>1. Head(share[w]) \in Packages /\ pos[w] \in [Outputs -> Nat]
          BY <1>0, <3>1 DEF Placed, Send, Working, TypeInv, WorkType
        <5>2. m \in Digest
          BY <4>1, <5>1 DEF Digest
        <5> QED
          BY <5>2, EndMarkIsNoDigest
      <4>3. socket'[w] = Append(socket[w], m)
        BY <1>0, <3>1, <4>1 DEF Send, TypeInv, WorkType
      <4>4. /\ Len(socket'[w]) = Len(socket[w]) + 1
            /\ socket'[w][Len(socket[w]) + 1] = m
            /\ \A j \in 1..Len(socket[w]) : socket'[w][j] = socket[w][j]
        BY <3>0, <4>3
      <4>5. CASE i \in 1..Len(socket[w])
        BY <2>4, <3>0, <4>4, <4>5
      <4>6. CASE i = Len(socket[w]) + 1
        BY <2>4, <4>2, <4>4, <4>6
      <4> QED
        BY <3>0, <4>4, <4>5, <4>6
    <3>2. CASE End(w)
      <4>1. socket'[w] = Append(socket[w], EndMark) /\ wpc'[w] = "exited"
        BY <1>0, <2>4, <3>2 DEF End, Ended, TypeInv, WorkType
      <4>2. /\ Len(socket'[w]) = Len(socket[w]) + 1
            /\ \A j \in 1..Len(socket[w]) : socket'[w][j] = socket[w][j]
        BY <3>0, <4>1
      <4> QED
        BY <2>4, <3>0, <4>1, <4>2 DEF Gone
    <3>3. CASE ~Send(w) /\ ~End(w)
      <4>1. socket'[w] = socket[w]
        BY <1>0, <1>1, <2>4, <3>3
           DEF WorkerDoes, Flock, Write, Skip, WorkFailed, KillWorker, TypeInv,
               WorkType
      <4> QED
        BY <2>4, <3>0, <4>1
    <3> QED
      BY <3>1, <3>2, <3>3
  <2>5. w \in Mine => \A o \in Outputs : w \notin lost'[o]
    BY <1>0, <1>1
       DEF WorkerDoes, Flock, Write, Send, End, Skip, WorkFailed, KillWorker,
           Family, TypeInv, FileType
  <2>6. \A v \in Mine : v # w => /\ wpc'[v] = wpc[v] /\ socket'[v] = socket[v]
                                 /\ \A o \in Outputs : v \in lost'[o] <=> v \in lost[o]
    BY <1>0, <1>1, OwnOnly, MineIs
  <2> QED
    BY <1>0, <2>1, <2>2, <2>3, <2>4, <2>5, <2>6 DEF Family
<1>2. ASSUME NEW w \in Worker, ReadDoes(w) PROVE Family'
  <2>1. /\ fork' = fork /\ Mine' = Mine /\ lost' = lost
        /\ pc' \notin {"launch", "start"}
    BY <1>0, <1>2, MineIs DEF ReadDoes, Receive, ReceiveEnd, Wait, creating
  <2>2. /\ socket[w] \in Seq(Message) /\ Len(socket[w]) \in Nat
        /\ polled \subseteq Mine
    BY <1>0 DEF TypeInv, WorkType, Family
  <2>3. \A v \in Mine : v # w => wpc'[v] = wpc[v] /\ socket'[v] = socket[v]
    BY <1>0, <1>2, OwnOnly, MineIs
  <2>4. CASE Receive(w)
    <3>1. w \in polled /\ socket[w] # <<>> /\ socket'[w] = Tail(socket[w])
      BY <1>0, <2>4 DEF Receive, TypeInv, WorkType
    <3>2. /\ Len(socket'[w]) = Len(socket[w]) - 1 /\ Head(socket[w]) = socket[w][1]
          /\ Len(socket[w]) >= 1
          /\ \A i \in 1..Len(socket'[w]) :
                socket'[w][i] = socket[w][i + 1] /\ i + 1 \in 1..Len(socket[w])
      BY <2>2, <3>1
    <3>3. wpc' = wpc
      BY <2>4 DEF Receive
    <3>4. \A i \in 1..Len(socket'[w]) : socket'[w][i] = EndMark =>
                i = Len(socket'[w]) /\ wpc'[w] \in Gone
      <4> SUFFICES ASSUME NEW i \in 1..Len(socket'[w]), socket'[w][i] = EndMark
                   PROVE  i = Len(socket'[w]) /\ wpc'[w] \in Gone
        OBVIOUS
      <4>1. i + 1 = Len(socket[w]) /\ wpc[w] \in Gone
        BY <1>0, <2>2, <3>1, <3>2 DEF Family
      <4> QED
        BY <2>2, <3>2, <3>3, <4>1
    <3>5. CASE Head(socket[w]) = EndMark
      <4>1. 1 = Len(socket[w]) /\ wpc[w] \in Gone
        <5>1. w \in Mine /\ 1 \in 1..Len(socket[w]) /\ socket[w][1] = EndMark
          BY <2>2, <3>1, <3>2, <3>5
        <5> QED
          BY <1>0, <5>1 DEF Family
      <4>2. socket'[w] = <<>>
        <5>1. socket'[w] \in Seq(Message) /\ Len(socket'[w]) = 0
          BY <2>2, <3>1, <3>2, <4>1
        <5> QED
          BY <5>1, EmptySeq
      <4>3. polled' = polled \ {w}
        BY <2>4, <3>5 DEF Receive
      <4> QED
        BY <1>0, <2>1, <2>3, <3>3, <3>4, <4>1, <4>2, <4>3 DEF Family
    <3>6. CASE Head(socket[w]) # EndMark
      <4>1. polled' = polled
        BY <2>4, <3>6 DEF Receive
      <4> QED
        BY <1>0, <2>1, <2>3, <3>1, <3>3, <3>4, <4>1 DEF Family
    <3> QED
      BY <3>5, <3>6
  <2>5. CASE ReceiveEnd(w)
    BY <1>0, <2>1, <2>3, <2>5 DEF ReceiveEnd, working, Family, Gone
  <2>6. CASE Wait(w)
    <3>1. /\ wpc[w] = "exited" /\ wpc'[w] = "none" /\ socket' = socket
          /\ polled' = polled
      BY <1>0, <2>6 DEF Wait, creating, TypeInv, WorkType
    <3> QED
      BY <1>0, <2>1, <2>3, <3>1 DEF Family, Gone
  <2> QED
    BY <1>2, <2>4, <2>5, <2>6 DEF ReadDoes
<1>3. CASE Launch
  <2>1. PICK w \in Worker : wpc[w] = "none" /\ Fork(w)
    BY <1>3, LaunchForks
  <2>2. Mine' = Mine \cup {w} /\ polled' = polled \cup {w} /\ pc = "launch"
    BY <1>0, <1>3, <2>1, MineIs DEF Fork, Launch
  <2>3. w \notin Mine
    BY <1>0, <2>1, <2>2 DEF Family
  <2>4. Mine \subseteq Worker
    BY <1>0, MineIs
  <2>5. Len(<<>>) = 0
    OBVIOUS
  <2>6. \A v \in Mine : /\ v # w /\ wpc'[v] = wpc[v] /\ socket'[v] = socket[v]
                        /\ \A o \in Outputs : v \in lost'[o] <=> v \in lost[o]
    BY <1>0, <2>1, <2>3, <2>4, ForkedWorker
  <2>7. /\ wpc'[w] = "waiting" /\ socket'[w] = <<>>
        /\ \A o \in Outputs : w \notin lost'[o]
    BY <1>0, <2>1, ForkedWorker
  <2> QED
    BY <1>0, <2>2, <2>3, <2>5, <2>6, <2>7 DEF Family
<1>4. CASE ParentDoes /\ ~Launch
  <2>1. /\ socket' = socket
        /\ \A w \in Worker : \/ wpc'[w] = wpc[w]
                             \/ wpc[w] = "waiting" /\ wpc'[w] = "open" /\ pc = "start"
                             \/ wpc[w] = "exited" /\ wpc'[w] = "none" /\ fork' = <<>>
    BY <1>0, <1>4, ParentLeaves
  <2>2. \A w \in Mine', o \in Outputs : w \notin lost'[o]
    BY <1>4, LostNext
  <2>3. CASE fork' = <<>>
    <3>1. Mine' = {}
      BY <1>0, <2>3, MineIs
    <3>2. polled' = {}
      <4>1. CASE SendStart \/ Created \/ Pack
        <5>1. polled' = polled /\ fork = <<>>
          BY <2>3, <4>1 DEF SendStart, Created, Pack, creating
        <5> QED
          BY <1>0, <5>1, MineIs DEF Family
      <4>2. CASE PackFailed
        BY <1>0, <4>2 DEF PackFailed, Packing, Split
      <4>3. ParentDoes /\ ~(Launch \/ SendStart \/ Created \/ Pack \/ PackFailed)
              => polled' = {}
        BY DEF ParentDoes, Begin, BeginFailed, LaunchFailed, PollFailed,
               CreateFailed, Kill, Finished, Return
      <4> QED
        BY <1>4, <4>1, <4>2, <4>3
    <3> QED
      BY <3>1, <3>2 DEF Family
  <2>4. CASE fork' # <<>>
    <3>1. /\ SendStart \/ Created \/ Pack
          /\ fork' = fork /\ polled' = polled
      BY <1>4, <2>4
         DEF ParentDoes, Begin, BeginFailed, LaunchFailed, PollFailed, CreateFailed,
             PackFailed, Kill, Finished, Return, SendStart, Created, Pack, creating
    <3>2. Mine' = Mine /\ Mine \subseteq Worker
      BY <1>0, <3>1, MineIs
    <3>3. pc' \in {"launch", "start"} => pc = "start"
      BY <3>1 DEF SendStart, Created, Pack, Packing
    <3> QED
      BY <1>0, <2>1, <2>2, <2>4, <3>1, <3>2, <3>3 DEF Family, Gone
  <2> QED
    BY <2>3, <2>4
<1> QED
  BY <1>1, <1>2, <1>3, <1>4, NextIs

\* All of it together.
LEMMA ShapeNext == Shape /\ [Next]_vars => Shape'
<1> SUFFICES ASSUME Shape, [Next]_vars PROVE Shape'
  OBVIOUS
<1>1. CASE Next
  <2>1. TypeInv'
    BY <1>1, NextIs, ParentTypes, WorkerTypes
  <2> QED
    BY <1>1, <2>1, PlacedNext, SplitNext, FamilyNext DEF Shape
<1>2. CASE UNCHANGED vars
  <2> USE <1>2 DEF vars, creating, working, result
  <2>1. TypeInv'
    BY DEF Shape, TypeInv, ParentType, WorkType, FileType, ArchiveType
  <2>2. Placed'
    BY DEF Shape, Placed
  <2>3. Split'
    BY DEF Shape, Split, Left, NumWorkers, TasksPerWorker, ShareOf, Order
  <2>4. Family'
    BY DEF Shape, Family, Mine
  <2> QED
    BY <2>1, <2>2, <2>3, <2>4 DEF Shape
<1> QED
  BY <1>1, <1>2

\* The parent and its workers stay well typed: no worker takes a package it has
\* not got, the parent forks as many workers as it counted and packs no archive
\* beyond the last, and a worker whose socket it has closed has sent all.
THEOREM TypeCorrect == Spec => []Shape
<1>1. Init => Shape
  BY InitShape
<1>2. Shape /\ [Next]_vars => Shape'
  BY ShapeNext
<1> QED
  BY <1>1, <1>2, PTL DEF Spec

---------------------------------------------------------------------------
(* The locks of the outputs.                                               *)

\* Only one worker is between its lseek and its writev.
LEMMA LockedNext == ASSUME Shape, Locked, [Next]_vars PROVE Locked'
<1>0. TypeInv /\ NoWorker \notin Worker
  BY CreateAssumption DEF Shape, Worker, NoWorker
<1>1. ASSUME NEW w \in Worker, WorkerDoes(w) PROVE Locked'
  <2> SUFFICES ASSUME NEW v \in Worker, wpc'[v] = "write",
                      v \notin lost'[output'[v]]
               PROVE  lock'[output'[v]] = v
    BY DEF Locked
  <2>0. output[v] \in Outputs /\ output[w] \in Outputs
    BY <1>0 DEF TypeInv, WorkType
  <2>1. CASE v # w
    <3>1. lock[output[v]] = v /\ output'[v] = output[v]
      <4>1. wpc[v] = "write" /\ output'[v] = output[v] /\ v \notin lost[output[v]]
        BY <1>0, <1>1, <2>0, <2>1, OwnOnly
      <4> QED
        BY <4>1 DEF Locked
    <3>2. CASE Flock(w)
      BY <1>0, <2>0, <2>1, <3>1, <3>2 DEF Flock, CanLock, TypeInv, FileType
    <3>3. CASE Write(w) \/ WorkFailed(w) \/ KillWorker(w)
      BY <1>0, <2>0, <2>1, <3>1, <3>3 DEF Write, WorkFailed, KillWorker, Unlocked
    <3>4. CASE Send(w) \/ End(w) \/ Skip(w)
      BY <3>1, <3>4 DEF Send, End, Skip
    <3> QED
      BY <1>1, <3>2, <3>3, <3>4 DEF WorkerDoes
  <2>2. CASE v = w
    <3>1. CASE Flock(w)
      <4>1. /\ output' = output /\ lost' = lost
            /\ lock' = [lock EXCEPT ![output[w]] =
                          IF w \in lost[output[w]] THEN @ ELSE w]
        BY <3>1 DEF Flock
      <4> QED
        BY <1>0, <2>0, <2>2, <4>1 DEF TypeInv, FileType
    <3>2. ~Flock(w) => wpc'[w] # "write"
      BY <1>0, <1>1
         DEF WorkerDoes, Write, Send, End, Ended, Skip, WorkFailed, KillWorker,
             TypeInv, WorkType
    <3> QED
      BY <2>2, <3>1, <3>2
  <2> QED
    BY <2>1, <2>2
<1>2. ASSUME NEW w \in Worker, ReadDoes(w) PROVE Locked'
  <2>1. UNCHANGED <<lock, lost, output>>
    BY <1>2 DEF ReadDoes, Receive, ReceiveEnd, Wait, working
  <2>2. \A v \in Worker : wpc'[v] = "write" => wpc[v] = "write"
    BY <1>0, <1>2 DEF ReadDoes, Receive, ReceiveEnd, Wait, working, TypeInv, WorkType
  <2> QED
    BY <2>1, <2>2 DEF Locked
<1>3. CASE Launch
  <2>1. PICK w \in Worker : wpc[w] = "none" /\ Fork(w)
    BY <1>3, LaunchForks
  <2>2. /\ wpc'[w] = "waiting" /\ lock' = lock
        /\ \A v \in Worker : v # w => wpc'[v] = wpc[v] /\ output'[v] = output[v]
        /\ \A v \in Worker : v # w => \A o \in Outputs : v \in lost'[o] <=> v \in lost[o]
    <3>1. lock' = lock
      BY <2>1 DEF Fork
    <3> QED
      BY <1>0, <2>1, <3>1, ForkedWorker
  <2>3. \A v \in Worker : output[v] \in Outputs
    BY <1>0 DEF TypeInv, WorkType
  <2> QED
    BY <2>2, <2>3 DEF Locked
<1>4. CASE ParentDoes /\ ~Launch
  <2>1. /\ output' = output
        /\ \A v \in Worker : wpc'[v] = "write" => wpc[v] = "write"
    BY <1>0, <1>4, ParentLeaves
  <2>2. \A v \in Worker : output[v] \in Outputs
    BY <1>0 DEF TypeInv, WorkType
  <2>3. CASE Pack \/ PackFailed
    <3>1. PICK a, k, c : PackInto(a, k, c)
      BY <2>3 DEF Pack, PackFailed
    <3>2. \A o \in Outputs :
             /\ o = a => lost'[o] = {v \in Worker : Alive(v)}
             /\ o # a => lost'[o] = lost[o] /\ lock'[o] = lock[o]
      BY <3>1 DEF PackInto
    <3>3. \A v \in Worker : wpc[v] = "write" => Alive(v)
      BY DEF Alive
    <3> QED
      BY <2>1, <2>2, <3>2, <3>3 DEF Locked
  <2>4. CASE ~(Pack \/ PackFailed)
    <3>1. lock' = lock /\ lost' = lost
      BY <1>4, <2>4
         DEF ParentDoes, Begin, BeginFailed, LaunchFailed, PollFailed, CreateFailed,
             Kill, Finished, Return, SendStart, Created, working
    <3> QED
      BY <2>1, <3>1 DEF Locked
  <2> QED
    BY <2>3, <2>4
<1>5. CASE UNCHANGED vars
  BY <1>5 DEF vars, working, Locked
<1> QED
  BY <1>1, <1>2, <1>3, <1>4, <1>5, NextIs

---------------------------------------------------------------------------
(* The positions.                                                          *)

\* What a step appends to the outputs.
LEMMA OutGrows ==
    ASSUME Shape, Next, ~Begin, ~Pack, ~PackFailed
    PROVE  \A o \in Outputs, n \in Nat : \A p : At(o, n, p) => At(o, n, p)'
<1>1. CASE out' = out
  BY <1>1 DEF At
<1>2. ASSUME NEW w \in Worker, Write(w)
      PROVE  \A o \in Outputs, n \in Nat : \A p : At(o, n, p) => At(o, n, p)'
  <2> SUFFICES ASSUME NEW o \in Outputs, NEW n \in Nat, NEW p, At(o, n, p)
               PROVE  At(o, n, p)'
    OBVIOUS
  <2>1. CASE out'[o] = out[o]
    BY <2>1 DEF At
  <2>2. CASE out'[o] = Append(out[o], Head(share[w]))
    <3>1. out[o] \in Seq(Packages)
      BY DEF Shape, TypeInv, FileType
    <3> QED
      BY <2>2, <3>1 DEF At
  <2>3. out'[o] = out[o] \/ out'[o] = Append(out[o], Head(share[w]))
    BY <1>2 DEF Write
  <2> QED
    BY <2>1, <2>2, <2>3
<1>3. ASSUME NEW w \in Worker, ReadDoes(w) \/ WorkerDoes(w), ~Write(w)
      PROVE  out' = out
  BY <1>3 DEF ReadDoes, WorkerDoes, Receive, ReceiveEnd, Wait, Flock, Send, End,
              Skip, WorkFailed, KillWorker
<1>4. ASSUME ParentDoes, ~Launch PROVE out' = out
  BY <1>4 DEF ParentDoes, BeginFailed, LaunchFailed, PollFailed, CreateFailed,
              Kill, SendStart, Created, Finished
<1>5. ASSUME Launch PROVE out' = out
  BY <1>5 DEF Launch, Fork
<1> QED
  BY <1>1, <1>2, <1>3, <1>4, <1>5, NextIs

\* The workers' notes stay right, whoever appends meanwhile.
LEMMA NotedKept ==
    ASSUME Shape, Locked, Pointing, pc \in CreatePc,
           NEW w \in Worker, WorkerDoes(w), NEW v \in Mine, v # w
    PROVE  Noted(v)' /\ Carried(v)'
<1>0. /\ TypeInv /\ Noted(v) /\ Carried(v) /\ v \in Worker
      /\ \A o \in Outputs : v \notin lost[o]
  BY MineIs DEF Shape, Pointing, Family
<1>1. Next /\ ~Begin /\ ~Pack /\ ~PackFailed /\ filelist' = filelist
  BY NextIs DEF WorkerDoes, Flock, Write, Send, End, Skip, WorkFailed, KillWorker,
                Unchanged, Begin, Pack, Packing, PackFailed, CreatePc
<1>2. /\ wpc'[v] = wpc[v] /\ share'[v] = share[v] /\ output'[v] = output[v]
      /\ pos'[v] = pos[v] /\ socket'[v] = socket[v]
  BY <1>0, OwnOnly
<1>3. /\ output[v] \in Outputs /\ pos[v] \in [Outputs -> Nat]
      /\ socket[v] \in Seq(Message)
  BY <1>0 DEF TypeInv, WorkType
<1>4. wpc[v] = "write" => out'[output[v]] = out[output[v]]
  <2>1. CASE Write(w)
    <3>1. output[w] \in Outputs /\ wpc[w] = "write"
      BY <1>0, <2>1 DEF Write, TypeInv, WorkType
    <3>2. wpc[v] = "write" => output[v] # output[w] \/ w \in lost[output[w]]
      BY <1>0, <3>1 DEF Locked
    <3> QED
      BY <1>3, <2>1, <3>2 DEF Write
  <2>2. CASE ~Write(w)
    BY <2>2 DEF WorkerDoes, Flock, Send, End, Skip, WorkFailed, KillWorker
  <2> QED
    BY <2>1, <2>2
<1>5. \A o \in Outputs, n \in Nat : \A p : At(o, n, p) => At(o, n, p)'
  BY <1>1, OutGrows
<1>6. \A o \in Outputs : Wanted(o)' = Wanted(o)
  BY <1>1 DEF Wanted
<1>7. Noted(v)'
  <2>1. wpc'[v] = "write" => pos'[v][output'[v]] = Len(out'[output'[v]])
    BY <1>0, <1>2, <1>4 DEF Noted
  <2>2. ASSUME wpc'[v] \in {"flock", "write"}, output'[v] = "files"
        PROVE  At("manifests", pos[v]["manifests"], Head(share[v]))'
    <3>1. At("manifests", pos[v]["manifests"], Head(share[v]))
      BY <1>0, <1>2, <2>2 DEF Noted
    <3> QED
      BY <1>2, <1>3, <1>5, <3>1 DEF At, Outputs
  <2>3. ASSUME wpc'[v] = "send", NEW o \in Outputs, Wanted(o)
        PROVE  At(o, pos[v][o], Head(share[v]))'
    <3>1. At(o, pos[v][o], Head(share[v]))
      BY <1>0, <1>2, <2>3 DEF Noted
    <3> QED
      BY <1>2, <1>3, <1>5, <3>1 DEF At
  <2> QED
    BY <1>6, <2>1, <2>2, <2>3 DEF Noted
<1>8. Carried(v)'
  <2> SUFFICES ASSUME NEW i \in 1..Len(socket[v]), socket[v][i] # EndMark,
                      NEW o \in Outputs, Wanted(o)
               PROVE  At(o, socket[v][i].position[o], socket[v][i].package)'
    BY <1>2, <1>6 DEF Carried
  <2>1. At(o, socket[v][i].position[o], socket[v][i].package)
    BY <1>0 DEF Carried
  <2>2. socket[v][i].position[o] \in Nat
    BY <1>3 DEF Message, Digest
  <2> QED
    BY <1>2, <1>5, <2>1, <2>2 DEF At
<1> QED
  BY <1>7, <1>8

\* A worker of this run notes the positions of its own package, and sends them.
LEMMA NotedByItself ==
    ASSUME Shape, Locked, Pointing, pc \in CreatePc,
           NEW w \in Mine, w \in Worker, WorkerDoes(w)
    PROVE  Noted(w)' /\ Carried(w)'
<1>0. /\ TypeInv /\ Placed /\ Noted(w) /\ Carried(w)
      /\ \A o \in Outputs : w \notin lost[o]
  BY DEF Shape, Pointing, Family
<1>1. /\ output[w] \in Outputs /\ pos[w] \in [Outputs -> Nat]
      /\ socket[w] \in Seq(Message) /\ share[w] \in Seq(Packages)
      /\ \A o \in Outputs : out[o] \in Seq(Packages)
  BY <1>0 DEF TypeInv, WorkType, FileType
<1>2. \A o \in Outputs, n \in Nat : \A p : At(o, n, p) => At(o, n, p)'
  <2>1. Next /\ ~Begin /\ ~Pack /\ ~PackFailed
    BY NextIs DEF Begin, Pack, Packing, PackFailed, CreatePc
  <2> QED
    BY <2>1, OutGrows
<1>3. filelist' = filelist /\ \A o \in Outputs : Wanted(o)' = Wanted(o)
  BY DEF WorkerDoes, Flock, Write, Send, End, Skip, WorkFailed, KillWorker,
         Unchanged, Wanted
<1>4. CASE Flock(w)
  <2>1. /\ wpc'[w] = "write" /\ output' = output /\ out' = out /\ share' = share
        /\ socket' = socket
        /\ pos'[w] = [pos[w] EXCEPT ![output[w]] = Len(out[output[w]])]
    BY <1>0, <1>4 DEF Flock, TypeInv, WorkType
  <2>2. pos'[w][output[w]] = Len(out[output[w]])
    BY <1>1, <2>1
  <2>3. output[w] = "files" => pos'[w]["manifests"] = pos[w]["manifests"]
    BY <1>1, <2>1 DEF Outputs
  <2>4. output[w] = "files" => wpc[w] = "flock"
    BY <1>0, <1>4 DEF Flock, Placed
  <2>5. output[w] = "files" => At("manifests", pos[w]["manifests"], Head(share[w]))
    BY <1>0, <2>4 DEF Noted
  <2>6. Noted(w)'
    BY <2>1, <2>2, <2>3, <2>5 DEF Noted, At
  <2>7. Carried(w)'
    BY <1>0, <1>3, <2>1 DEF Carried, At
  <2> QED
    BY <2>6, <2>7
<1>5. CASE Write(w)
  <2>1. /\ wpc[w] = "write" /\ pos' = pos /\ share' = share /\ socket' = socket
        /\ out'[output[w]] = Append(out[output[w]], Head(share[w]))
    BY <1>0, <1>1, <1>5 DEF Write
  <2>2. pos[w][output[w]] = Len(out[output[w]])
    BY <1>0, <2>1 DEF Noted
  <2>4. /\ pos'[w][output[w]] < Len(out'[output[w]])
        /\ out'[output[w]][pos'[w][output[w]] + 1] = Head(share'[w])
    BY <1>1, <2>1, <2>2
  <2>5. Carried(w)'
    <3> SUFFICES ASSUME NEW i \in 1..Len(socket[w]), socket[w][i] # EndMark,
                        NEW o \in Outputs, Wanted(o)
                 PROVE  At(o, socket[w][i].position[o], socket[w][i].package)'
      BY <1>3, <2>1 DEF Carried
    <3>1. At(o, socket[w][i].position[o], socket[w][i].package)
      BY <1>0 DEF Carried
    <3>2. socket[w][i].position[o] \in Nat
      BY <1>1 DEF Message, Digest
    <3> QED
      BY <1>2, <2>1, <3>1, <3>2 DEF At
  <2>6. CASE filelist /\ output[w] = "manifests"
    <3>1. output'[w] = "files" /\ wpc'[w] = "flock"
      BY <1>0, <1>5, <2>6 DEF Write, TypeInv, WorkType
    <3>2. Noted(w)'
      BY <2>4, <2>6, <3>1 DEF Noted, At
    <3> QED
      BY <2>5, <3>2
  <2>7. CASE ~(filelist /\ output[w] = "manifests")
    <3>1. wpc'[w] = "send"
      BY <1>0, <1>5, <2>7 DEF Write, TypeInv, WorkType
    <3>2. ASSUME NEW o \in Outputs, Wanted(o)
          PROVE  At(o, pos[w][o], Head(share[w]))'
      <4>1. CASE o = output[w]
        BY <2>4, <4>1 DEF At
      <4>2. CASE o # output[w]
        <5>1. output[w] = "files" /\ o = "manifests"
          BY <1>0, <1>1, <2>1, <2>7, <3>2, <4>2 DEF Wanted, Outputs, Placed, Working
        <5>2. At("manifests", pos[w]["manifests"], Head(share[w]))
          BY <1>0, <2>1, <5>1 DEF Noted
        <5>3. pos[w]["manifests"] \in Nat /\ "manifests" \in Outputs
          BY <1>1 DEF Outputs
        <5> QED
          BY <1>2, <2>1, <5>1, <5>2, <5>3 DEF At
      <4> QED
        BY <4>1, <4>2
    <3>3. Noted(w)'
      BY <1>3, <3>1, <3>2 DEF Noted
    <3> QED
      BY <2>5, <3>3
  <2> QED
    BY <2>6, <2>7
<1>6. CASE Send(w)
  <2>1. PICK m : m = [package |-> Head(share[w]), position |-> pos[w]]
    OBVIOUS
  <2>2. m.package = Head(share[w]) /\ m.position = pos[w]
    BY <2>1
  <2>3. /\ socket'[w] = Append(socket[w], m) /\ out' = out /\ wpc'[w] = "open"
        /\ wpc[w] = "send"
    BY <1>0, <1>6, <2>1 DEF Send, TypeInv, WorkType
  <2>4. /\ Len(socket'[w]) = Len(socket[w]) + 1 /\ Len(socket[w]) \in Nat
        /\ socket'[w][Len(socket[w]) + 1] = m
        /\ \A i \in 1..Len(socket[w]) : socket'[w][i] = socket[w][i]
    BY <1>1, <2>3
  <2>5. Noted(w)'
    BY <2>3 DEF Noted
  <2>6. Carried(w)'
    <3> SUFFICES ASSUME NEW i \in 1..Len(socket'[w]), socket'[w][i] # EndMark,
                        NEW o \in Outputs, Wanted(o)
                 PROVE  At(o, socket'[w][i].position[o], socket'[w][i].package)
      BY <1>3, <2>3 DEF Carried, At
    <3>1. CASE i = Len(socket[w]) + 1
      BY <1>0, <2>2, <2>3, <2>4, <3>1 DEF Noted
    <3>2. CASE i \in 1..Len(socket[w])
      BY <1>0, <2>4, <3>2 DEF Carried
    <3> QED
      BY <2>4, <3>1, <3>2
  <2> QED
    BY <2>5, <2>6
<1>7. CASE End(w)
  <2>1. /\ socket'[w] = Append(socket[w], EndMark) /\ out' = out
        /\ wpc'[w] = "exited"
    BY <1>0, <1>7 DEF End, Ended, TypeInv, WorkType
  <2>2. /\ Len(socket'[w]) = Len(socket[w]) + 1 /\ Len(socket[w]) \in Nat
        /\ socket'[w][Len(socket[w]) + 1] = EndMark
        /\ \A i \in 1..Len(socket[w]) : socket'[w][i] = socket[w][i]
    BY <1>1, <2>1
  <2>3. Carried(w)'
    <3> SUFFICES ASSUME NEW i \in 1..Len(socket'[w]), socket'[w][i] # EndMark,
                        NEW o \in Outputs, Wanted(o)
                 PROVE  At(o, socket'[w][i].position[o], socket'[w][i].package)
      BY <1>3, <2>1 DEF Carried, At
    <3>1. i \in 1..Len(socket[w])
      BY <2>2
    <3> QED
      BY <1>0, <2>2, <3>1 DEF Carried
  <2>4. Noted(w)'
    BY <2>1 DEF Noted
  <2> QED
    BY <2>3, <2>4
<1>8. CASE Skip(w) \/ WorkFailed(w) \/ KillWorker(w)
  <2>1. wpc'[w] \in {"open", "exited"} /\ out' = out /\ socket'[w] = socket[w]
    BY <1>0, <1>8 DEF Skip, WorkFailed, KillWorker, Ended, TypeInv, WorkType
  <2>2. Noted(w)'
    BY <2>1 DEF Noted
  <2>3. Carried(w)'
    BY <1>0, <1>3, <2>1 DEF Carried, At
  <2> QED
    BY <2>2, <2>3
<1> QED
  BY <1>4, <1>5, <1>6, <1>7, <1>8 DEF WorkerDoes

\* Positions of digests received, on their way and to be sent are right.
LEMMA PointingNext == ASSUME Shape, Locked, Pointing, [Next]_vars PROVE Pointing'
<1>0. TypeInv /\ Family
  BY DEF Shape
<1> SUFFICES ASSUME pc' \in CreatePc PROVE Pointing'
  BY DEF Pointing
<1>1. CASE Begin
  <2>1. dlist' = {} /\ Mine' = {}
    BY <1>0, <1>1, MineIs DEF Begin
  <2> QED
    BY <2>1 DEF Pointing
<1>2. ASSUME NEW w \in Worker, WorkerDoes(w) PROVE Pointing'
  <2>1. /\ pc' = pc /\ dlist' = dlist /\ fork' = fork /\ filelist' = filelist
    BY <1>2 DEF WorkerDoes, Flock, Write, Send, End, Skip, WorkFailed, KillWorker,
                Unchanged, creating
  <2>2. \A v \in Mine : Noted(v)' /\ Carried(v)'
    BY <1>2, <2>1, NotedKept, NotedByItself
  <2>3. \A o \in Outputs, n \in Nat : \A p : At(o, n, p) => At(o, n, p)'
    <3>1. Next /\ ~Begin /\ ~Pack /\ ~PackFailed
      BY <1>2, <2>1, NextIs DEF Begin, Pack, Packing, PackFailed, CreatePc
    <3> QED
      BY <3>1, OutGrows
  <2>4. ASSUME NEW d \in dlist, NEW o \in Outputs, Wanted(o)
        PROVE  At(o, d.position[o], d.package)'
    <3>1. At(o, d.position[o], d.package)
      BY <2>1, <2>4 DEF Pointing
    <3>2. d.position[o] \in Nat
      BY <1>0 DEF TypeInv, ParentType, Digest
    <3> QED
      BY <2>3, <3>1, <3>2
  <2>5. \A o \in Outputs : Wanted(o)' = Wanted(o)
    BY <2>1 DEF Wanted
  <2>6. Mine' = Mine
    BY <1>0, <2>1, MineIs
  <2> QED
    BY <2>1, <2>2, <2>4, <2>5, <2>6 DEF Pointing
<1>3. ASSUME NEW w \in Worker, ReadDoes(w) PROVE Pointing'
  <2>1. /\ pc \in CreatePc /\ fork' = fork /\ out' = out /\ filelist' = filelist
        /\ share' = share /\ output' = output /\ pos' = pos
    BY <1>3 DEF ReadDoes, Receive, ReceiveEnd, Wait, CreatePc, creating, working
  <2>2. Mine' = Mine /\ \A o \in Outputs : Wanted(o)' = Wanted(o)
    BY <1>0, <2>1, MineIs DEF Wanted
  <2>3. \A v \in Mine : /\ wpc'[v] \in Working => wpc'[v] = wpc[v]
    BY <1>0, <1>3, MineIs
       DEF ReadDoes, Receive, ReceiveEnd, Wait, working, Working, TypeInv, WorkType
  <2>4. \A v \in Mine : Noted(v)'
    BY <2>1, <2>2, <2>3 DEF Pointing, Noted, At, Working
  <2>5. CASE Receive(w)
    <3>1. /\ socket[w] \in Seq(Message) /\ socket[w] # <<>> /\ w \in Mine
          /\ socket'[w] = Tail(socket[w])
      BY <1>0, <2>5 DEF Receive, TypeInv, WorkType, Family
    <3>2. /\ Len(socket[w]) \in Nat \ {0} /\ Head(socket[w]) = socket[w][1]
          /\ \A i \in 1..Len(socket'[w]) :
                i + 1 \in 1..Len(socket[w]) /\ socket'[w][i] = socket[w][i + 1]
      BY <3>1, HeadTailProperties, EmptySeq
    <3>3. \A v \in Mine : Carried(v)'
      <4>1. Carried(w)'
        BY <2>1, <2>2, <3>1, <3>2 DEF Pointing, Carried, At
      <4>2. \A v \in Mine : v # w => socket'[v] = socket[v]
        BY <1>0, <1>3, OwnOnly, MineIs
      <4> QED
        BY <2>1, <2>2, <4>1, <4>2 DEF Pointing, Carried, At
    <3>4. ASSUME NEW d \in dlist', NEW o \in Outputs, Wanted(o)
          PROVE  At(o, d.position[o], d.package)
      <4>1. CASE d \in dlist
        BY <2>1, <3>4, <4>1 DEF Pointing
      <4>2. CASE d \notin dlist
        <5>1. d = Head(socket[w]) /\ Head(socket[w]) # EndMark
          BY <2>5, <4>2 DEF Receive
        <5>2. 1 \in 1..Len(socket[w]) /\ d = socket[w][1] /\ d # EndMark
          BY <3>2, <5>1
        <5> QED
          BY <2>1, <3>1, <3>4, <5>2 DEF Pointing, Carried
      <4> QED
        BY <4>1, <4>2
    <3> QED
      BY <2>1, <2>2, <2>4, <3>3, <3>4 DEF Pointing, At
  <2>6. CASE ReceiveEnd(w) \/ Wait(w)
    <3>1. socket' = socket /\ dlist' = dlist
      BY <2>6 DEF ReceiveEnd, Wait, working, creating
    <3> QED
      BY <2>1, <2>2, <2>4, <3>1 DEF Pointing, Carried, At
  <2> QED
    BY <1>3, <2>5, <2>6 DEF ReadDoes
<1>4. CASE Launch
  <2>1. PICK w \in Worker : wpc[w] = "none" /\ Fork(w)
    BY <1>4, LaunchForks
  <2>2. /\ pc \in CreatePc /\ out' = out /\ filelist' = filelist /\ dlist' = dlist
    BY <1>4, <2>1 DEF Launch, Fork, CreatePc
  <2>3. Mine' = Mine \cup {w} /\ \A o \in Outputs : Wanted(o)' = Wanted(o)
    BY <1>0, <2>1, <2>2, MineIs DEF Fork, Wanted
  <2>4. wpc'[w] = "waiting" /\ socket'[w] = <<>>
    BY <1>0, <2>1, ForkedWorker
  <2>5. Len(<<>>) = 0
    OBVIOUS
  <2>6. Noted(w)' /\ Carried(w)'
    BY <2>4, <2>5 DEF Noted, Carried
  <2>7. ASSUME NEW v \in Mine PROVE Noted(v)' /\ Carried(v)'
    <3>1. v \in Worker /\ v # w
      BY <1>0, <1>4, <2>1, MineIs DEF Family, Launch
    <3>2. /\ wpc'[v] = wpc[v] /\ share'[v] = share[v] /\ output'[v] = output[v]
          /\ pos'[v] = pos[v] /\ socket'[v] = socket[v]
      BY <1>0, <2>1, <3>1, ForkedWorker
    <3> QED
      BY <2>2, <2>3, <3>2 DEF Pointing, Noted, Carried, At
  <2> QED
    BY <2>2, <2>3, <2>6, <2>7 DEF Pointing, At
<1>5. CASE ParentDoes /\ ~Launch /\ ~Begin
  <2>1. SendStart
    BY <1>5 DEF ParentDoes, BeginFailed, LaunchFailed, PollFailed, CreateFailed,
                PackFailed, Kill, Created, Pack, Packing, Finished, Return, CreatePc
  <2>2. /\ pc \in CreatePc /\ out' = out /\ dlist' = dlist
        /\ fork' = fork
    BY <2>1 DEF SendStart, CreatePc, creating
  <2>3. /\ UNCHANGED <<share, output, pos, socket, filelist>>
        /\ \A v \in Worker : wpc'[v] \in Working => wpc'[v] = wpc[v]
    BY <1>0, <1>5, ParentLeaves DEF Working
  <2>4. /\ Mine' = Mine /\ Mine \subseteq Worker
        /\ \A o \in Outputs : Wanted(o)' = Wanted(o)
    BY <1>0, <2>2, <2>3, MineIs DEF Wanted
  <2> QED
    BY <2>2, <2>3, <2>4 DEF Pointing, Noted, Carried, At, Working
<1>6. CASE UNCHANGED vars
  BY <1>6 DEF vars, working, creating, Pointing, Noted, Carried, At, Wanted, Mine
<1> QED
  BY <1>1, <1>2, <1>3, <1>4, <1>5, <1>6, NextIs

---------------------------------------------------------------------------
(* The archives.                                                           *)

\* An archive that is packed has what its file had.
LEMMA PackMoves ==
    ASSUME Shape, Pack
    PROVE  /\ Digests' = Digests
           /\ \A o \in Outputs : Lines(o)' = Lines(o)
<1>0. TypeInv /\ Split /\ legacy \in BOOLEAN /\ filelist \in BOOLEAN /\ step \in Nat
  BY DEF Shape, TypeInv, ParentType
<1>1. PICK a : a = Order[step]
  OBVIOUS
<1>2. PICK c : c = Source(a)
  OBVIOUS
<1>3. /\ step \in 1..Len(Order) /\ Len(Order) \in Nat /\ step' = step + 1
      /\ PackInto(a, "packed", c)
      /\ filelist' = filelist /\ legacy' = legacy
  BY <1>0, <1>1, <1>2, OrderDistinct DEF Pack, Packing, Split
<1>4. Order' = Order
  BY <1>3 DEF Order
<1>5. \A b : Packed(b)' <=> Packed(b) \/ b = a
  <2>1. 1..(step' - 1) = 1..(step - 1) \cup {step}
    BY <1>0, <1>3
  <2> QED
    BY <1>1, <1>3, <1>4, <2>1 DEF Packed
<1>6. ~Packed(a)
  <2> SUFFICES ASSUME NEW i \in 1..(step - 1), Order[i] = a PROVE FALSE
    BY DEF Packed
  <2>1. i \in 1..Len(Order) /\ i # step
    BY <1>0, <1>3
  <2> QED
    BY <1>0, <1>1, <1>3, <2>1, OrderDistinct
<1>7. a \in Archives
  BY <1>0, <1>1, NextPacked DEF Pack
<1>8. /\ DOMAIN archive = Archives
      /\ archive' = [archive EXCEPT ![a] = [is |-> "packed", has |-> c]]
  BY <1>0, <1>3 DEF PackInto, TypeInv, ArchiveType
<1>9. archive'[a].has = c /\ \A b \in Archives : b # a => archive'[b] = archive[b]
  BY <1>7, <1>8
<1>10. Digests' = Digests
  <2>1. CASE a = "digests"
    <3>1. Digests' = c
      BY <1>5, <1>9, <2>1 DEF Digests
    <3>2. Digests = digests
      BY <1>6, <2>1 DEF Digests
    <3>3. c = digests
      BY <1>2, <2>1 DEF Source, Outputs
    <3> QED
      BY <3>1, <3>2, <3>3
  <2>2. CASE a # "digests"
    <3>1. digests' = digests
      BY <1>3, <2>2 DEF PackInto
    <3>2. archive'["digests"] = archive["digests"]
      BY <1>9, <2>2 DEF Archives
    <3> QED
      BY <1>5, <2>2, <3>1, <3>2 DEF Digests
  <2> QED
    BY <2>1, <2>2
<1>11. ASSUME NEW o \in Outputs PROVE Lines(o)' = Lines(o)
  <2>1. CASE o = a
    <3>1. Lines(o)' = c
      BY <1>5, <1>9, <2>1 DEF Lines
    <3>2. Lines(o) = out[o]
      BY <1>6, <2>1 DEF Lines
    <3>3. c = out[o]
      BY <1>2, <2>1 DEF Source
    <3> QED
      BY <3>1, <3>2, <3>3
  <2>2. CASE o # a
    <3>1. out'[o] = out[o]
      BY <1>3, <2>2 DEF PackInto
    <3>2. archive'[o] = archive[o]
      BY <1>9, <2>2 DEF Archives
    <3> QED
      BY <1>5, <2>2, <3>1, <3>2 DEF Lines
  <2> QED
    BY <2>1, <2>2
<1> QED
  BY <1>10, <1>11

\* The digests fit the outputs while these are packed.
LEMMA FittingNext ==
    ASSUME Shape, Pointing, Fitting, [Next]_vars PROVE Fitting'
<1>0. TypeInv /\ Split /\ legacy \in BOOLEAN /\ filelist \in BOOLEAN /\ step \in Nat
  BY DEF Shape, TypeInv, ParentType
<1> SUFFICES ASSUME pc' = "pack" PROVE Fitting'
  BY DEF Fitting
<1>1. CASE Created
  <2>1. /\ pc \in CreatePc /\ step' = 1 /\ digests' = dlist /\ out' = out
        /\ filelist' = filelist
    BY <1>1 DEF Created, CreatePc
  <2>2. \A a : ~Packed(a)'
    <3>1. 1..(step' - 1) = {}
      BY <2>1
    <3> QED
      BY <3>1 DEF Packed
  <2>3. Digests' = dlist /\ \A o \in Outputs : Lines(o)' = out[o]
    BY <2>1, <2>2 DEF Digests, Lines
  <2> QED
    BY <2>1, <2>3 DEF Fitting, Pointing, Points, At, Wanted
<1>2. CASE Pack
  <2>1. pc = "pack" /\ filelist' = filelist
    BY <1>2 DEF Pack, Packing
  <2> QED
    BY <1>2, <2>1, PackMoves DEF Fitting, Points, Wanted
<1>3. ASSUME NEW w \in Worker, WorkerDoes(w) PROVE Fitting'
  <2>1. /\ pc = "pack" /\ step' = step /\ archive' = archive /\ digests' = digests
        /\ filelist' = filelist /\ legacy' = legacy
    BY <1>3 DEF WorkerDoes, Flock, Write, Send, End, Skip, WorkFailed, KillWorker,
                Unchanged, result
  <2>2. Order' = Order
    BY <2>1 DEF Order
  <2>3. Digests' = Digests /\ \A a : Packed(a)' = Packed(a)
    BY <2>1, <2>2 DEF Digests, Packed
  <2>4. \A o \in Outputs, n \in Nat : \A p : At(o, n, p) => At(o, n, p)'
    <3>1. Next /\ ~Begin /\ ~Pack /\ ~PackFailed
      <4>1. ~Begin /\ ~PackFailed
        BY <2>1 DEF Begin, PackFailed
      <4>2. ~Pack
        BY <1>0, <2>1 DEF Pack
      <4> QED
        BY <1>3, <4>1, <4>2, NextIs
    <3> QED
      BY <3>1, OutGrows
  <2>5. Digests \subseteq Digest
    BY <1>0 DEF Digests, TypeInv, FileType, ArchiveType, Archives
  <2> SUFFICES ASSUME NEW o \in Outputs, Wanted(o), NEW d \in Digests
               PROVE  /\ d.position[o] < Len(Lines(o)')
                      /\ Lines(o)'[d.position[o] + 1] = d.package
    BY <2>1, <2>3 DEF Fitting, Points, Wanted
  <2>6. /\ d.position[o] < Len(Lines(o))
        /\ Lines(o)[d.position[o] + 1] = d.package
    BY <2>1 DEF Fitting, Points
  <2>7. d.position[o] \in Nat
    BY <2>5 DEF Digest
  <2>8. CASE Packed(o)
    BY <2>1, <2>3, <2>6, <2>8 DEF Lines
  <2>9. CASE ~Packed(o)
    <3>1. At(o, d.position[o], d.package)'
      <4>1. At(o, d.position[o], d.package)
        BY <2>6, <2>9 DEF Lines, At
      <4> QED
        BY <2>4, <2>7, <4>1
    <3> QED
      BY <2>3, <2>9, <3>1 DEF Lines, At
  <2> QED
    BY <2>8, <2>9
<1>4. CASE ParentDoes /\ ~Created /\ ~Pack
  BY <1>4 DEF ParentDoes, Begin, BeginFailed, LaunchFailed, PollFailed, CreateFailed,
              PackFailed, Kill, Finished, Return, Launch, Fork, SendStart
<1>5. \A w \in Worker : ~ReadDoes(w)
  BY DEF ReadDoes, Receive, ReceiveEnd, Wait
<1>6. CASE UNCHANGED vars
  <2>1. UNCHANGED <<pc, step, archive, digests, filelist, legacy, out>>
    BY <1>6 DEF vars, result
  <2>2. Order' = Order
    BY <2>1 DEF Order
  <2> QED
    BY <2>1, <2>2 DEF Fitting, Points, Digests, Lines, Packed, Wanted
<1> QED
  BY <1>1, <1>2, <1>3, <1>4, <1>5, <1>6, NextIs

\* The archives of a run that ended well belong together, until the next packs.
LEMMA AgreeNext ==
    ASSUME Shape, Fitting, ArchivesAgree, Pointing', [Next]_vars
    PROVE  ArchivesAgree'
<1>0. TypeInv /\ Split /\ legacy \in BOOLEAN /\ filelist \in BOOLEAN /\ step \in Nat
  BY DEF Shape, TypeInv, ParentType
<1>1. ASSUME pc' \in CreatePc, NEW o \in Outputs, Wanted(o)'
      PROVE  Points(dlist, o, out[o])'
  BY <1>1 DEF Pointing, At, Points
<1>2. ASSUME whole'
      PROVE  /\ \A o \in Outputs : Wanted(o)' =>
                   Points(archive'["digests"].has, o, archive'[o].has)
             /\ archive'["meta"].is # "absent" =>
                   \A a \in Archives \ {"files"} : mtime'[a] = mtime'["meta"]
  <2>1. CASE Finished
    <3>1. /\ archive' = archive /\ filelist' = filelist /\ pc = "pack"
          /\ step > Len(Order)
          /\ mtime' = IF archive["meta"].is = "absent" THEN mtime
                      ELSE [a \in Archives |->
                              IF a = "files" /\ ~filelist THEN mtime[a]
                              ELSE mtime["meta"]]
      BY <2>1 DEF Finished
    <3>2. /\ \A o \in Outputs : Wanted(o) => Packed(o)
          /\ Packed("digests")
      <4>1. ASSUME NEW a, NEW i \in 1..Len(Order), Order[i] = a PROVE Packed(a)
        <5>1. i \in 1..(step - 1) /\ i <= Len(Order)
          BY <1>0, <3>1, OrderDistinct
        <5> QED
          BY <4>1, <5>1 DEF Packed
      <4>2. Len(Order) \in 1..Len(Order)
        BY <1>0, OrderDistinct
      <4> QED
        BY <1>0, <4>1, <4>2, OrderDistinct
    <3>3. \A o \in Outputs : Wanted(o) =>
             Points(archive["digests"].has, o, archive[o].has)
      BY <3>1, <3>2 DEF Fitting, Digests, Lines
    <3>4. archive'["meta"].is # "absent" =>
             \A a \in Archives \ {"files"} : mtime'[a] = mtime'["meta"]
      BY <3>1 DEF Archives
    <3> QED
      BY <3>1, <3>3, <3>4 DEF Points, Wanted
  <2>2. CASE ~Finished
    <3>1. UNCHANGED <<whole, archive, mtime, filelist>>
      <4>1. ASSUME NEW w \in Worker, ReadDoes(w) \/ WorkerDoes(w)
            PROVE  UNCHANGED <<whole, archive, mtime, filelist>>
        BY <4>1 DEF ReadDoes, WorkerDoes, Receive, ReceiveEnd, Wait, Flock, Write,
                    Send, End, Skip, WorkFailed, KillWorker, Unchanged, result
      <4>2. ASSUME ParentDoes PROVE UNCHANGED <<whole, archive, mtime, filelist>>
        <5>1. ~Pack /\ ~PackFailed
          BY <1>2 DEF Pack, PackFailed, PackInto
        <5>2. Launch => \E w \in Worker : Fork(w)
          BY LaunchForks
        <5> QED
          BY <2>2, <4>2, <5>1, <5>2
             DEF ParentDoes, Begin, BeginFailed, LaunchFailed, PollFailed,
                 CreateFailed, Kill, Fork, SendStart, Created, result
      <4>3. UNCHANGED vars => UNCHANGED <<whole, archive, mtime, filelist>>
        BY DEF vars, result
      <4> QED
        BY <4>1, <4>2, <4>3, NextIs
    <3> QED
      BY <1>2, <3>1 DEF ArchivesAgree, Points, Wanted
  <2> QED
    BY <2>1, <2>2
<1> QED
  BY <1>1, <1>2 DEF ArchivesAgree, CreatePc, Points

\* The digests the parent has received point at the lines of their packages,
\* although the workers of all runs append to the same files; the archives of a
\* run that ended well belong together until the next run packs: lseek and
\* writev are under one flock, and no archive is packed while a worker of the
\* run is alive.
THEOREM DigestsPoint == Spec => []ArchivesAgree
<1>1. Init => Agreeing
  <2> SUFFICES ASSUME Init PROVE Agreeing
    OBVIOUS
  <2>1. Locked /\ Pointing /\ Fitting /\ ArchivesAgree
    BY DEF Init, Locked, Pointing, Fitting, ArchivesAgree, CreatePc
  <2> QED
    BY <2>1, InitShape DEF Agreeing
<1>2. Agreeing /\ [Next]_vars => Agreeing'
  BY ShapeNext, LockedNext, PointingNext, FittingNext, AgreeNext DEF Agreeing
<1>3. Agreeing => ArchivesAgree
  BY DEF Agreeing
<1> QED
  BY <1>1, <1>2, <1>3, PTL DEF Spec

---------------------------------------------------------------------------
(* The packages.                                                           *)

\* The steps of a worker lose a package only when something fails.
LEMMA WorkKeepsPackages ==
    ASSUME Shape, NEW w \in Worker, w \in Mine, WorkerDoes(w), ~spoiled', NEW p,
           With(w, p)
    PROVE  With(w, p)'
<1>0. /\ share[w] \in Seq(Packages) /\ socket[w] \in Seq(Message)
      /\ pos[w] \in [Outputs -> Nat]
      /\ wpc[w] \in Working => share[w] # <<>>
  BY DEF Shape, TypeInv, WorkType, Placed
<1>1. CASE Send(w)
  <2>1. PICK m : m = [package |-> Head(share[w]), position |-> pos[w]]
    OBVIOUS
  <2>2. /\ share'[w] = Tail(share[w]) /\ socket'[w] = Append(socket[w], m)
        /\ share[w] # <<>>
    BY <1>0, <1>1, <2>1 DEF Shape, TypeInv, WorkType, Send, Working
  <2>3. m.package = Head(share[w]) /\ m \in Message /\ m # EndMark
    BY <1>0, <2>1, <2>2, EndMarkIsNoDigest DEF Digest, Message
  <2>4. In(share[w], p) => p = Head(share[w]) \/ In(share'[w], p)
    BY <1>0, <2>2, InTail
  <2>5. Tells(socket'[w], p) <=> Tells(socket[w], p) \/ p = Head(share[w])
    BY <1>0, <2>2, <2>3, TellsAppend
  <2> QED
    BY <2>4, <2>5 DEF With
<1>2. CASE End(w)
  <2>1. /\ share'[w] = share[w] /\ socket'[w] = Append(socket[w], EndMark)
        /\ EndMark \in Message
    BY <1>2 DEF Shape, TypeInv, WorkType, End, Message
  <2>2. Tells(socket'[w], p) <=> Tells(socket[w], p)
    BY <1>0, <2>1, TellsAppend
  <2> QED
    BY <2>1, <2>2 DEF With
<1>3. CASE Flock(w) \/ Write(w)
  BY <1>3 DEF Flock, Write, With
<1>4. ~(Skip(w) \/ WorkFailed(w) \/ KillWorker(w))
  BY DEF Skip, WorkFailed, KillWorker
<1> QED
  BY <1>1, <1>2, <1>3, <1>4 DEF WorkerDoes

\* As long as nothing fails, no package gets lost.
LEMMA AccountedNext == ASSUME Shape, Accounted, [Next]_vars PROVE Accounted'
<1>0. TypeInv /\ Family /\ Split
  BY DEF Shape
<1> SUFFICES ASSUME pc' # "idle", ~spoiled', NEW p \in Packages
             PROVE  \/ In(rest', p) \/ Listed(p)'
                    \/ \E w \in Mine' : With(w, p)'
  BY DEF Accounted, With
<1> DEFINE Goal == \/ In(rest', p) \/ Listed(p)'
                   \/ \E w \in Mine' : With(w, p)'
<1>1. CASE Begin
  <2>1. rest' = Files
    BY <1>1 DEF Begin
  <2>2. In(Files, p)
    BY Numbers DEF Packages, In, Range
  <2> QED
    BY <2>1, <2>2
<1>2. ASSUME pc # "idle", ~spoiled
      PROVE  \/ In(rest, p) \/ Listed(p)
             \/ \E w \in Mine : With(w, p)
  BY <1>2 DEF Accounted, With
<1>3. ASSUME NEW w \in Worker, WorkerDoes(w) PROVE Goal
  <2>1. UNCHANGED <<pc, fork, rest, dlist>>
    BY <1>3
       DEF WorkerDoes, Flock, Write, Send, End, Skip, WorkFailed, KillWorker,
           Unchanged, creating
  <2>2. spoiled \in BOOLEAN /\ (spoiled' = spoiled \/ (spoiled => spoiled'))
    BY <1>0, <1>3, Zenon
       DEF WorkerDoes, Flock, Write, Send, End, Skip, WorkFailed, KillWorker,
           TypeInv, ParentType
  <2>3. UNCHANGED <<pc, fork, rest, dlist>> /\ ~spoiled /\ Mine' = Mine
    BY <1>0, <2>1, <2>2, MineIs
  <2>4. \A v \in Mine : v # w => With(v, p)' = With(v, p)
    BY <1>0, <1>3, OwnOnly, MineIs DEF With
  <2>5. w \in Mine /\ With(w, p) => With(w, p)'
    BY <1>3, WorkKeepsPackages
  <2> QED
    BY <1>2, <2>3, <2>4, <2>5 DEF Listed
<1>4. ASSUME NEW w \in Worker, ReadDoes(w) PROVE Goal
  <2>1. /\ UNCHANGED <<fork, rest, share, spoiled>> /\ Mine' = Mine
        /\ pc # "idle"
    BY <1>0, <1>4, MineIs DEF ReadDoes, Receive, ReceiveEnd, Wait, creating, working
  <2>2. CASE Receive(w)
    <3>1. /\ socket[w] \in Seq(Message) /\ socket[w] # <<>>
          /\ socket'[w] = Tail(socket[w])
          /\ \A v \in Worker : v # w => socket'[v] = socket[v]
      BY <1>0, <2>2 DEF Receive, TypeInv, WorkType
    <3>2. Tells(socket[w], p) => \/ Head(socket[w]) # EndMark
                                    /\ Head(socket[w]).package = p
                                 \/ Tells(socket'[w], p)
      BY <3>1, TellsTail
    <3>3. /\ Listed(p) => Listed(p)'
          /\ Head(socket[w]) # EndMark /\ Head(socket[w]).package = p => Listed(p)'
      BY <2>2 DEF Receive, Listed
    <3>4. Mine \subseteq Worker
      BY <1>0, MineIs
    <3> QED
      BY <1>2, <2>1, <3>1, <3>2, <3>3, <3>4 DEF With
  <2>3. CASE ReceiveEnd(w) \/ Wait(w)
    <3>1. socket' = socket /\ dlist' = dlist
      BY <2>3 DEF ReceiveEnd, Wait, working, creating
    <3> QED
      BY <1>2, <2>1, <3>1 DEF With, Listed
  <2> QED
    BY <1>4, <2>2, <2>3 DEF ReadDoes
<1>5. CASE Launch
  <2>1. PICK w \in Worker : wpc[w] = "none" /\ Fork(w)
    BY <1>5, LaunchForks
  <2>2. /\ pc = "launch" /\ spoiled' = spoiled /\ dlist' = dlist
        /\ rest' = SubSeq(rest, jobs + 1, Len(rest)) /\ jobs \in 0..Len(rest)
        /\ rest \in Seq(Packages) /\ Mine' = Mine \cup {w}
    <3>1. /\ pc = "launch" /\ jobs <= Len(rest) /\ jobs \in Nat
          /\ rest \in Seq(Packages)
      BY <1>0, <1>5 DEF Launch, TypeInv, ParentType
    <3>2. /\ spoiled' = spoiled /\ dlist' = dlist /\ fork' = Append(fork, w)
          /\ rest' = SubSeq(rest, jobs + 1, Len(rest))
      BY <2>1 DEF Fork
    <3>3. Mine' = Mine \cup {w}
      BY <1>0, <3>2, MineIs
    <3>4. jobs \in 0..Len(rest)
      BY <3>1
    <3> QED
      BY <3>1, <3>2, <3>3, <3>4
  <2>3. /\ share'[w] = SubSeq(rest, 1, jobs)
        /\ \A v \in Worker : v # w => share'[v] = share[v] /\ socket'[v] = socket[v]
    BY <1>0, <2>1, ForkedWorker
  <2>4. In(rest, p) => In(rest', p) \/ With(w, p)'
    BY <2>2, <2>3, InParts DEF With
  <2>5. \A v \in Mine : With(v, p)' = With(v, p)
    <3>1. \A v \in Mine : v \in Worker /\ v # w
      BY <1>0, <2>1, <2>2, MineIs DEF Family
    <3> QED
      BY <2>3, <3>1 DEF With
  <2> QED
    BY <1>2, <2>2, <2>4, <2>5 DEF Listed
<1>6. CASE ParentDoes /\ ~Launch /\ ~Begin
  <2>1. SendStart \/ Created \/ Pack
    BY <1>6 DEF ParentDoes, BeginFailed, LaunchFailed, PollFailed, CreateFailed,
                PackFailed, Kill, Finished, Return
  <2>2. UNCHANGED <<fork, rest, dlist, spoiled>> /\ pc # "idle"
    BY <2>1 DEF SendStart, Created, Pack, Packing, creating
  <2>3. UNCHANGED <<share, socket>>
    BY <2>1 DEF SendStart, Created, Pack, working
  <2>4. Mine' = Mine
    BY <1>0, <2>2, MineIs
  <2> QED
    BY <1>2, <2>2, <2>3, <2>4 DEF With, Listed
<1>7. CASE UNCHANGED vars
  BY <1>2, <1>7 DEF vars, creating, working, With, Listed, Mine
<1> QED
  BY <1>1, <1>3, <1>4, <1>5, <1>6, <1>7, NextIs

\* A run in which nothing failed lists every package of the directory when its
\* workers have ended: the split gives each package to a worker, and the parent
\* does not stop reading a socket before the last digest.
THEOREM AllAreListed == Spec => []AllListed
<1>1. Init => Shape /\ Accounted
  BY InitShape DEF Init, Accounted
<1>2. Shape /\ Accounted /\ [Next]_vars => (Shape /\ Accounted)'
  BY ShapeNext, AccountedNext
<1>3. Shape /\ Accounted => AllListed
  <2> SUFFICES ASSUME Shape, Accounted, pc = "pack", ~spoiled
               PROVE  {d.package : d \in dlist} = Packages
    BY DEF AllListed
  <2>1. TypeInv /\ Family /\ Placed /\ polled = {} /\ rest = <<>>
    BY DEF Shape, Split
  <2>2. \A w \in Mine : share[w] = <<>> /\ socket[w] = <<>>
    BY <2>1, MineIs DEF Family, Placed
  <2>3. Len(<<>>) = 0
    OBVIOUS
  <2>4. \A p : ~In(<<>>, p) /\ ~Tells(<<>>, p)
    BY <2>3 DEF In, Tells
  <2>5. \A p \in Packages : Listed(p)
    BY <2>1, <2>2, <2>4 DEF Accounted, With
  <2>6. \A d \in dlist : d.package \in Packages
    BY <2>1 DEF TypeInv, ParentType, Digest
  <2> QED
    BY <2>5, <2>6 DEF Listed
<1> QED
  BY <1>1, <1>2, <1>3, PTL DEF Spec

\* A worker of the run takes its own packages from its share to its socket,
\* each of them once.
LEMMA WorkerTakesOnce ==
    ASSUME Shape, NEW w \in Worker, w \in Mine, WorkerDoes(w), Own(w)
    PROVE  Own(w)' /\ \A p \in Packages : With(w, p)' => With(w, p)
<1>0. /\ share[w] \in Seq(Packages) /\ socket[w] \in Seq(Message)
      /\ pos[w] \in [Outputs -> Nat]
      /\ wpc[w] \in Working => share[w] # <<>>
  BY DEF Shape, TypeInv, WorkType, Placed
<1>1. Distinct(<<>>) /\ \A p : ~In(<<>>, p)
  <2>1. Len(<<>>) = 0
    OBVIOUS
  <2> QED
    BY <2>1 DEF Distinct, In
<1>2. CASE Send(w)
  <2>1. PICK m : m = [package |-> Head(share[w]), position |-> pos[w]]
    OBVIOUS
  <2>2. /\ share'[w] = Tail(share[w]) /\ socket'[w] = Append(socket[w], m)
        /\ share[w] # <<>>
    BY <1>0, <1>2, <2>1 DEF Shape, TypeInv, WorkType, Send, Working
  <2>3. /\ m.package = Head(share[w]) /\ Head(share[w]) \in Packages
        /\ m \in Message /\ m # EndMark
    BY <1>0, <2>1, <2>2, EndMarkIsNoDigest DEF Digest, Message
  <2>4. /\ \A p : In(share[w], p) <=> p = Head(share[w]) \/ In(share'[w], p)
        /\ Distinct(share'[w]) /\ ~In(share'[w], Head(share[w]))
    BY <1>0, <2>2, InTail, DistinctTail DEF Own
  <2>5. ~Tells(socket[w], Head(share[w]))
    BY <2>3, <2>4 DEF Own
  <2>6. /\ \A p : Tells(socket'[w], p) <=>
                      Tells(socket[w], p) \/ p = Head(share[w])
        /\ TellsOnce(socket'[w])
    BY <1>0, <2>2, <2>3, <2>5, TellsAppend DEF Own
  <2> QED
    BY <2>4, <2>6 DEF Own, With
<1>3. CASE End(w)
  <2>1. /\ share[w] = <<>> /\ share'[w] = share[w]
        /\ socket'[w] = Append(socket[w], EndMark) /\ EndMark \in Message
    BY <1>3 DEF Shape, TypeInv, WorkType, End, Message
  <2>2. /\ \A p : Tells(socket'[w], p) <=> Tells(socket[w], p)
        /\ TellsOnce(socket'[w])
    BY <1>0, <2>1, TellsAppend DEF Own
  <2> QED
    BY <2>1, <2>2 DEF With, Own
<1>4. CASE Flock(w) \/ Write(w)
  BY <1>4 DEF Flock, Write, With, Own
<1>5. CASE Skip(w)
  <2>1. share[w] # <<>> /\ share'[w] = Tail(share[w]) /\ socket' = socket
    BY <1>5 DEF Skip, Shape, TypeInv, WorkType
  <2>2. /\ \A p : In(share'[w], p) => In(share[w], p)
        /\ Distinct(share'[w])
    BY <1>0, <2>1, InTail, DistinctTail DEF Own
  <2> QED
    BY <2>1, <2>2 DEF With, Own
<1>6. CASE WorkFailed(w) \/ KillWorker(w)
  <2>1. share'[w] = <<>> /\ socket'[w] = socket[w]
    BY <1>6 DEF WorkFailed, KillWorker, Shape, TypeInv, WorkType
  <2> QED
    BY <1>1, <2>1 DEF With, Own
<1> QED
  BY <1>2, <1>3, <1>4, <1>5, <1>6 DEF WorkerDoes

\* A digest the parent takes from a socket is of a package not yet listed.
LEMMA ReceivedOnce ==
    ASSUME Shape, Once, NEW w \in Worker, Receive(w), Head(socket[w]) # EndMark
    PROVE  /\ w \in Mine /\ Head(socket[w]) \in Digest
           /\ Tells(socket[w], Head(socket[w]).package)
           /\ ~Listed(Head(socket[w]).package)
<1>1. w \in Mine /\ socket[w] \in Seq(Message) /\ socket[w] # <<>>
  BY DEF Receive, Shape, Family, TypeInv, WorkType
<1>2. Head(socket[w]) \in Digest
  BY <1>1 DEF Message
<1>3. Tells(socket[w], Head(socket[w]).package)
  BY <1>1, TellsTail
<1>4. Head(socket[w]).package \in Packages
  BY <1>2 DEF Digest
<1> QED
  BY <1>1, <1>2, <1>3, <1>4 DEF Once, With

\* A package is never in two places, whatever fails and whoever is killed.
LEMMA OnceNext == ASSUME Shape, Once, [Next]_vars PROVE Once'
<1>0. TypeInv /\ Family /\ Split
  BY DEF Shape
<1>1. Distinct(<<>>) /\ \A p : ~In(<<>>, p)
  <2>1. Len(<<>>) = 0
    OBVIOUS
  <2> QED
    BY <2>1 DEF Distinct, In
<1>2. CASE Begin
  <2>1. rest' = Files /\ dlist' = {} /\ fork' = <<>>
    BY <1>2 DEF Begin
  <2>2. Distinct(Files)
    BY Numbers, CreateAssumption DEF Distinct, IsInjective
  <2>3. Mine' = {}
    BY <1>0, <2>1, MineIs
  <2> QED
    BY <2>1, <2>2, <2>3 DEF Once, Listed
<1>3. ASSUME NEW w \in Worker, WorkerDoes(w) PROVE Once'
  <2>1. UNCHANGED <<fork, rest, dlist>>
    BY <1>3
       DEF WorkerDoes, Flock, Write, Send, End, Skip, WorkFailed, KillWorker,
           Unchanged, creating
  <2>2. Mine' = Mine /\ Mine \subseteq Worker
    BY <1>0, <2>1, MineIs
  <2>3. \A v \in Mine : v # w => (Own(v)' <=> Own(v))
                              /\ \A p : With(v, p)' <=> With(v, p)
    BY <1>0, <1>3, <2>2, OwnOnly DEF With, Own
  <2>4. w \in Mine => Own(w)' /\ \A p \in Packages : With(w, p)' => With(w, p)
    BY <1>3, WorkerTakesOnce DEF Once
  <2> QED
    BY <2>1, <2>2, <2>3, <2>4 DEF Once, Listed
<1>4. ASSUME NEW w \in Worker, Receive(w) PROVE Once'
  <2>1. /\ UNCHANGED <<fork, rest, share>> /\ Mine' = Mine
        /\ Mine \subseteq Worker
    BY <1>0, <1>4, MineIs DEF Receive
  <2>2. /\ socket[w] \in Seq(Message) /\ socket[w] # <<>> /\ w \in Mine
        /\ socket'[w] = Tail(socket[w])
        /\ \A v \in Worker : v # w => socket'[v] = socket[v]
    BY <1>0, <1>4 DEF Receive, TypeInv, WorkType, Family
  <2>3. /\ \A p : Tells(socket'[w], p) => Tells(socket[w], p)
        /\ TellsOnce(socket'[w])
        /\ Head(socket[w]) # EndMark =>
              ~Tells(socket'[w], Head(socket[w]).package)
    BY <2>2, TellsTail DEF Once, Own
  <2>4. \A v \in Mine : Own(v)' /\ \A p : With(v, p)' => With(v, p)
    BY <2>1, <2>2, <2>3 DEF Once, Own, With
  <2>5. CASE Head(socket[w]) = EndMark
    <3>1. dlist' = dlist
      BY <1>4, <2>5 DEF Receive
    <3> QED
      BY <2>1, <2>4, <3>1 DEF Once, Listed
  <2>6. CASE Head(socket[w]) # EndMark
    <3>1. PICK d : d = Head(socket[w])
      OBVIOUS
    <3>2. /\ dlist' = dlist \cup {d} /\ ~Listed(d.package)
          /\ d.package \in Packages /\ Tells(socket[w], d.package)
      BY <1>4, <2>6, <3>1, ReceivedOnce DEF Receive, Digest
    <3>3. \A p : Listed(p)' <=> Listed(p) \/ p = d.package
      BY <3>2 DEF Listed
    <3>4. \A e, f \in dlist' : e.package = f.package => e = f
      BY <3>2 DEF Once, Listed
    <3>5. With(w, d.package) /\ ~In(rest, d.package)
          /\ ~In(share[w], d.package) /\ ~Tells(socket'[w], d.package)
      BY <2>2, <2>3, <2>6, <3>1, <3>2 DEF Once, Own, With
    <3>6. \A v \in Mine : ~With(v, d.package)'
      BY <2>1, <2>2, <2>4, <3>2, <3>5 DEF Once, With
    <3>7. /\ \A p \in Packages : ~(In(rest, p) /\ Listed(p)')
          /\ \A v \in Mine, p \in Packages :
                With(v, p)' => ~In(rest, p) /\ ~Listed(p)'
      BY <2>4, <3>3, <3>5, <3>6 DEF Once
    <3> QED
      BY <2>1, <2>4, <3>4, <3>7 DEF Once
  <2> QED
    BY <2>5, <2>6
<1>5. CASE Launch
  <2>1. PICK w \in Worker : wpc[w] = "none" /\ Fork(w)
    BY <1>5, LaunchForks
  <2>2. /\ dlist' = dlist /\ rest \in Seq(Packages) /\ jobs \in 0..Len(rest)
        /\ rest' = SubSeq(rest, jobs + 1, Len(rest))
    <3>1. /\ jobs <= Len(rest) /\ jobs \in Nat /\ rest \in Seq(Packages)
      BY <1>0, <1>5 DEF Launch, TypeInv, ParentType
    <3>2. dlist' = dlist /\ rest' = SubSeq(rest, jobs + 1, Len(rest))
      BY <2>1 DEF Fork
    <3>3. jobs \in 0..Len(rest)
      BY <3>1
    <3> QED
      BY <3>1, <3>2, <3>3
  <2>3. Mine' = Mine \cup {w} /\ Mine \subseteq Worker /\ w \notin Mine
    <3>1. fork' = Append(fork, w) /\ pc = "launch"
      BY <1>5, <2>1 DEF Fork, Launch
    <3> QED
      BY <1>0, <2>1, <3>1, MineIs DEF Family
  <2>4. /\ share'[w] = SubSeq(rest, 1, jobs) /\ socket'[w] = <<>>
        /\ \A v \in Worker : v # w =>
              share'[v] = share[v] /\ socket'[v] = socket[v]
    BY <1>0, <2>1, ForkedWorker
  <2>5. /\ Distinct(share'[w]) /\ Distinct(rest')
        /\ \A p : In(rest, p) <=> In(share'[w], p) \/ In(rest', p)
        /\ \A p : ~(In(share'[w], p) /\ In(rest', p))
    BY <2>2, <2>4, InParts, DistinctParts DEF Once
  <2>6. TellsOnce(<<>>) /\ \A p : ~Tells(<<>>, p)
    <3>1. Len(<<>>) = 0
      OBVIOUS
    <3> QED
      BY <3>1 DEF TellsOnce, Tells
  <2>7. Own(w)' /\ \A p : With(w, p)' <=> In(share'[w], p)
    BY <2>4, <2>5, <2>6 DEF Own, With
  <2>8. \A v \in Mine : Own(v)' /\ \A p : With(v, p)' <=> With(v, p)
    BY <2>3, <2>4 DEF Once, Own, With
  <2>9. \A v \in Mine' : Own(v)'
    BY <2>3, <2>7, <2>8
  <2>10. \A p : Listed(p)' <=> Listed(p)
    BY <2>2 DEF Listed
  <2>11. \A v \in Mine', p \in Packages :
            With(v, p)' => ~In(rest', p) /\ ~Listed(p)
    BY <2>3, <2>5, <2>7, <2>8 DEF Once
  <2>12. \A u, v \in Mine' : u # v =>
            \A p \in Packages : ~(With(u, p)' /\ With(v, p)')
    BY <2>3, <2>5, <2>7, <2>8 DEF Once
  <2> QED
    BY <2>2, <2>5, <2>9, <2>10, <2>11, <2>12 DEF Once
<1>6. CASE ParentDoes /\ ~Launch /\ ~Begin
  <2>1. CASE SendStart \/ Created \/ Pack
    <3>1. UNCHANGED <<fork, rest, dlist>>
      BY <2>1 DEF SendStart, Created, Pack, creating
    <3>2. UNCHANGED <<share, socket>>
      BY <2>1 DEF SendStart, Created, Pack, working
    <3>3. Mine' = Mine
      BY <1>0, <3>1, MineIs
    <3> QED
      BY <3>1, <3>2, <3>3 DEF Once, Own, With, Listed
  <2>2. CASE BeginFailed \/ LaunchFailed \/ PollFailed \/ PackFailed \/ Kill
             \/ Finished
    <3>1. fork' = <<>> /\ dlist' = dlist /\ (rest' = rest \/ rest' = <<>>)
      BY <2>2 DEF BeginFailed, LaunchFailed, PollFailed, PackFailed, Kill,
                  Finished, CreateFailed, Return
    <3>2. Mine' = {}
      BY <1>0, <3>1, MineIs
    <3> QED
      BY <1>1, <3>1, <3>2 DEF Once, Listed
  <2> QED
    BY <1>6, <2>1, <2>2 DEF ParentDoes
<1>7. CASE UNCHANGED vars \/ \E w \in Worker : ReceiveEnd(w) \/ Wait(w)
  <2>1. UNCHANGED <<fork, rest, dlist>>
    BY <1>7 DEF vars, creating, ReceiveEnd, Wait
  <2>2. UNCHANGED <<share, socket>>
    BY <1>7 DEF vars, working, ReceiveEnd, Wait
  <2>3. Mine' = Mine
    BY <1>0, <2>1, MineIs
  <2> QED
    BY <2>1, <2>2, <2>3 DEF Once, Own, With, Listed
<1> QED
  BY <1>2, <1>3, <1>4, <1>5, <1>6, <1>7, NextIs DEF ReadDoes

\* How often each package is listed.
Times == [p \in Packages |-> Cardinality({d \in dlist : d.package = p})]

\* What a step does to the list, while a run is in progress.
LEMMA ListNext ==
    ASSUME Shape, Once, Next, ~Begin
    PROVE  \/ dlist' = dlist /\ (pc' = pc \/ pc # "idle")
           \/ /\ pc # "idle" /\ pc' = pc
              /\ \E d \in Digest :
                    ~Listed(d.package) /\ dlist' = dlist \cup {d}
<1>1. CASE ParentDoes
  <2>1. dlist' = dlist
    BY <1>1 DEF ParentDoes, BeginFailed, LaunchFailed, PollFailed, PackFailed,
         Kill, Finished, CreateFailed, Launch, Fork, SendStart, Created, Pack,
         creating
  <2>2. pc # "idle"
    BY <1>1 DEF ParentDoes, BeginFailed, LaunchFailed, PollFailed, PackFailed,
         Kill, Finished, Launch, SendStart, Created, Pack, Packing
  <2> QED
    BY <2>1, <2>2
<1>2. ASSUME NEW w \in Worker, WorkerDoes(w) PROVE dlist' = dlist /\ pc' = pc
  BY <1>2 DEF WorkerDoes, Flock, Write, Send, End, Skip, WorkFailed, KillWorker,
       Unchanged, creating
<1>3. ASSUME NEW w \in Worker, ReceiveEnd(w) \/ Wait(w)
      PROVE  dlist' = dlist /\ pc # "idle"
  BY <1>3 DEF ReceiveEnd, Wait, creating
<1>4. ASSUME NEW w \in Worker, Receive(w)
      PROVE  /\ pc # "idle"
             /\ \/ dlist' = dlist
                \/ /\ pc' = pc
                   /\ \E d \in Digest :
                        ~Listed(d.package) /\ dlist' = dlist \cup {d}
  <2>1. CASE Head(socket[w]) = EndMark
    BY <1>4, <2>1 DEF Receive
  <2>2. CASE Head(socket[w]) # EndMark
    BY <1>4, <2>2, ReceivedOnce DEF Receive
  <2> QED
    BY <2>1, <2>2
<1> QED
  BY <1>1, <1>2, <1>3, <1>4, NextIs DEF ReadDoes

\* A package is listed as often as the list has digests of it: not at all, or,
\* when its digest is received, once.
LEMMA TimesIs ==
    /\ dlist = {} => Times = Listing!Nothing
    /\ dlist' = {} => Times' = Listing!Nothing
    /\ dlist' = dlist => Times' = Times
    /\ \A d \in Digest :
          ~Listed(d.package) /\ dlist' = dlist \cup {d} =>
              /\ Times[d.package] = 0
              /\ Times' = [Times EXCEPT ![d.package] = 1]
<1>1. dlist = {} => Times = Listing!Nothing
  <2> SUFFICES ASSUME dlist = {} PROVE Times = Listing!Nothing
    OBVIOUS
  <2>1. \A p \in Packages : {d \in dlist : d.package = p} = {}
    OBVIOUS
  <2> QED
    BY <2>1, FS_EmptySet DEF Times, Listing!Nothing
<1>2. dlist' = {} => Times' = Listing!Nothing
  <2> SUFFICES ASSUME dlist' = {} PROVE Times' = Listing!Nothing
    OBVIOUS
  <2>1. \A p \in Packages : {d \in dlist' : d.package = p} = {}
    OBVIOUS
  <2> QED
    BY <2>1, FS_EmptySet DEF Times, Listing!Nothing
<1>3. dlist' = dlist => Times' = Times
  BY DEF Times
<1>4. ASSUME NEW d \in Digest, ~Listed(d.package), dlist' = dlist \cup {d}
      PROVE  /\ Times[d.package] = 0
             /\ Times' = [Times EXCEPT ![d.package] = 1]
  <2>1. d.package \in Packages
    BY DEF Digest
  <2>2. {e \in dlist : e.package = d.package} = {}
    BY <1>4 DEF Listed
  <2>3. Times[d.package] = 0
    BY <2>1, <2>2, FS_EmptySet DEF Times
  <2>4. {e \in dlist' : e.package = d.package} = {d}
    BY <1>4, <2>2
  <2>5. Cardinality({e \in dlist' : e.package = d.package}) = 1
    BY <2>4, FS_Singleton
  <2>6. \A p \in Packages : p # d.package =>
            {e \in dlist' : e.package = p} = {e \in dlist : e.package = p}
    BY <1>4
  <2>7. \A p \in Packages : p # d.package =>
            Cardinality({e \in dlist' : e.package = p})
            = Cardinality({e \in dlist : e.package = p})
    BY <2>6
  <2> QED
    BY <2>1, <2>3, <2>5, <2>7 DEF Times
<1> QED
  BY <1>1, <1>2, <1>3, <1>4

\* Each step of pkg repo, of its workers, or of those of an earlier run is a
\* step of the listing, or leaves the list alone.
LEMMA NextLists ==
    Shape /\ Once /\ [Next]_vars => [Listing!Next]_<<Times, pc # "idle">>
<1> SUFFICES ASSUME Shape, Once, [Next]_vars
             PROVE  [Listing!Next]_<<Times, pc # "idle">>
  OBVIOUS
<1>1. CASE Begin
  <2>1. pc = "idle" /\ pc' # "idle" /\ dlist' = {}
    BY <1>1 DEF Begin
  <2> QED
    BY <2>1, TimesIs DEF Listing!Next, Listing!Begin, Times
<1>2. CASE dlist' = dlist /\ (pc' = pc \/ pc # "idle")
  <2>1. Times' = Times
    BY <1>2, TimesIs
  <2>2. CASE (pc # "idle") = (pc' # "idle")
    BY <2>1, <2>2
  <2>3. CASE pc # "idle" /\ pc' = "idle"
    BY <2>1, <2>3 DEF Listing!Next, Listing!Return, Times
  <2> QED
    BY <1>2, <2>2, <2>3
<1>3. ASSUME pc # "idle", pc' = pc, NEW d \in Digest, ~Listed(d.package),
             dlist' = dlist \cup {d}
      PROVE  Listing!Next
  <2>1. d.package \in Packages
    BY DEF Digest
  <2>2. Listing!List(d.package)
    BY <1>3, TimesIs DEF Listing!List, Times
  <2> QED
    BY <2>1, <2>2 DEF Listing!Next
<1>4. CASE UNCHANGED vars
  <2>1. dlist' = dlist /\ pc' = pc
    BY <1>4 DEF vars, creating
  <2> QED
    BY <1>2, <2>1
<1> QED
  BY <1>1, <1>2, <1>3, <1>4, ListNext

\* pkg repo implements the listing: its digests grow by one package at a time,
\* never the same one twice, whatever its workers and those of earlier runs do.
THEOREM ImplementsListing == Spec => ListingImplemented
<1>1. Init => Shape /\ Once /\ Listing!Init
  <2> SUFFICES ASSUME Init PROVE Shape /\ Once /\ Listing!Init
    OBVIOUS
  <2>1. rest = <<>> /\ fork = <<>> /\ dlist = {} /\ pc = "idle"
    BY DEF Init
  <2>2. Len(<<>>) = 0 /\ Mine = {}
    BY <2>1, InitShape, MineIs DEF Shape
  <2>3. Once
    BY <2>1, <2>2 DEF Once, Distinct, Listed
  <2> QED
    BY <2>1, <2>3, InitShape, TimesIs DEF Listing!Init, Times
<1>2. Shape /\ Once /\ [Next]_vars => (Shape /\ Once)'
  BY ShapeNext, OnceNext
<1> QED
  BY <1>1, <1>2, NextLists, PTL
     DEF Spec, ListingImplemented, Listing!Spec, Times
============================================================================
