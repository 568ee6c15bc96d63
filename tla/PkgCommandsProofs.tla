------------------------- MODULE PkgCommandsProofs -------------------------
(***************************************************************************)
(* Proofs about PkgCommands, for any set of processes, any commands that   *)
(* run beside each other and with or without locks for readers.            *)
(***************************************************************************)
EXTENDS PkgCommands, FiniteSetTheorems, TLAPS

---------------------------------------------------------------------------
(* The steps of the commands.                                              *)

Operations ==
    {"work", "open", "obtain", "convert", "release", "read", "write", "close"}
Failures ==
    {"return", "close", "cleanup", "on", "skip", "goto", "closeon", "drop"}
Conversions == {"AX", "XA"}

\* What a step can be: the lock calls name a lock or a conversion, and a jump
\* has somewhere to go.
Shape ==
    [op : Operations, arg : {"none"} \cup Locks \cup Conversions,
     fail : Failures, to : Nat]
AnyStep ==
    {step \in Shape :
        /\ step.op \in {"obtain", "release"} => step.arg \in Locks
        /\ step.op = "convert" => step.arg \in Conversions
        /\ step.fail \in {"goto", "drop"} => step.to > 0}

Plain == Failures \ {"goto", "drop"}

\* A step that does not jump when it fails.
LEMMA StepMade ==
    ASSUME NEW op \in Operations,
           NEW arg \in {"none"} \cup Locks \cup Conversions,
           NEW fail \in Plain,
           op \in {"obtain", "release"} => arg \in Locks,
           op = "convert" => arg \in Conversions
    PROVE  Step(op, arg, fail) \in AnyStep
BY DEF Step, AnyStep, Shape, Plain

\* What the constructors of the steps make.
LEMMA StepsMade ==
    /\ \A f \in Plain : /\ Work(f) \in AnyStep
                        /\ Read(f) \in AnyStep
                        /\ Write(f) \in AnyStep
    /\ \A l \in Locks : Obtain(l) \in AnyStep /\ Release(l) \in AnyStep
    /\ \A r \in Conversions, f \in Plain : Convert(r, f) \in AnyStep
    /\ Open \in AnyStep /\ Close \in AnyStep /\ Compact \in AnyStep
<1> USE StepMade DEF Operations, Failures, Plain, Locks, Conversions
<1>1. ASSUME NEW f \in Plain
      PROVE  Work(f) \in AnyStep /\ Read(f) \in AnyStep /\ Write(f) \in AnyStep
  BY DEF Work, Read, Write
<1>2. ASSUME NEW l \in Locks
      PROVE  Obtain(l) \in AnyStep /\ Release(l) \in AnyStep
  BY DEF Obtain, Release
<1>3. ASSUME NEW r \in Conversions, NEW f \in Plain
      PROVE  Convert(r, f) \in AnyStep
  BY DEF Convert
<1>4. Open \in AnyStep /\ Close \in AnyStep /\ Compact \in AnyStep
  BY DEF Open, Close, Compact
<1> QED
  BY <1>1, <1>2, <1>3, <1>4

\* A step made to go elsewhere when it fails.
LEMMA StepsRedirected ==
    ASSUME NEW s \in AnyStep, NEW n \in Nat \ {0}
    PROVE  /\ OrGoto(s, n) \in AnyStep
           /\ [s EXCEPT !.fail = "drop", !.to = n] \in AnyStep
<1>1. ASSUME NEW f \in {"goto", "drop"}
      PROVE  [s EXCEPT !.fail = f, !.to = n] \in AnyStep
  <2>1. s \in Shape
    BY DEF AnyStep
  <2>2. PICK t : t = [s EXCEPT !.fail = f, !.to = n]
    OBVIOUS
  <2>3. t.op = s.op /\ t.arg = s.arg /\ t.fail = f /\ t.to = n
    BY <2>1, <2>2 DEF Shape
  <2>4. t \in Shape
    BY <2>1, <2>2 DEF Shape, Failures
  <2>5. t.to > 0
    BY <2>3
  <2> QED
    BY <2>2, <2>3, <2>4, <2>5 DEF AnyStep
<1> QED
  BY <1>1 DEF OrGoto

\* A jump, and the steps whose fail was replaced.
LEMMA JumpMade == \A n \in Nat \ {0} : Jump(n) \in AnyStep
BY StepsMade, StepsRedirected DEF Jump, Plain, Failures

Bounded(S, program) ==
    /\ program.steps \in Seq(S)
    /\ Len(program.steps) > 0
    /\ program.cleanup \in Nat \ {0}

\* What is known of every step.
LEMMA StepFields ==
    ASSUME NEW s \in AnyStep
    PROVE  /\ s.op \in Operations /\ s.fail \in Failures /\ s.to \in Nat
           /\ s.op \in {"obtain", "release"} => s.arg \in Locks
           /\ s.op = "convert" => s.arg \in Conversions
           /\ s.fail \in {"goto", "drop"} => s.to \in Nat \ {0}
<1>1. s \in Shape
  BY DEF AnyStep
<1>2. s.op \in Operations /\ s.fail \in Failures /\ s.to \in Nat
  BY <1>1 DEF Shape
<1>3. /\ s.op \in {"obtain", "release"} => s.arg \in Locks
      /\ s.op = "convert" => s.arg \in Conversions
      /\ s.fail \in {"goto", "drop"} => s.to > 0
  BY DEF AnyStep
<1> QED
  BY <1>2, <1>3

\* The commands that take no lock but the one for readers, and the others.
Writers == {"add", "annotate", "autoremove", "delete", "install", "upgrade",
            "lock", "unlock", "lock_l", "set", "register",
            "convert_from_old", "check", "check_d"}
Lawless == {"backup_r", "shell"}
Idle == {"backup_d", "config", "create_staged", "help", "info_F", "plugins",
         "query_F", "register_old", "repo", "rquery", "search", "ssh",
         "update", "version_t"}
Readers ==
    {"audit", "autoremove_n", "backup_d", "clean", "config",
     "convert_from_old_n", "convert_to_old", "create",
     "create_staged", "delete_n", "fetch", "help", "info",
     "info_F", "install_n", "plugins", "query", "query_e",
     "query_F", "register_old", "repo", "rquery", "search",
     "shlib", "ssh", "stats", "update", "updating",
     "upgrade_n", "version_I", "version_P", "version_R",
     "version_t", "which"}

ReadStep ==
    {step \in AnyStep :
        /\ step.op \notin {"convert", "write"}
        /\ step.op \in {"obtain", "release"} => step.arg = "R"}

\* What the constructors make for readers.
LEMMA ReadStepsMade ==
    /\ \A f \in Plain : Work(f) \in ReadStep /\ Read(f) \in ReadStep
    /\ Obtain("R") \in ReadStep /\ Release("R") \in ReadStep
    /\ Open \in ReadStep /\ Close \in ReadStep
    /\ \A n \in Nat \ {0} : Jump(n) \in ReadStep
    /\ [Open EXCEPT !.fail = "close"] \in ReadStep
<1>1. \A f \in Plain : Work(f) \in ReadStep /\ Read(f) \in ReadStep
  BY StepsMade DEF ReadStep, Work, Read, Step
<1>2. Obtain("R") \in ReadStep /\ Release("R") \in ReadStep
  BY StepsMade DEF ReadStep, Obtain, Release, Step, Locks
<1>3. Open \in ReadStep /\ Close \in ReadStep
  BY StepsMade DEF ReadStep, Open, Close, Step
<1>4. ASSUME NEW n \in Nat \ {0} PROVE Jump(n) \in ReadStep
  BY JumpMade DEF ReadStep, Jump, OrGoto, Work, Step
<1>5. [Open EXCEPT !.fail = "close"] \in ReadStep
  <2>1. PICK t : t = [Open EXCEPT !.fail = "close"]
    OBVIOUS
  <2>2. Open \in Shape /\ Open.op = "open"
    BY StepsMade DEF Open, Step, AnyStep
  <2>3. t \in Shape /\ t.op = "open" /\ t.fail = "close"
    BY <2>1, <2>2 DEF Shape, Failures
  <2> QED
    BY <2>1, <2>3 DEF ReadStep, AnyStep
<1> QED
  BY <1>1, <1>2, <1>3, <1>4, <1>5

\* Every command is of one of the three kinds.
LEMMA Kinds == Names = Readers \cup Writers \cup Lawless
BY DEF Names, Commands, Readers, Writers, Lawless

\* The programs of the readers.
LEMMA ReadersBounded == \A c \in Readers : Bounded(ReadStep, Commands[c])
<1> USE ReadStepsMade DEF Plain, Failures, Program, Bounded
<1>1. /\ Bounded(ReadStep, autoremove_n) /\ Bounded(ReadStep, delete_n)
      /\ Bounded(ReadStep, info) /\ Bounded(ReadStep, query)
      /\ Bounded(ReadStep, query_e) /\ Bounded(ReadStep, clean)
      /\ Bounded(ReadStep, convert_to_old)
  BY DEF autoremove_n, delete_n, info, query, query_e, clean, convert_to_old,
         Framed
<1>2. /\ Bounded(ReadStep, which) /\ Bounded(ReadStep, stats)
      /\ Bounded(ReadStep, shlib) /\ Bounded(ReadStep, updating)
  BY DEF which, stats, shlib, updating, Bare
<1>3. /\ Bounded(ReadStep, install_n) /\ Bounded(ReadStep, upgrade_n)
      /\ Bounded(ReadStep, convert_from_old_n)
  BY DEF install_n, upgrade_n, UpgradingDry, convert_from_old_n
<1>4. Bounded(ReadStep, audit) /\ Bounded(ReadStep, create)
  BY DEF audit, create
<1>5. Bounded(ReadStep, fetch) /\ Bounded(ReadStep, version_I)
  BY DEF fetch, version_I
<1>6. Bounded(ReadStep, version_P) /\ Bounded(ReadStep, version_R)
  BY DEF version_P, version_R
<1>7. /\ Bounded(ReadStep, rquery) /\ Bounded(ReadStep, search)
      /\ Bounded(ReadStep, backup_d)
  BY DEF rquery, search, backup_d
<1>8. /\ Bounded(ReadStep, register_old) /\ Bounded(ReadStep, create_staged)
      /\ Bounded(ReadStep, info_F) /\ Bounded(ReadStep, query_F)
      /\ Bounded(ReadStep, version_t) /\ Bounded(ReadStep, repo)
  BY DEF register_old, create_staged, info_F, query_F, version_t, repo
<1>9. /\ Bounded(ReadStep, update) /\ Bounded(ReadStep, config)
      /\ Bounded(ReadStep, plugins) /\ Bounded(ReadStep, help)
      /\ Bounded(ReadStep, ssh)
  BY DEF update, config, plugins, help, ssh
<1>10. /\ Commands["audit"] = audit
       /\ Commands["autoremove_n"] = autoremove_n
       /\ Commands["backup_d"] = backup_d /\ Commands["clean"] = clean
       /\ Commands["config"] = config
       /\ Commands["convert_from_old_n"] = convert_from_old_n
       /\ Commands["convert_to_old"] = convert_to_old
       /\ Commands["create"] = create
       /\ Commands["create_staged"] = create_staged
       /\ Commands["delete_n"] = delete_n /\ Commands["fetch"] = fetch
       /\ Commands["help"] = help /\ Commands["info"] = info
       /\ Commands["info_F"] = info_F /\ Commands["install_n"] = install_n
       /\ Commands["plugins"] = plugins /\ Commands["query"] = query
       /\ Commands["query_e"] = query_e /\ Commands["query_F"] = query_F
       /\ Commands["register_old"] = register_old /\ Commands["repo"] = repo
       /\ Commands["rquery"] = rquery /\ Commands["search"] = search
       /\ Commands["shlib"] = shlib /\ Commands["ssh"] = ssh
       /\ Commands["stats"] = stats /\ Commands["update"] = update
       /\ Commands["updating"] = updating
       /\ Commands["upgrade_n"] = upgrade_n
       /\ Commands["version_I"] = version_I
       /\ Commands["version_P"] = version_P
       /\ Commands["version_R"] = version_R
       /\ Commands["version_t"] = version_t /\ Commands["which"] = which
  BY DEF Commands
<1> HIDE DEF Bounded
<1> QED
  BY <1>1, <1>2, <1>3, <1>4, <1>5, <1>6, <1>7, <1>8, <1>9, <1>10 DEF Readers

\* The programs of the others.
LEMMA WritersBounded ==
    \A c \in Writers \cup Lawless : Bounded(AnyStep, Commands[c])
<1> USE StepsMade, JumpMade DEF Plain, Failures, Locks, Conversions, Program,
        Bounded
<1>1. Bounded(AnyStep, add) /\ Bounded(AnyStep, annotate)
  BY DEF add, annotate, Annotation, Framed
<1>2. Bounded(AnyStep, autoremove) /\ Bounded(AnyStep, delete)
  BY DEF autoremove, delete, Apply, Framed
<1>3. Bounded(AnyStep, install) /\ Bounded(AnyStep, upgrade)
  BY DEF install, upgrade, Upgrading, Apply
<1>4. /\ Bounded(AnyStep, lock) /\ Bounded(AnyStep, unlock)
      /\ Bounded(AnyStep, lock_l) /\ Bounded(AnyStep, set)
  BY DEF lock, unlock, lock_l, set, Locking, Framed
<1>5. Bounded(AnyStep, register) /\ Bounded(AnyStep, convert_from_old)
  BY DEF register, convert_from_old
<1>6. Bounded(AnyStep, backup_r) /\ Bounded(AnyStep, shell)
  BY DEF backup_r, shell
<1>7. Bounded(AnyStep, check)
  <2>1. Convert("AX", "on") \in AnyStep
    OBVIOUS
  <2>2. OrGoto(Convert("AX", "on"), 9) \in AnyStep
    <3>1. 9 \in Nat \ {0}
      OBVIOUS
    <3> QED
      BY ONLY <2>1, <3>1, StepsRedirected
  <2> QED
    BY <2>2 DEF check, Recompute, Framed
<1>8. Bounded(AnyStep, check_d)
  <2>1. /\ OrGoto(Read("on"), 13) \in AnyStep
        /\ OrGoto(Work("on"), 13) \in AnyStep
        /\ OrGoto(Convert("AX", "on"), 13) \in AnyStep
        /\ [Open EXCEPT !.fail = "drop", !.to = 13] \in AnyStep
    <3>1. /\ Read("on") \in AnyStep /\ Work("on") \in AnyStep
          /\ Convert("AX", "on") \in AnyStep /\ Open \in AnyStep
      OBVIOUS
    <3>2. 13 \in Nat \ {0}
      OBVIOUS
    <3> QED
      BY ONLY <3>1, <3>2, StepsRedirected
  <2> QED
    BY <2>1 DEF check_d
<1>9. /\ Commands["add"] = add /\ Commands["annotate"] = annotate
      /\ Commands["autoremove"] = autoremove /\ Commands["delete"] = delete
      /\ Commands["install"] = install /\ Commands["upgrade"] = upgrade
      /\ Commands["lock"] = lock /\ Commands["unlock"] = unlock
      /\ Commands["lock_l"] = lock_l /\ Commands["set"] = set
      /\ Commands["register"] = register
      /\ Commands["convert_from_old"] = convert_from_old
      /\ Commands["check"] = check /\ Commands["check_d"] = check_d
      /\ Commands["backup_r"] = backup_r /\ Commands["shell"] = shell
  BY DEF Commands
<1> HIDE DEF Bounded
<1> QED
  BY <1>1, <1>2, <1>3, <1>4, <1>5, <1>6, <1>7, <1>8, <1>9
     DEF Writers, Lawless

\* Every command is a sequence of steps.
LEMMA AllBounded == \A c \in Names : Bounded(AnyStep, Commands[c])
<1>1. ReadStep \subseteq AnyStep
  BY DEF ReadStep
<1>2. \A c \in Readers : Bounded(AnyStep, Commands[c])
  BY <1>1, ReadersBounded DEF Bounded
<1> QED
  BY <1>2, WritersBounded, Kinds

---------------------------------------------------------------------------
(* Types.                                                                  *)

Statuses == {"new", "running", "returned", "gone"}

TypeInv ==
    /\ row \in [exclusive : {0, 1}, advisory : {0, 1}, read : Nat]
    /\ pids \in SUBSET Proc
    /\ status \in [Proc -> Statuses]
    /\ cmd \in [Proc -> Names]
    /\ at \in [Proc -> Nat \ {0}]
    /\ handle \in [Proc -> {"null", "open", "closed"}]
    /\ held \in [Proc -> SUBSET Locks]
    /\ robbed \in SUBSET Proc
    /\ \A p \in Proc : status[p] = "running" => at[p] <= Len(Steps(p))
    /\ \A p \in Proc : status[p] = "new" =>
          /\ at[p] = 1 /\ cmd[p] = "help" /\ handle[p] = "null"
          /\ held[p] = {} /\ p \notin pids

\* A running process runs a step of its command.
LEMMA RunsStep ==
    ASSUME TypeInv, NEW p \in Proc, status[p] = "running"
    PROVE  /\ Now(p) \in AnyStep
           /\ Len(Steps(p)) \in Nat
           /\ Commands[cmd[p]].cleanup \in Nat \ {0}
<1>1. cmd[p] \in Names /\ at[p] \in 1 .. Len(Steps(p))
  BY AllBounded DEF TypeInv, Steps, Bounded
<1> QED
  BY <1>1, AllBounded DEF Now, Steps, Bounded

\* Nobody runs anything at first.
LEMMA InitType == Init => TypeInv
<1>1. "help" \in Names
  BY Kinds DEF Readers
<1> QED
  BY <1>1 DEF Init, TypeInv, Statuses, Unlocked

\* Where a step that runs may leave its process.
Advances(p) ==
    \E n \in Nat \ {0} :
        /\ at' = [at EXCEPT ![p] = n]
        /\ \E s \in {"running", "returned"} :
              /\ status' = [status EXCEPT ![p] = s]
              /\ s = "running" => n <= Len(Steps(p))

\* Every outcome of a step leaves its process on a step of its command, or
\* returned.
LEMMA OutcomeAdvances ==
    ASSUME TypeInv, NEW p \in Proc, status[p] = "running", On(p) \/ Fails(p)
    PROVE  Advances(p)
<1>1. ASSUME NEW n \in Nat \ {0}, GoTo(p, n) PROVE Advances(p)
  <2>1. PICK s : s = IF n > Len(Steps(p)) THEN "returned" ELSE "running"
    OBVIOUS
  <2>2. s \in {"running", "returned"} /\ (s = "running" => n <= Len(Steps(p)))
    BY <2>1, RunsStep
  <2> QED
    BY <1>1, <2>1, <2>2 DEF GoTo, Advances
<1>2. ASSUME Return(p) PROVE Advances(p)
  BY <1>2 DEF Return, Advances, TypeInv
<1>3. at[p] + 1 \in Nat \ {0} /\ at[p] + 2 \in Nat \ {0}
  BY DEF TypeInv
<1>4. Now(p).fail \in {"goto", "drop"} => Now(p).to \in Nat \ {0}
  BY RunsStep, StepFields
<1> QED
  BY <1>1, <1>2, <1>3, <1>4, RunsStep DEF On, Fails

\* What a step that fails does to the handle.
LEMMA FailureHandles ==
    ASSUME TypeInv, NEW p \in Proc, Fails(p)
    PROVE  \E h \in {"null", "open", "closed"} :
              handle' = [handle EXCEPT ![p] = h]
BY DEF Fails, Closed, TypeInv

Rows == [exclusive : {0, 1}, advisory : {0, 1}, read : Nat]

\* A step of p changes the locks of p, the row and the table of pids.
LEMMA StepKeepsType ==
    ASSUME TypeInv, NEW p \in Proc, status[p] = "running", Advances(p),
           cmd' = cmd,
           \E h \in {"null", "open", "closed"} :
              handle' = [handle EXCEPT ![p] = h],
           row' \in Rows, pids' \in SUBSET (pids \cup {p}),
           \E h \in SUBSET Locks : held' = [held EXCEPT ![p] = h],
           robbed' \in SUBSET Proc
    PROVE  TypeInv'
<1> USE DEF TypeInv
<1>1. PICK n \in Nat \ {0}, s \in {"running", "returned"} :
          /\ at' = [at EXCEPT ![p] = n]
          /\ status' = [status EXCEPT ![p] = s]
          /\ s = "running" => n <= Len(Steps(p))
  BY DEF Advances
<1>2. PICK h \in {"null", "open", "closed"} : handle' = [handle EXCEPT ![p] = h]
  OBVIOUS
<1>3. PICK k \in SUBSET Locks : held' = [held EXCEPT ![p] = k]
  OBVIOUS
<1>4. /\ status' \in [Proc -> Statuses] /\ at' \in [Proc -> Nat \ {0}]
      /\ handle' \in [Proc -> {"null", "open", "closed"}]
      /\ held' \in [Proc -> SUBSET Locks] /\ cmd' \in [Proc -> Names]
  BY <1>1, <1>2, <1>3 DEF Statuses
<1>5. \A q \in Proc : status'[q] = "running" => at'[q] <= Len(Steps(q)')
  BY <1>1 DEF Steps
<1>6. \A q \in Proc : status'[q] = "new" =>
          /\ q # p /\ at'[q] = at[q] /\ handle'[q] = handle[q]
          /\ held'[q] = held[q] /\ status[q] = "new"
  BY <1>1, <1>2, <1>3
<1>7. pids' \in SUBSET Proc
  OBVIOUS
<1> QED
  BY <1>4, <1>5, <1>6, <1>7 DEF Rows

\* What lock_sql and unlock_sql make of the row and of the locks.
LEMMA RowsMade ==
    ASSUME NEW w \in Rows
    PROVE  \A r \in Locks \cup Conversions : Granted(w, r) \in Rows
<1>1. ASSUME NEW r \in Locks \cup Conversions PROVE Granted(w, r) \in Rows
  <2>1. CASE r = "R"
    BY <2>1 DEF Granted, Rows
  <2>2. CASE r \in {"A", "XA"}
    BY <2>2 DEF Granted, Rows
  <2>3. CASE r = "X"
    BY <2>3 DEF Granted, Rows
  <2>4. CASE r = "AX"
    BY <2>4 DEF Granted, Rows
  <2> QED
    BY <1>1, <2>1, <2>2, <2>3, <2>4 DEF Locks, Conversions
<1> QED
  BY <1>1

\* The three outcomes of a lock call.
Asks(p, r) == LockGranted(p, r) \/ LockReset(p, r) \/ LockRefused(p, r)

\* The lock a reset takes: what the call asks for, without the part that is
\* converted.
Fresh(r) == CASE r = "AX" -> "X" [] r = "XA" -> "A" [] OTHER -> r

\* It is a lock, never a conversion.
LEMMA FreshIsLock == \A r \in Locks \cup Conversions : Fresh(r) \in Locks
BY DEF Fresh, Locks, Conversions

\* A lock call keeps the types.
LEMMA LockCallKeepsType ==
    ASSUME TypeInv, NEW p \in Proc, status[p] = "running",
           NEW r \in Locks \cup Conversions, Asks(p, r), cmd' = cmd
    PROVE  TypeInv'
<1>0. /\ row \in Rows /\ Unlocked \in Rows /\ held[p] \in SUBSET Locks
      /\ robbed \in SUBSET Proc /\ pids \in SUBSET Proc
      /\ handle = [handle EXCEPT ![p] = handle[p]]
      /\ handle[p] \in {"null", "open", "closed"}
      /\ held = [held EXCEPT ![p] = held[p]]
  BY DEF TypeInv, Rows, Unlocked
<1>1. CASE LockGranted(p, r)
  <2>1. row' \in Rows
    BY <1>0, <1>1, RowsMade DEF LockGranted
  <2>2. HeldAfter(held[p], r) \in SUBSET Locks
    BY <1>0 DEF HeldAfter, Locks, Conversions
  <2>3. held' = [held EXCEPT ![p] = HeldAfter(held[p], r)]
    BY <1>1 DEF LockGranted
  <2>4. robbed' \in SUBSET Proc /\ pids' \in SUBSET (pids \cup {p})
    BY <1>0, <1>1 DEF LockGranted, Holders
  <2>5. handle' = handle /\ Advances(p)
    BY <1>1, OutcomeAdvances DEF LockGranted
  <2> QED
    BY <1>0, <2>1, <2>2, <2>3, <2>4, <2>5, StepKeepsType
<1>2. CASE LockReset(p, r)
  <2>1. /\ row' = Granted(Unlocked, Fresh(r))
        /\ held' = [held EXCEPT ![p] = {Fresh(r)}]
    BY <1>2 DEF LockReset, Fresh
  <2>2. row' \in Rows /\ {Fresh(r)} \in SUBSET Locks
    BY <1>0, <2>1, RowsMade, FreshIsLock
  <2>3. robbed' \in SUBSET Proc /\ pids' \in SUBSET (pids \cup {p})
    BY <1>0, <1>2 DEF LockReset
  <2>4. handle' = handle /\ Advances(p)
    BY <1>2, OutcomeAdvances DEF LockReset
  <2> QED
    BY <1>0, <2>1, <2>2, <2>3, <2>4, StepKeepsType
<1>3. CASE LockRefused(p, r)
  <2>1. /\ row' \in Rows /\ held' = held /\ robbed' \in SUBSET Proc
        /\ pids' \in SUBSET (pids \cup {p}) /\ Fails(p)
    BY <1>0, <1>3 DEF LockRefused
  <2> QED
    BY <1>0, <2>1, OutcomeAdvances, FailureHandles, StepKeepsType
<1> QED
  BY <1>1, <1>2, <1>3 DEF Asks

\* A process that leaves keeps the types.
LEMMA LeavingKeepsType ==
    ASSUME TypeInv, NEW p \in Proc, Leaves(p),
           UNCHANGED <<row, pids, cmd, at, handle>>
    PROVE  TypeInv'
BY DEF TypeInv, Leaves, Statuses, Steps

\* Every step of every command keeps the types.
LEMMA NextType == TypeInv /\ [Next]_vars => TypeInv'
<1> SUFFICES ASSUME TypeInv, [Next]_vars PROVE TypeInv'
  OBVIOUS
<1>0. /\ row \in Rows /\ robbed \in SUBSET Proc /\ pids \in SUBSET Proc
      /\ \A p \in Proc : /\ held[p] \in SUBSET Locks
                         /\ held = [held EXCEPT ![p] = held[p]]
                         /\ handle = [handle EXCEPT ![p] = handle[p]]
                         /\ handle[p] \in {"null", "open", "closed"}
  BY DEF TypeInv, Rows
<1>1. CASE UNCHANGED vars
  BY <1>1 DEF vars, TypeInv, Steps
<1>2. ASSUME NEW p \in Proc, NEW c \in Names, Start(p, c) PROVE TypeInv'
  <2>1. /\ status[p] = "new" /\ at[p] = 1
        /\ Commands[c].steps \in Seq(AnyStep) /\ Len(Commands[c].steps) > 0
    BY <1>2, AllBounded DEF Start, TypeInv, Bounded
  <2>2. Len(Commands[c].steps) \in Nat
    BY <2>1
  <2>3. \A q \in Proc : /\ cmd'[q] = IF q = p THEN c ELSE cmd[q]
                        /\ status'[q] = IF q = p THEN "running" ELSE status[q]
    BY <1>2 DEF Start, TypeInv
  <2>4. \A q \in Proc : status'[q] = "running" => at'[q] <= Len(Steps(q)')
    BY <1>2, <2>1, <2>2, <2>3 DEF Start, TypeInv, Steps
  <2>5. status' \in [Proc -> Statuses] /\ cmd' \in [Proc -> Names]
    BY <1>2 DEF Start, TypeInv, Statuses
  <2> QED
    BY <1>2, <2>3, <2>4, <2>5 DEF Start, TypeInv
<1>3. ASSUME NEW p \in Proc, Act(p) \/ OpenDb(p) \/ CloseDb(p) PROVE TypeInv'
  <2>1. status[p] = "running" /\ (On(p) \/ Fails(p))
    BY <1>3 DEF Act, OpenDb, CloseDb, Doing
  <2>2. /\ row' \in Rows /\ robbed' \in SUBSET Proc /\ cmd' = cmd
        /\ pids' \in SUBSET (pids \cup {p})
        /\ held' = [held EXCEPT ![p] = held[p]]
    BY <1>0, <1>3 DEF Act, OpenDb, CloseDb
  <2>3. \E h \in {"null", "open", "closed"} :
           handle' = [handle EXCEPT ![p] = h]
    BY <1>0, <1>3, FailureHandles DEF Act, OpenDb, CloseDb, Closed
  <2> QED
    BY <1>0, <2>1, <2>2, <2>3, OutcomeAdvances, StepKeepsType
<1>4. ASSUME NEW p \in Proc, ObtainLock(p) PROVE TypeInv'
  <2>1. status[p] = "running" /\ Now(p).op = "obtain" /\ cmd' = cmd
    BY <1>4 DEF ObtainLock, Doing
  <2>2. Now(p).arg \in Locks
    BY <2>1, RunsStep, StepFields
  <2>3. CASE Asks(p, Now(p).arg)
    BY <2>1, <2>2, <2>3, LockCallKeepsType
  <2>4. CASE On(p) /\ UNCHANGED <<row, pids, handle, held, robbed>>
    BY <1>0, <2>1, <2>4, OutcomeAdvances, StepKeepsType
  <2> QED
    BY <1>4, <2>3, <2>4 DEF ObtainLock, Asks
<1>5. ASSUME NEW p \in Proc, ConvertLock(p) PROVE TypeInv'
  <2>1. status[p] = "running" /\ Now(p).op = "convert" /\ cmd' = cmd
    BY <1>5 DEF ConvertLock, Doing
  <2>2. Now(p).arg \in Conversions
    BY <2>1, RunsStep, StepFields
  <2> QED
    BY <1>5, <2>1, <2>2, LockCallKeepsType DEF ConvertLock, Asks
<1>6. ASSUME NEW p \in Proc, ReleaseLock(p) PROVE TypeInv'
  <2>1. status[p] = "running" /\ Now(p).op = "release" /\ On(p) /\ cmd' = cmd
        /\ handle' = handle
    BY <1>6 DEF ReleaseLock, Doing
  <2>2. PICK l \in Locks : l = Now(p).arg
    BY <2>1, RunsStep, StepFields
  <2>3. \/ UNCHANGED <<row, pids, held, robbed>>
        \/ /\ Releasable(l) /\ row' = Released(l)
           /\ held' = [held EXCEPT ![p] = held[p] \ {l}]
           /\ robbed' = robbed \cup Bereft(p, l)
           /\ pids' = pids \ {p}
    BY <1>6, <2>2 DEF ReleaseLock
  <2>4. Releasable(l) => Released(l) \in Rows
    <3>1. CASE l = "R"
      BY <1>0, <3>1 DEF Releasable, Released, Rows
    <3>2. CASE l = "A"
      BY <1>0, <3>2 DEF Released, Rows
    <3>3. CASE l = "X"
      BY <1>0, <3>3 DEF Released, Rows
    <3> QED
      BY <2>2, <3>1, <3>2, <3>3 DEF Locks
  <2>5. Bereft(p, l) \in SUBSET Proc /\ held[p] \ {l} \in SUBSET Locks
    BY <1>0 DEF Bereft, Holders
  <2> QED
    BY <1>0, <2>1, <2>3, <2>4, <2>5, OutcomeAdvances, StepKeepsType
<1>7. ASSUME NEW p \in Proc, Abort(p) \/ Exit(p) PROVE TypeInv'
  BY <1>7, LeavingKeepsType DEF Abort, Exit
<1> QED
  BY <1>1, <1>2, <1>3, <1>4, <1>5, <1>6, <1>7 DEF Next, Running

\* The state of the commands stays within its types: the counts of the row
\* never go below zero, and a running process is always at a step of its
\* command, wherever a failed step sends it.
THEOREM TypeCorrect == Spec => []TypeInv
BY InitType, NextType, PTL DEF Spec

---------------------------------------------------------------------------
(* The lock service.  The row says what the holders nobody robbed hold: an *)
(* exclusive lock is alone in it, an advisory one is in it, and the count  *)
(* of the readers is at least theirs.                                      *)

RowSays(p) ==
    /\ "X" \in held[p] =>
          row = [exclusive |-> 1,
                 advisory |-> IF "A" \in held[p] THEN 1 ELSE 0, read |-> 0]
    /\ "A" \in held[p] => row.advisory = 1

Exclusion ==
    \A p, q \in Proc \ robbed : p # q => Service!Compatible(held[p], held[q])

LockInv ==
    /\ \A p \in Proc \ robbed : RowSays(p)
    /\ row.read >= Cardinality(Holders("R"))
    /\ Exclusion

\* There are finitely many holders.
LEMMA HoldersFinite ==
    ASSUME NEW l
    PROVE  /\ IsFiniteSet(Holders(l))
           /\ Cardinality(Holders(l)) \in Nat
           /\ Cardinality(Holders(l)) = 0 <=> Holders(l) = {}
<1>1. Holders(l) \subseteq Proc
  BY DEF Holders
<1>2. IsFiniteSet(Holders(l))
  BY <1>1, FS_Subset, CommandsAssumption
<1> QED
  BY <1>2, FS_CardinalityType, FS_EmptySet

\* An unlocked row has no holders but robbed ones, and more generally what
\* the row does not say nobody holds.
LEMMA NobodyHolds ==
    ASSUME TypeInv, LockInv, NEW p \in Proc \ robbed
    PROVE  /\ row.exclusive = 0 => "X" \notin held[p]
           /\ row.advisory = 0 => "A" \notin held[p]
           /\ row.read = 0 => "R" \notin held[p]
           /\ held[p] \in SUBSET Locks
<1>1. row.read = 0 => Holders("R") = {}
  BY HoldersFinite DEF LockInv, TypeInv
<1>2. row.exclusive = 0 => "X" \notin held[p]
  BY DEF LockInv, RowSays
<1> QED
  BY <1>1, <1>2 DEF LockInv, RowSays, Holders, TypeInv

\* Nobody holds anything at first.
LEMMA InitLock == Init => LockInv
<1> SUFFICES ASSUME Init PROVE LockInv
  OBVIOUS
<1>1. Holders("R") = {}
  BY DEF Init, Holders
<1>2. row.read >= Cardinality(Holders("R"))
  BY <1>1, FS_EmptySet DEF Init, Unlocked
<1> QED
  BY <1>2 DEF Init, LockInv, RowSays, Exclusion, Service!Compatible

\* A process that leaves takes its locks and its place in robbed with it.
LEMMA LeavingKeepsLock ==
    ASSUME TypeInv, LockInv, NEW p \in Proc, Leaves(p), row' = row
    PROVE  LockInv'
<1>1. \A q \in Proc : /\ held'[q] = IF q = p THEN {} ELSE held[q]
                      /\ q # p => (q \in robbed' <=> q \in robbed)
  BY DEF Leaves, TypeInv
<1>2. Holders("R")' = Holders("R") \ {p}
  BY <1>1 DEF Holders
<1>3. /\ Cardinality(Holders("R") \ {p}) <= Cardinality(Holders("R"))
      /\ Cardinality(Holders("R") \ {p}) \in Nat
  BY HoldersFinite, FS_Subset, FS_CardinalityType
<1>4. row'.read >= Cardinality(Holders("R")')
  <2>1. row.read \in Nat /\ row.read >= Cardinality(Holders("R"))
    BY DEF TypeInv, LockInv
  <2>2. Cardinality(Holders("R")) \in Nat
    BY HoldersFinite
  <2> QED
    BY <1>2, <1>3, <2>1, <2>2
<1>5. \A q \in Proc \ robbed' : RowSays(q)'
  BY <1>1 DEF LockInv, RowSays
<1>6. Exclusion'
  BY <1>1 DEF LockInv, Exclusion, Service!Compatible
<1> QED
  BY <1>4, <1>5, <1>6 DEF LockInv

\* Who holds a lock after lock_sql took it.
LEMMA GrantHeld ==
    ASSUME TypeInv, NEW p \in Proc, NEW r \in Locks \cup Conversions,
           LockGranted(p, r)
    PROVE  /\ \A q \in Proc :
                 held'[q] = IF q = p THEN HeldAfter(held[p], r) ELSE held[q]
           /\ r \in Locks => robbed' = robbed
           /\ r \in Conversions =>
                 robbed' = robbed \cup ((Holders("A") \cup Holders("X")) \ {p})
           /\ Grantable(r) /\ row' = Granted(row, r)
           /\ p \in robbed' <=> p \in robbed
BY DEF LockGranted, TypeInv, Locks, Conversions

\* A lock for readers is granted.
LEMMA GrantRKeepsLock ==
    ASSUME TypeInv, LockInv, NEW p \in Proc, LockGranted(p, "R")
    PROVE  LockInv'
<1>1. /\ row.exclusive = 0 /\ row' = [row EXCEPT !.read = @ + 1]
      /\ robbed' = robbed
      /\ \A q \in Proc :
            held'[q] = IF q = p THEN held[p] \cup {"R"} ELSE held[q]
  <2>1. "R" \in Locks /\ Grantable("R") /\ row' = Granted(row, "R")
    BY GrantHeld DEF Locks
  <2>2. /\ robbed' = robbed
        /\ \A q \in Proc :
              held'[q] = IF q = p THEN HeldAfter(held[p], "R") ELSE held[q]
    BY <2>1, GrantHeld
  <2> QED
    BY <2>1, <2>2 DEF Grantable, Granted, HeldAfter
<1>2. /\ row \in Rows /\ row'.read = row.read + 1 /\ row'.exclusive = 0
      /\ row'.advisory = row.advisory
  BY <1>1 DEF TypeInv, Rows
<1>3. Holders("R")' \subseteq Holders("R") \cup {p}
  BY <1>1 DEF Holders
<1>4. /\ IsFiniteSet(Holders("R") \cup {p})
      /\ Cardinality(Holders("R") \cup {p}) \in Nat
      /\ Cardinality(Holders("R") \cup {p}) <= Cardinality(Holders("R")) + 1
  <2>1. /\ IsFiniteSet(Holders("R")) /\ Cardinality(Holders("R")) \in Nat
        /\ IsFiniteSet(Holders("R") \cup {p})
        /\ Cardinality(Holders("R") \cup {p}) =
             IF p \in Holders("R") THEN Cardinality(Holders("R"))
                                   ELSE Cardinality(Holders("R")) + 1
    BY HoldersFinite, FS_AddElement
  <2> QED
    BY <2>1
<1>5. /\ Cardinality(Holders("R")') <= Cardinality(Holders("R") \cup {p})
      /\ Cardinality(Holders("R")') \in Nat
  BY <1>3, <1>4, FS_Subset, FS_CardinalityType
<1>6. row'.read >= Cardinality(Holders("R")')
  BY <1>2, <1>4, <1>5, HoldersFinite DEF LockInv, Rows
<1>7. \A q \in Proc \ robbed' : RowSays(q)' /\ "X" \notin held[q]
  BY <1>1, <1>2, NobodyHolds DEF LockInv, RowSays
<1>8. Exclusion'
  BY <1>1, <1>7 DEF LockInv, Exclusion, Service!Compatible
<1> QED
  BY <1>6, <1>7, <1>8 DEF LockInv

\* An advisory or an exclusive lock is granted.
LEMMA GrantAXKeepsLock ==
    ASSUME TypeInv, LockInv, NEW p \in Proc, NEW r \in {"A", "X"},
           LockGranted(p, r)
    PROVE  LockInv'
<1>1. /\ row.exclusive = 0 /\ row.advisory = 0 /\ (r = "X" => row.read = 0)
      /\ robbed' = robbed
      /\ \A q \in Proc : held'[q] = IF q = p THEN held[p] \cup {r} ELSE held[q]
  <2>1. r \in Locks /\ Grantable(r)
    BY GrantHeld DEF Locks
  <2>2. /\ robbed' = robbed
        /\ \A q \in Proc :
              held'[q] = IF q = p THEN HeldAfter(held[p], r) ELSE held[q]
    BY <2>1, GrantHeld
  <2>3. r = "X" => row = Unlocked
    BY <2>1 DEF Grantable
  <2>4. r = "A" => row.exclusive = 0 /\ row.advisory = 0
    BY <2>1 DEF Grantable
  <2> QED
    BY <2>1, <2>2, <2>3, <2>4 DEF HeldAfter, Unlocked
<1>2. row' = [exclusive |-> IF r = "X" THEN 1 ELSE 0,
              advisory |-> IF r = "A" THEN 1 ELSE 0, read |-> row.read]
  <2>1. row' = Granted(row, r) /\ row \in Rows
    BY GrantHeld DEF Locks, TypeInv, Rows
  <2>2. CASE r = "A"
    <3>1. row' = [row EXCEPT !.exclusive = 0, !.advisory = 1]
      BY <2>1, <2>2 DEF Granted
    <3> QED
      BY <1>1, <2>1, <2>2, <3>1 DEF Rows
  <2>3. CASE r = "X"
    <3>1. row' = [row EXCEPT !.exclusive = 1]
      BY <2>1, <2>3 DEF Granted
    <3> QED
      BY <1>1, <2>1, <2>3, <3>1 DEF Rows
  <2> QED
    BY <2>2, <2>3
<1>3. \A q \in Proc \ robbed : /\ "X" \notin held[q] /\ "A" \notin held[q]
                               /\ r = "X" => held[q] = {}
  BY <1>1, NobodyHolds DEF Locks
<1>4. Holders("R")' = Holders("R")
  BY <1>1 DEF Holders
<1>5. row'.read >= Cardinality(Holders("R")')
  BY <1>2, <1>4 DEF LockInv
<1>6. \A q \in Proc \ robbed' : RowSays(q)'
  BY <1>1, <1>2, <1>3 DEF RowSays
<1>7. Exclusion'
  BY <1>1, <1>3 DEF Exclusion, Service!Compatible
<1> QED
  BY <1>5, <1>6, <1>7 DEF LockInv

\* A conversion is granted: whoever held the lock it converts is robbed, and
\* there are no readers.
LEMMA ConversionKeepsLock ==
    ASSUME TypeInv, LockInv, NEW p \in Proc, NEW r \in Conversions,
           LockGranted(p, r)
    PROVE  LockInv'
<1>1. /\ row.read = 0 /\ row.advisory = 1
      /\ row' = [exclusive |-> IF r = "AX" THEN 1 ELSE 0, advisory |-> 1,
                 read |-> 0]
      /\ robbed' = robbed \cup ((Holders("A") \cup Holders("X")) \ {p})
      /\ \A q \in Proc :
            held'[q] = IF q = p THEN HeldAfter(held[p], r) ELSE held[q]
  <2>1. Grantable(r) /\ row' = Granted(row, r)
    BY GrantHeld
  <2>2. /\ robbed' = robbed \cup ((Holders("A") \cup Holders("X")) \ {p})
        /\ \A q \in Proc :
              held'[q] = IF q = p THEN HeldAfter(held[p], r) ELSE held[q]
    BY GrantHeld
  <2>3. CASE r = "AX"
    <3>1. row = [exclusive |-> 0, advisory |-> 1, read |-> 0]
      BY <2>1, <2>3 DEF Grantable, Unlocked
    <3>2. row' = [row EXCEPT !.exclusive = 1, !.advisory = 1]
      BY <2>1, <2>3 DEF Granted
    <3> QED
      BY <2>2, <2>3, <3>1, <3>2
  <2>4. CASE r = "XA"
    <3>1. row = [exclusive |-> 1, advisory |-> 1, read |-> 0]
      BY <2>1, <2>4 DEF Grantable
    <3>2. row' = [row EXCEPT !.exclusive = 0, !.advisory = 1]
      BY <2>1, <2>4 DEF Granted
    <3> QED
      BY <2>2, <2>4, <3>1, <3>2
  <2> QED
    BY <2>3, <2>4 DEF Conversions
<1>2. \A q \in Proc \ robbed' : q # p => held'[q] = {}
  BY <1>1, NobodyHolds DEF Locks, Holders
<1>3. p \notin robbed' =>
        /\ "A" \in held'[p] /\ ("X" \in held'[p] <=> r = "AX")
        /\ "R" \notin held'[p]
  BY <1>1, NobodyHolds DEF HeldAfter, Locks, Conversions
<1>4. Holders("R")' = {}
  BY <1>2, <1>3 DEF Holders
<1>5. row'.read >= Cardinality(Holders("R")')
  BY <1>1, <1>4, FS_EmptySet
<1>6. \A q \in Proc \ robbed' : RowSays(q)'
  BY <1>1, <1>2, <1>3 DEF RowSays, Conversions
<1>7. Exclusion'
  BY <1>2 DEF Exclusion, Service!Compatible
<1> QED
  BY <1>5, <1>6, <1>7 DEF LockInv

\* The row is reset: whoever held something is robbed, and p has one lock.
LEMMA ResetKeepsLock ==
    ASSUME TypeInv, LockInv, NEW p \in Proc, NEW r \in Locks \cup Conversions,
           LockReset(p, r)
    PROVE  LockInv'
<1>1. PICK l \in Locks : l = Fresh(r)
  BY FreshIsLock
<1>2. /\ row' = Granted(Unlocked, l)
      /\ \A q \in Proc : held'[q] = IF q = p THEN {l} ELSE held[q]
      /\ robbed' = robbed \cup {q \in Proc \ {p} : held[q] # {}}
  BY <1>1 DEF LockReset, Fresh, TypeInv
<1>3. \A q \in Proc \ robbed' : q # p => held'[q] = {}
  BY <1>2
<1>4. row' = [exclusive |-> IF l = "X" THEN 1 ELSE 0,
              advisory |-> IF l = "A" THEN 1 ELSE 0,
              read |-> IF l = "R" THEN 1 ELSE 0]
  <2>1. CASE l = "R"
    BY <1>2, <2>1 DEF Granted, Unlocked
  <2>2. CASE l = "A"
    BY <1>2, <2>2 DEF Granted, Unlocked
  <2>3. CASE l = "X"
    BY <1>2, <2>3 DEF Granted, Unlocked
  <2> QED
    BY <2>1, <2>2, <2>3 DEF Locks
<1>5. row'.read >= Cardinality(Holders("R")')
  <2>1. CASE l = "R"
    <3>1. Holders("R")' \subseteq {p}
      BY <1>3 DEF Holders
    <3>2. /\ IsFiniteSet({p}) /\ Cardinality({p}) = 1
      BY FS_Singleton
    <3>3. Cardinality(Holders("R")') <= 1 /\ Cardinality(Holders("R")') \in Nat
      BY <3>1, <3>2, FS_Subset, FS_CardinalityType
    <3> QED
      BY <1>4, <2>1, <3>3
  <2>2. CASE l # "R"
    <3>1. Holders("R")' = {}
      BY <1>2, <1>3, <2>2 DEF Holders
    <3> QED
      BY <1>4, <2>2, <3>1, FS_EmptySet
  <2> QED
    BY <2>1, <2>2
<1>6. \A q \in Proc \ robbed' : RowSays(q)'
  BY <1>2, <1>3, <1>4 DEF RowSays
<1>7. Exclusion'
  BY <1>3 DEF Exclusion, Service!Compatible
<1> QED
  BY <1>5, <1>6, <1>7 DEF LockInv

\* What unlock_sql changes.
Unlocks(p, l) ==
    /\ Releasable(l) /\ row' = Released(l)
    /\ held' = [held EXCEPT ![p] = held[p] \ {l}]
    /\ robbed' = robbed \cup Bereft(p, l)
    /\ pids' = pids \ {p}

\* A release takes a lock away from p, and from others at most by robbing
\* them.
LEMMA ReleaseKeepsLock ==
    ASSUME TypeInv, LockInv, NEW p \in Proc, NEW l \in Locks, Unlocks(p, l)
    PROVE  LockInv'
<1>0. row \in Rows
  BY DEF TypeInv, Rows
<1>1. \A q \in Proc : held'[q] = IF q = p THEN held[p] \ {l} ELSE held[q]
  BY DEF Unlocks, TypeInv
<1>2. robbed' = robbed \cup Bereft(p, l) /\ p \notin Bereft(p, l)
  BY DEF Unlocks, Bereft
<1>3. Exclusion'
  BY <1>1, <1>2 DEF LockInv, Exclusion, Service!Compatible
<1>4. Holders("R")' \subseteq Holders("R")
  BY <1>1, <1>2 DEF Holders
<1>5. /\ Cardinality(Holders("R")') <= Cardinality(Holders("R"))
      /\ Cardinality(Holders("R")') \in Nat /\ Cardinality(Holders("R")) \in Nat
  BY <1>4, HoldersFinite, FS_Subset, FS_CardinalityType
<1>6. CASE l = "R"
  <2>1. /\ row.read > 0 /\ row'.read = row.read - 1
        /\ row'.exclusive = row.exclusive /\ row'.advisory = row.advisory
    BY <1>0, <1>6 DEF Unlocks, Releasable, Released, Rows
  <2>2. \A q \in Proc \ robbed' : RowSays(q)'
    <3> SUFFICES ASSUME NEW q \in Proc \ robbed' PROVE RowSays(q)'
      OBVIOUS
    <3>1. q \in Proc \ robbed /\ RowSays(q)
      BY <1>2 DEF LockInv
    <3>2. "X" \notin held[q]
      BY <2>1, <3>1 DEF RowSays
    <3>3. "X" \notin held'[q] /\ ("A" \in held'[q] => "A" \in held[q])
      BY <1>1, <1>6, <3>2
    <3> QED
      BY <2>1, <3>1, <3>3 DEF RowSays
  <2>3. /\ Cardinality(Holders("R") \ {p}) \in Nat
        /\ Holders("R")' = Holders("R") \ ({p} \cup Bereft(p, l))
    <3>1. Cardinality(Holders("R") \ {p}) \in Nat
      BY HoldersFinite, FS_Subset, FS_CardinalityType
    <3>2. Holders("R")' = Holders("R") \ ({p} \cup Bereft(p, l))
      BY <1>1, <1>2, <1>6 DEF Holders
    <3> QED
      BY <3>1, <3>2
  <2>4. CASE row.read > Cardinality(Holders("R") \ {p})
    <3>1. Bereft(p, l) = {}
      BY <1>6, <2>4 DEF Bereft
    <3>2. Cardinality(Holders("R")') = Cardinality(Holders("R") \ {p})
      BY <2>3, <3>1
    <3> QED
      BY <1>0, <1>3, <2>1, <2>2, <2>3, <2>4, <3>2 DEF LockInv, Rows
  <2>5. CASE ~(row.read > Cardinality(Holders("R") \ {p}))
    <3>1. Bereft(p, l) = Holders("R") \ {p}
      BY <1>6, <2>5 DEF Bereft
    <3>2. Holders("R")' = {}
      BY <2>3, <3>1
    <3>3. Cardinality(Holders("R")') = 0
      BY <3>2, FS_EmptySet
    <3> QED
      BY <1>0, <1>3, <2>1, <2>2, <3>3 DEF LockInv, Rows
  <2> QED
    BY <2>4, <2>5
<1>7. CASE l \in {"A", "X"}
  <2>1. Bereft(p, l) = Holders(l) \ {p}
    BY <1>7 DEF Bereft
  <2>2. \A q \in Proc \ robbed' : q \in Proc \ robbed /\ l \notin held'[q]
    BY <1>1, <1>2, <2>1 DEF Holders
  <2>3. row' = [exclusive |-> IF l = "X" THEN 0 ELSE row.exclusive,
                advisory |-> IF l = "A" THEN 0 ELSE row.advisory,
                read |-> row.read]
    <3>1. CASE l = "A"
      BY <1>0, <3>1 DEF Unlocks, Released, Rows
    <3>2. CASE l = "X"
      BY <1>0, <3>2 DEF Unlocks, Released, Rows
    <3> QED
      BY <1>7, <3>1, <3>2
  <2>4. ASSUME NEW q \in Proc \ robbed' PROVE RowSays(q)'
    <3>1. RowSays(q) /\ l \notin held'[q]
      BY <2>2 DEF LockInv
    <3>2. CASE l = "A"
      <4>1. "X" \in held'[q] => row.exclusive = 1 /\ row.read = 0
        BY <1>1, <3>1, <3>2 DEF RowSays
      <4> QED
        BY <2>3, <3>1, <3>2, <4>1 DEF RowSays
    <3>3. CASE l = "X"
      <4>1. "A" \in held'[q] => row.advisory = 1
        BY <1>1, <3>1, <3>3 DEF RowSays
      <4> QED
        BY <2>3, <3>1, <3>3, <4>1 DEF RowSays
    <3> QED
      BY <1>7, <3>2, <3>3
  <2>5. row'.read >= Cardinality(Holders("R")')
    BY <1>0, <1>5, <2>3 DEF LockInv, Rows
  <2> QED
    BY <1>3, <2>4, <2>5 DEF LockInv
<1> QED
  BY <1>6, <1>7 DEF Locks

\* What the release of a lock does, if it does anything.
LEMMA ReleaseUnlocks ==
    ASSUME TypeInv, NEW p \in Proc, ReleaseLock(p)
    PROVE  /\ status[p] = "running" /\ Now(p).op = "release"
           /\ Now(p).arg \in Locks /\ On(p) /\ UNCHANGED <<cmd, handle>>
           /\ \/ /\ UNCHANGED <<row, pids, held, robbed>>
                 /\ \/ handle[p] # "open" \/ ~Releasable(Now(p).arg)
                    \/ Now(p).arg = "R" /\ ~READ_LOCK
              \/ Unlocks(p, Now(p).arg) /\ handle[p] # "null"
<1>1. /\ status[p] = "running" /\ Now(p).op = "release" /\ On(p)
      /\ UNCHANGED <<cmd, handle>>
  BY DEF ReleaseLock, Doing
<1>2. PICK l : l = Now(p).arg
  OBVIOUS
<1>3. l \in Locks
  BY <1>1, <1>2, RunsStep, StepFields
<1>4. \/ /\ \/ handle[p] = "null" \/ (l = "R" /\ ~READ_LOCK) \/ ~Releasable(l)
            \/ handle[p] = "closed"
         /\ UNCHANGED <<row, pids, held, robbed>>
      \/ Unlocks(p, l) /\ handle[p] # "null"
  BY <1>2 DEF ReleaseLock, Unlocks
<1> QED
  BY <1>1, <1>2, <1>3, <1>4

\* Every step leaves the locks alone, or is a lock call, or a process leaves.
LEMMA StepLocks ==
    ASSUME TypeInv, [Next]_vars
    PROVE  \/ UNCHANGED <<row, held, robbed>>
           \/ \E p \in Proc, r \in Locks \cup Conversions :
                 LockGranted(p, r) \/ LockReset(p, r)
           \/ \E p \in Proc, l \in Locks : Unlocks(p, l)
           \/ \E p \in Proc : Leaves(p) /\ row' = row
<1>1. CASE UNCHANGED vars
  BY <1>1 DEF vars
<1>2. ASSUME NEW p \in Proc, NEW c \in Names, Start(p, c)
      PROVE  UNCHANGED <<row, held, robbed>>
  BY <1>2 DEF Start
<1>3. ASSUME NEW p \in Proc, Act(p) \/ OpenDb(p) \/ CloseDb(p)
      PROVE  UNCHANGED <<row, held, robbed>>
  BY <1>3 DEF Act, OpenDb, CloseDb
<1>4. ASSUME NEW p \in Proc, ObtainLock(p) \/ ConvertLock(p)
      PROVE  \/ UNCHANGED <<row, held, robbed>>
             \/ \E r \in Locks \cup Conversions :
                   LockGranted(p, r) \/ LockReset(p, r)
  <2>1. /\ Now(p).op \in {"obtain", "convert"} /\ status[p] = "running"
        /\ \/ UNCHANGED <<row, held, robbed>>
           \/ LockGranted(p, Now(p).arg) \/ LockReset(p, Now(p).arg)
    BY <1>4 DEF ObtainLock, ConvertLock, LockRefused, Doing
  <2>2. Now(p).arg \in Locks \cup Conversions
    BY <2>1, RunsStep, StepFields
  <2> QED
    BY <2>1, <2>2
<1>5. ASSUME NEW p \in Proc, ReleaseLock(p)
      PROVE  UNCHANGED <<row, held, robbed>> \/ \E l \in Locks : Unlocks(p, l)
  BY <1>5, ReleaseUnlocks
<1>6. ASSUME NEW p \in Proc, Abort(p) \/ Exit(p)
      PROVE  Leaves(p) /\ row' = row
  BY <1>6 DEF Abort, Exit
<1> QED
  BY <1>1, <1>2, <1>3, <1>4, <1>5, <1>6 DEF Next, Running

\* Every step keeps the row in agreement with the holders.
LEMMA NextLock == TypeInv /\ LockInv /\ [Next]_vars => LockInv'
<1> SUFFICES ASSUME TypeInv, LockInv, [Next]_vars PROVE LockInv'
  OBVIOUS
<1>1. CASE UNCHANGED <<row, held, robbed>>
  BY <1>1 DEF LockInv, RowSays, Holders, Exclusion
<1>2. ASSUME NEW p \in Proc, NEW r \in Locks \cup Conversions, LockGranted(p, r)
      PROVE  LockInv'
  BY <1>2, GrantRKeepsLock, GrantAXKeepsLock, ConversionKeepsLock DEF Locks
<1> QED
  BY <1>1, <1>2, StepLocks, ResetKeepsLock, ReleaseKeepsLock, LeavingKeepsLock

\* A step that changes the locks of p is a call of the service.
LEMMA CallServes ==
    ASSUME NEW p \in Proc, NEW h \in SUBSET Locks,
           NEW victims \in SUBSET (Proc \ {p}),
           held' = [held EXCEPT ![p] = h], robbed' = robbed \cup victims,
           Exclusion'
    PROVE  Service!Change(p)
<1>1. \E g \in SUBSET Service!Locks : held' = [held EXCEPT ![p] = g]
  BY DEF Locks, Service!Locks
<1>2. \A q, r \in Proc \ robbed' :
          q # r => Service!Compatible(held'[q], held'[r])
  BY DEF Exclusion
<1> QED
  BY <1>1, <1>2 DEF Service!Change

\* Every step of a command is a call of the service or leaves it alone.
LEMMA NextServes ==
    TypeInv /\ LockInv' /\ [Next]_vars => [Service!Next]_<<held, robbed>>
<1> SUFFICES ASSUME TypeInv, LockInv', [Next]_vars
             PROVE  [Service!Next]_<<held, robbed>>
  OBVIOUS
<1>0. Exclusion' /\ held \in [Proc -> SUBSET Locks]
  BY DEF LockInv, TypeInv
<1>1. ASSUME NEW p \in Proc, NEW r \in Locks \cup Conversions, LockGranted(p, r)
      PROVE  Service!Change(p)
  <2>1. HeldAfter(held[p], r) \in SUBSET Locks
    BY <1>0 DEF HeldAfter, Locks, Conversions
  <2>2. held' = [held EXCEPT ![p] = HeldAfter(held[p], r)]
    BY <1>1 DEF LockGranted
  <2>3. CASE robbed' = robbed
    <3>1. {} \in SUBSET (Proc \ {p}) /\ robbed' = robbed \cup {}
      BY <2>3
    <3> QED
      BY <1>0, <2>1, <2>2, <3>1, CallServes
  <2>4. CASE robbed' = robbed \cup ((Holders("A") \cup Holders("X")) \ {p})
    <3>1. (Holders("A") \cup Holders("X")) \ {p} \in SUBSET (Proc \ {p})
      BY DEF Holders
    <3> QED
      BY <1>0, <2>1, <2>2, <2>4, <3>1, CallServes
  <2> QED
    BY <1>1, <2>3, <2>4 DEF LockGranted
<1>2. ASSUME NEW p \in Proc, NEW r \in Locks \cup Conversions, LockReset(p, r)
      PROVE  Service!Change(p)
  <2>1. {Fresh(r)} \in SUBSET Locks
    BY FreshIsLock
  <2>2. held' = [held EXCEPT ![p] = {Fresh(r)}]
    BY <1>2 DEF LockReset, Fresh
  <2>3. PICK victims : victims = {q \in Proc \ {p} : held[q] # {}}
    OBVIOUS
  <2>4. robbed' = robbed \cup victims /\ victims \in SUBSET (Proc \ {p})
    BY <1>2, <2>3 DEF LockReset
  <2> QED
    BY <1>0, <2>1, <2>2, <2>4, CallServes
<1>3. ASSUME NEW p \in Proc, NEW l \in Locks, Unlocks(p, l)
      PROVE  Service!Change(p)
  <2>1. /\ held[p] \ {l} \in SUBSET Locks
        /\ held' = [held EXCEPT ![p] = held[p] \ {l}]
        /\ robbed' = robbed \cup Bereft(p, l)
    BY <1>0, <1>3 DEF Unlocks
  <2>2. Bereft(p, l) \in SUBSET (Proc \ {p})
    BY DEF Bereft, Holders
  <2> QED
    BY <1>0, <2>1, <2>2, CallServes
<1>4. ASSUME NEW p \in Proc, Leaves(p) PROVE Service!Leave(p)
  BY <1>4 DEF Leaves, Service!Leave
<1> QED
  BY <1>1, <1>2, <1>3, <1>4, StepLocks DEF Service!Next

\* The lock calls of all commands together, with their early returns, their
\* conversions and the releases of locks that are gone, are calls of the lock
\* service: commands nobody robbed hold compatible locks.
THEOREM CommandsImplementService == Spec => ServiceImplemented
<1>1. Init => Service!Init
  BY DEF Init, Service!Init
<1> QED
  BY <1>1, InitType, NextType, InitLock, NextLock, NextServes, PTL
     DEF Spec, ServiceImplemented, Service!Spec

---------------------------------------------------------------------------
(* Control.  Where a command may hold which lock is a fact about its       *)
(* program; the programs are finite, and each of their steps is looked at. *)

\* The steps that a command runs with the exclusive lock, up to the one that
\* gives it back or converts it.
XSpan(c) ==
    CASE c = "add"              -> 4 .. 7
      [] c = "annotate"         -> 4 .. 8
      [] c = "autoremove"       -> 8 .. 9
      [] c = "delete"           -> 9 .. 10
      [] c = "install"          -> 10 .. 11
      [] c = "upgrade"          -> 10 .. 11
      [] c = "lock"             -> 4 .. 8
      [] c = "unlock"           -> 4 .. 8
      [] c = "lock_l"           -> 4 .. 5
      [] c = "set"              -> 4 .. 11
      [] c = "register"         -> 5 .. 7
      [] c = "convert_from_old" -> 5 .. 8
      [] c = "check"            -> 7 .. 8
      [] c = "check_d"          -> 7 .. 12
      [] OTHER                  -> {}

\* The commands that upgrade an advisory lock, and the steps they run from
\* the one after they took it to the one that gives the exclusive lock back
\* (check, which converts it back, goes on to its last release): they have
\* their pid in the table and the database open.  check -d is not one of
\* them: it goes on after its repair gave the lock back.
Upgraders == {"autoremove", "delete", "install", "upgrade", "check"}
UpSpan(c) ==
    CASE c = "autoremove" -> 4 .. 9
      [] c = "delete"     -> 4 .. 10
      [] c = "install"    -> 5 .. 11
      [] c = "upgrade"    -> 5 .. 11
      [] c = "check"      -> 4 .. 10
      [] OTHER            -> {}

\* The step that takes the lock: the database is open.
OSpan(c) ==
    CASE c \in Idle \cup Lawless -> {}
      [] c \in {"which", "stats", "shlib", "create", "updating"} -> {2}
      [] c \in {"install", "upgrade", "register", "convert_from_old", "audit",
                "fetch", "install_n", "upgrade_n", "convert_from_old_n",
                "version_R"} -> {4}
      [] c = "version_I" -> {3, 4}
      [] OTHER -> {3}

\* The commands that do not always give their lock back, and of the others
\* the steps they run with a lock and the locks they may hold then.
Keepers == {"delete", "delete_n", "autoremove", "autoremove_n", "query_e",
            "updating", "lock_l", "check_d"}
LSpan(c) ==
    CASE c \in {"add", "annotate", "lock", "unlock", "set", "register",
                "convert_from_old"}         -> XSpan(c)
      [] c \in {"install", "upgrade"}       -> 5 .. 12
      [] c = "check"                        -> 4 .. 10
      [] c \in {"info", "query"}            -> 4 .. 6
      [] c = "which"                        -> 3 .. 6
      [] c \in {"stats", "shlib"}           -> 3 .. 4
      [] c \in {"audit", "convert_from_old_n", "version_I"} -> 5 .. 6
      [] c = "clean"                        -> 4 .. 9
      [] c = "create"                       -> 3 .. 6
      [] c \in {"convert_to_old", "version_P"} -> 4 .. 7
      [] c = "fetch"                        -> 5 .. 9
      [] c \in {"install_n", "upgrade_n"}   -> 5 .. 7
      [] c = "version_R"                    -> 5 .. 8
      [] OTHER                              -> {}
May(c, i) ==
    CASE c \in Readers -> {"R"}
      [] c \in {"install", "upgrade", "check"} ->
            IF i \in XSpan(c) THEN {"A", "X"} ELSE {"A"}
      [] OTHER -> {"X"}

---------------------------------------------------------------------------
(* What a step of a program says about the spans.                          *)

StepOf(c, i) == Commands[c].steps[i]
LockOps == {"obtain", "convert", "release"}

\* Where step i of c may go when it fails.
FailsTo(c, i, j) ==
    \/ StepOf(c, i).fail \in {"on", "closeon"} /\ j = i + 1
    \/ StepOf(c, i).fail = "cleanup" /\ j = Commands[c].cleanup
    \/ StepOf(c, i).fail = "skip" /\ j = i + 2
    \/ StepOf(c, i).fail \in {"goto", "drop"} /\ j = StepOf(c, i).to

\* The call that brings the exclusive lock, and does not go on without it.
TakesX(s) ==
    /\ (s.op = "obtain" /\ s.arg = "X") \/ (s.op = "convert" /\ s.arg = "AX")
    /\ s.fail \notin {"on", "closeon"}

\* annotate that may not run goes to its cleanup without a handle.
NoAccess(c, i) == c = "annotate" /\ i = 8

\* The exclusive lock.  Its span is entered by the call that brings it only;
\* the package database is written, and the lock given back or converted,
\* inside of it.
ExclusiveStep(c, i) ==
    LET s == StepOf(c, i) IN
    /\ i + 1 \in XSpan(c) =>
          TakesX(s) \/ (i \in XSpan(c) /\ s.op \notin LockOps)
    /\ \A j \in XSpan(c) : FailsTo(c, i, j) =>
          i \in XSpan(c) \/ (NoAccess(c, j) /\ i = 1)
    /\ (s.op = "write" /\ s.arg = "X") => i \in XSpan(c) \/ c \in Lawless
    /\ (s.op = "release" /\ s.arg = "X") => i \in XSpan(c)
    /\ s.op = "convert" => c \in Upgraders \cup {"check_d"}
    /\ (s.op = "convert" /\ s.arg = "XA") => i \in XSpan(c) \/ c = "check_d"
    /\ NoAccess(c, i) => s.op = "release"
    /\ c = "annotate" => ~FailsTo(c, i, 1) /\ (s.op = "open" => i # 1)

\* What an upgrader does in its spans, and how it gets there.
UpgradeStep(c, i) ==
    LET s == StepOf(c, i) IN
    /\ i \in XSpan(c) =>
          /\ i \in UpSpan(c)
          /\ \/ s.op = "write" /\ s.fail = "on" /\ i + 1 \in XSpan(c)
             \/ s.op = "release" /\ s.arg = "X"
             \/ s.op = "convert" /\ s.arg = "XA"
    /\ s.op = "convert" => i \in UpSpan(c)
    /\ (s.op = "convert" /\ s.arg = "AX") => i + 1 \in XSpan(c)
    /\ i + 1 \in UpSpan(c) =>
          \/ s.op = "obtain" /\ s.arg = "A" /\ s.fail = "close"
          \/ /\ i \in UpSpan(c)
             /\ s.op \notin {"obtain", "release", "open", "close"}
    /\ \A j \in UpSpan(c) : FailsTo(c, i, j) =>
          i \in UpSpan(c) /\ s.fail \notin {"closeon", "drop"}

\* The database is open where a lock is taken.
OpeningStep(c, i) ==
    LET s == StepOf(c, i) IN
    /\ s.op = "obtain" => i \in OSpan(c)
    /\ i + 1 \in OSpan(c) =>
          \/ s.op = "open" /\ s.fail \notin {"on", "closeon"}
          \/ i \in OSpan(c) /\ s.op = "work" /\ s.fail = "on"
    /\ \A j \in OSpan(c) : FailsTo(c, i, j) => i \in OSpan(c) /\ s.fail = "on"

\* A lock is taken on the way into the span only, nothing but a release leads
\* out of it, and the locks a command may hold grow by its calls only.
GivingStep(c, i) ==
    LET s == StepOf(c, i) IN
    /\ s.op = "obtain" =>
          /\ i \notin LSpan(c) /\ i + 1 \in LSpan(c)
          /\ s.arg \in May(c, i + 1) /\ s.fail = "close"
    /\ s.op = "convert" =>
          /\ i \in LSpan(c) /\ i + 1 \in LSpan(c)
          /\ May(c, i) \subseteq {"A", "X"}
          /\ s.arg = "AX" => May(c, i + 1) = {"A", "X"}
          /\ s.arg = "XA" => c = "check" /\ i = 8
    /\ (i \in LSpan(c) /\ s.op # "release") =>
          /\ s.op \in {"work", "read", "write", "convert"}
          /\ s.fail \in {"on", "cleanup", "skip", "goto"}
          /\ i + 1 \in LSpan(c)
          /\ s.op # "convert" => May(c, i) \subseteq May(c, i + 1)
          /\ ~(s.op = "convert" /\ s.arg = "XA") => \A j :
                FailsTo(c, i, j) =>
                    j \in LSpan(c) /\ May(c, i) \subseteq May(c, j)
    /\ (i \in LSpan(c) /\ s.op = "release") =>
          \/ May(c, i) = {s.arg}
          \/ i + 1 \in LSpan(c) /\ May(c, i) \ {s.arg} \subseteq May(c, i + 1)

\* All of it, for the commands it is about.
Sound(c, i) ==
    /\ ExclusiveStep(c, i) /\ OpeningStep(c, i)
    /\ c \in Upgraders => UpgradeStep(c, i)
    /\ c \notin Keepers => GivingStep(c, i)

Placed(c) ==
    /\ \A i \in 1 .. Len(Commands[c].steps) : Sound(c, i)
    /\ \A i \in XSpan(c) \cup LSpan(c) : i <= Len(Commands[c].steps)

\* What the constructors say of the fields of a step.
Is(s, op, arg, fail, to) ==
    s.op = op /\ s.arg = arg /\ s.fail = fail /\ s.to = to

\* Every constructor of the module.
LEMMA Fields ==
    /\ \A f : Is(Work(f), "work", "none", f, 0)
    /\ \A f : Is(Read(f), "read", "none", f, 0)
    /\ \A f : Is(Write(f), "write", "X", f, 0)
    /\ Is(Compact, "write", "A", "on", 0)
    /\ Is(Open, "open", "none", "return", 0)
    /\ Is(Close, "close", "none", "on", 0)
    /\ \A l : Is(Obtain(l), "obtain", l, "close", 0)
    /\ \A l : Is(Release(l), "release", l, "on", 0)
    /\ \A r, f : Is(Convert(r, f), "convert", r, f, 0)
    /\ \A n : Is(Jump(n), "work", "none", "goto", n)
    /\ \A r, f, n : Is(OrGoto(Convert(r, f), n), "convert", r, "goto", n)
    /\ \A f, n : Is(OrGoto(Work(f), n), "work", "none", "goto", n)
    /\ \A f, n : Is(OrGoto(Read(f), n), "read", "none", "goto", n)
BY DEF Is, Work, Open, Obtain, Convert, Release, Read, Write, Compact, Close,
       Jump, OrGoto, Step

USE DEF Sound, ExclusiveStep, UpgradeStep, OpeningStep, GivingStep, StepOf,
        Is, FailsTo, LockOps, TakesX, NoAccess, XSpan, UpSpan, OSpan, LSpan,
        May, Upgraders, Keepers, Readers, Lawless, Idle

\* pkg add.
LEMMA Placed_add == Placed("add")
<1>1. /\ Commands["add"] = add
      /\ Len(add.steps) = 8 /\ add.cleanup = 7
  BY DEF Commands, add, Framed, Program
<1>2. /\ add.steps[1] = Work("return") /\ add.steps[2] = Open
      /\ add.steps[3] = Obtain("X") /\ add.steps[4] = Work("on")
      /\ add.steps[5] = Write("on") /\ add.steps[6] = Jump(4)
      /\ add.steps[7] = Release("X") /\ add.steps[8] = Close
  BY DEF add, Framed, Program
<1>3. ASSUME NEW i \in 1 .. 8 PROVE Sound("add", i)
  BY <1>1, <1>2, Fields
<1> HIDE DEF Sound
<1> QED
  BY <1>1, <1>3 DEF Placed

\* pkg annotate, whose access may be refused before there is a handle.
LEMMA Placed_annotate == Placed("annotate")
<1>1. /\ Commands["annotate"] = annotate
      /\ Len(annotate.steps) = 9 /\ annotate.cleanup = 8
  BY DEF Commands, annotate, Annotation, Program
<1>2. /\ annotate.steps[1] = Work("cleanup") /\ annotate.steps[2] = Open
      /\ annotate.steps[3] = Obtain("X")
      /\ annotate.steps[4] = Read("cleanup")
      /\ annotate.steps[5] = Work("skip")
      /\ annotate.steps[6] = Write("cleanup") /\ annotate.steps[7] = Jump(5)
      /\ annotate.steps[8] = Release("X") /\ annotate.steps[9] = Close
  BY DEF annotate, Annotation, Program
<1>3. ASSUME NEW i \in 1 .. 9 PROVE Sound("annotate", i)
  BY <1>1, <1>2, Fields
<1> HIDE DEF Sound
<1> QED
  BY <1>1, <1>3 DEF Placed

\* pkg autoremove.
LEMMA Placed_autoremove == Placed("autoremove")
<1>1. /\ Commands["autoremove"] = autoremove
      /\ Len(autoremove.steps) = 12 /\ autoremove.cleanup = 11
  BY DEF Commands, autoremove, Framed, Apply, Program
<1>2. /\ autoremove.steps[1] = Work("return") /\ autoremove.steps[2] = Open
      /\ autoremove.steps[3] = Obtain("A")
      /\ autoremove.steps[4] = Read("close")
      /\ autoremove.steps[5] = Read("cleanup")
      /\ autoremove.steps[6] = Work("cleanup")
      /\ autoremove.steps[7] = Convert("AX", "cleanup")
      /\ autoremove.steps[8] = Write("on")
      /\ autoremove.steps[9] = Release("X") /\ autoremove.steps[10] = Compact
      /\ autoremove.steps[11] = Release("A") /\ autoremove.steps[12] = Close
  BY DEF autoremove, Framed, Apply, Program
<1>3. ASSUME NEW i \in 1 .. 12 PROVE Sound("autoremove", i)
  BY <1>1, <1>2, Fields
<1> HIDE DEF Sound
<1> QED
  BY <1>1, <1>3 DEF Placed

\* pkg delete.
LEMMA Placed_delete == Placed("delete")
<1>1. /\ Commands["delete"] = delete
      /\ Len(delete.steps) = 13 /\ delete.cleanup = 12
  BY DEF Commands, delete, Framed, Apply, Program
<1>2. /\ delete.steps[1] = Work("return") /\ delete.steps[2] = Open
      /\ delete.steps[3] = Obtain("A") /\ delete.steps[4] = Read("close")
      /\ delete.steps[5] = Read("cleanup")
      /\ delete.steps[6] = Read("cleanup")
      /\ delete.steps[7] = Work("cleanup")
      /\ delete.steps[8] = Convert("AX", "cleanup")
      /\ delete.steps[9] = Write("on") /\ delete.steps[10] = Release("X")
      /\ delete.steps[11] = Compact /\ delete.steps[12] = Release("A")
      /\ delete.steps[13] = Close
  BY DEF delete, Framed, Apply, Program
<1>3. ASSUME NEW i \in 1 .. 13 PROVE Sound("delete", i)
  BY <1>1, <1>2, Fields
<1> HIDE DEF Sound
<1> QED
  BY <1>1, <1>3 DEF Placed

\* pkg install.
LEMMA Placed_install == Placed("install")
<1>1. /\ Commands["install"] = install
      /\ Len(install.steps) = 13 /\ install.cleanup = 12
  BY DEF Commands, install, Upgrading, Apply, Program
<1>2. /\ install.steps[1] = Work("return")
      /\ install.steps[2] = Work("return") /\ install.steps[3] = Open
      /\ install.steps[4] = Obtain("A") /\ install.steps[5] = Read("cleanup")
      /\ install.steps[6] = Read("cleanup")
      /\ install.steps[7] = Work("cleanup") /\ install.steps[8] = Jump(6)
      /\ install.steps[9] = Convert("AX", "cleanup")
      /\ install.steps[10] = Write("on") /\ install.steps[11] = Release("X")
      /\ install.steps[12] = Release("A") /\ install.steps[13] = Close
  BY DEF install, Upgrading, Apply, Program
<1>3. ASSUME NEW i \in 1 .. 13 PROVE Sound("install", i)
  BY <1>1, <1>2, Fields
<1> HIDE DEF Sound
<1> QED
  BY <1>1, <1>3 DEF Placed

\* pkg upgrade.
LEMMA Placed_upgrade == Placed("upgrade")
<1>1. /\ Commands["upgrade"] = upgrade
      /\ Len(upgrade.steps) = 13 /\ upgrade.cleanup = 12
  BY DEF Commands, upgrade, Upgrading, Apply, Program
<1>2. /\ upgrade.steps[1] = Work("return")
      /\ upgrade.steps[2] = Work("return") /\ upgrade.steps[3] = Open
      /\ upgrade.steps[4] = Obtain("A") /\ upgrade.steps[5] = Read("cleanup")
      /\ upgrade.steps[6] = Read("cleanup")
      /\ upgrade.steps[7] = Work("cleanup") /\ upgrade.steps[8] = Jump(6)
      /\ upgrade.steps[9] = Convert("AX", "cleanup")
      /\ upgrade.steps[10] = Write("on") /\ upgrade.steps[11] = Release("X")
      /\ upgrade.steps[12] = Release("A") /\ upgrade.steps[13] = Close
  BY DEF upgrade, Upgrading, Apply, Program
<1>3. ASSUME NEW i \in 1 .. 13 PROVE Sound("upgrade", i)
  BY <1>1, <1>2, Fields
<1> HIDE DEF Sound
<1> QED
  BY <1>1, <1>3 DEF Placed

\* pkg lock.
LEMMA Placed_lock == Placed("lock")
<1>1. /\ Commands["lock"] = lock
      /\ Len(lock.steps) = 9 /\ lock.cleanup = 8
  BY DEF Commands, lock, Locking, Framed, Program
<1>2. /\ lock.steps[1] = Work("return") /\ lock.steps[2] = Open
      /\ lock.steps[3] = Obtain("X") /\ lock.steps[4] = Read("cleanup")
      /\ lock.steps[5] = Work("skip") /\ lock.steps[6] = Write("cleanup")
      /\ lock.steps[7] = Jump(5) /\ lock.steps[8] = Release("X")
      /\ lock.steps[9] = Close
  BY DEF lock, Locking, Framed, Program
<1>3. ASSUME NEW i \in 1 .. 9 PROVE Sound("lock", i)
  BY <1>1, <1>2, Fields
<1> HIDE DEF Sound
<1> QED
  BY <1>1, <1>3 DEF Placed

\* pkg unlock.
LEMMA Placed_unlock == Placed("unlock")
<1>1. /\ Commands["unlock"] = unlock
      /\ Len(unlock.steps) = 9 /\ unlock.cleanup = 8
  BY DEF Commands, unlock, lock, Locking, Framed, Program
<1>2. /\ unlock.steps[1] = Work("return") /\ unlock.steps[2] = Open
      /\ unlock.steps[3] = Obtain("X") /\ unlock.steps[4] = Read("cleanup")
      /\ unlock.steps[5] = Work("skip") /\ unlock.steps[6] = Write("cleanup")
      /\ unlock.steps[7] = Jump(5) /\ unlock.steps[8] = Release("X")
      /\ unlock.steps[9] = Close
  BY DEF unlock, lock, Locking, Framed, Program
<1>3. ASSUME NEW i \in 1 .. 9 PROVE Sound("unlock", i)
  BY <1>1, <1>2, Fields
<1> HIDE DEF Sound
<1> QED
  BY <1>1, <1>3 DEF Placed

\* pkg lock -l.
LEMMA Placed_lock_l == Placed("lock_l")
<1>1. /\ Commands["lock_l"] = lock_l
      /\ Len(lock_l.steps) = 6 /\ lock_l.cleanup = 5
  BY DEF Commands, lock_l, Framed, Program
<1>2. /\ lock_l.steps[1] = Work("return") /\ lock_l.steps[2] = Open
      /\ lock_l.steps[3] = Obtain("X") /\ lock_l.steps[4] = Read("closeon")
      /\ lock_l.steps[5] = Release("X") /\ lock_l.steps[6] = Close
  BY DEF lock_l, Framed, Program
<1>3. ASSUME NEW i \in 1 .. 6 PROVE Sound("lock_l", i)
  BY <1>1, <1>2, Fields
<1> HIDE DEF Sound
<1> QED
  BY <1>1, <1>3 DEF Placed

\* pkg set.
LEMMA Placed_set == Placed("set")
<1>1. /\ Commands["set"] = set
      /\ Len(set.steps) = 12 /\ set.cleanup = 11
  BY DEF Commands, set, Framed, Program
<1>2. /\ set.steps[1] = Work("return") /\ set.steps[2] = Open
      /\ set.steps[3] = Obtain("X") /\ set.steps[4] = Read("cleanup")
      /\ set.steps[5] = Work("skip") /\ set.steps[6] = Write("cleanup")
      /\ set.steps[7] = Read("cleanup") /\ set.steps[8] = Work("skip")
      /\ set.steps[9] = Write("cleanup") /\ set.steps[10] = Jump(7)
      /\ set.steps[11] = Release("X") /\ set.steps[12] = Close
  BY DEF set, Framed, Program
<1>3. ASSUME NEW i \in 1 .. 12 PROVE Sound("set", i)
  BY <1>1, <1>2, Fields
<1> HIDE DEF Sound
<1> QED
  BY <1>1, <1>3 DEF Placed

\* pkg register.
LEMMA Placed_register == Placed("register")
<1>1. /\ Commands["register"] = register
      /\ Len(register.steps) = 8 /\ register.cleanup = 7
  BY DEF Commands, register, Program
<1>2. /\ register.steps[1] = Work("return")
      /\ register.steps[2] = Work("return") /\ register.steps[3] = Open
      /\ register.steps[4] = Obtain("X") /\ register.steps[5] = Work("on")
      /\ register.steps[6] = Write("on") /\ register.steps[7] = Release("X")
      /\ register.steps[8] = Close
  BY DEF register, Program
<1>3. ASSUME NEW i \in 1 .. 8 PROVE Sound("register", i)
  BY <1>1, <1>2, Fields
<1> HIDE DEF Sound
<1> QED
  BY <1>1, <1>3 DEF Placed

\* pkg2ng.
LEMMA Placed_convert_from_old == Placed("convert_from_old")
<1>1. /\ Commands["convert_from_old"] = convert_from_old
      /\ Len(convert_from_old.steps) = 9 /\ convert_from_old.cleanup = 8
  BY DEF Commands, convert_from_old, Program
<1>2. /\ convert_from_old.steps[1] = Work("return")
      /\ convert_from_old.steps[2] = Work("return")
      /\ convert_from_old.steps[3] = Open
      /\ convert_from_old.steps[4] = Obtain("X")
      /\ convert_from_old.steps[5] = Work("skip")
      /\ convert_from_old.steps[6] = Write("on")
      /\ convert_from_old.steps[7] = Jump(5)
      /\ convert_from_old.steps[8] = Release("X")
      /\ convert_from_old.steps[9] = Close
  BY DEF convert_from_old, Program
<1>3. ASSUME NEW i \in 1 .. 9 PROVE Sound("convert_from_old", i)
  BY <1>1, <1>2, Fields
<1> HIDE DEF Sound
<1> QED
  BY <1>1, <1>3 DEF Placed

\* pkg check -r and -B.
LEMMA Placed_check == Placed("check")
<1>1. /\ Commands["check"] = check
      /\ Len(check.steps) = 11 /\ check.cleanup = 10
  BY DEF Commands, check, Recompute, Framed, Program
<1>2. /\ check.steps[1] = Work("return") /\ check.steps[2] = Open
      /\ check.steps[3] = Obtain("A") /\ check.steps[4] = Read("cleanup")
      /\ check.steps[5] = Work("on")
      /\ check.steps[6] = OrGoto(Convert("AX", "on"), 9)
      /\ check.steps[7] = Write("on") /\ check.steps[8] = Convert("XA", "on")
      /\ check.steps[9] = Jump(5) /\ check.steps[10] = Release("A")
      /\ check.steps[11] = Close
  BY DEF check, Recompute, Framed, Program
<1>3. ASSUME NEW i \in 1 .. 11 PROVE Sound("check", i)
  BY <1>1, <1>2, Fields
<1> HIDE DEF Sound
<1> QED
  BY <1>1, <1>3 DEF Placed

\* pkg check -d.
LEMMA Placed_check_d == Placed("check_d")
<1>1. /\ Commands["check_d"] = check_d
      /\ Len(check_d.steps) = 16 /\ check_d.cleanup = 15
  BY DEF Commands, check_d, Program
<1>2. /\ check_d.steps[1] = Work("return") /\ check_d.steps[2] = Open
      /\ check_d.steps[3] = Obtain("A") /\ check_d.steps[4] = Read("cleanup")
      /\ check_d.steps[5] = Jump(14)
      /\ check_d.steps[6] = Convert("AX", "cleanup")
      /\ check_d.steps[8] = OrGoto(Read("on"), 13)
      /\ check_d.steps[9] = OrGoto(Work("on"), 13)
      /\ check_d.steps[10] = OrGoto(Convert("AX", "on"), 13)
      /\ check_d.steps[11] = Write("on") /\ check_d.steps[12] = Release("X")
      /\ check_d.steps[13] = Convert("XA", "on")
      /\ check_d.steps[14] = Jump(4) /\ check_d.steps[15] = Release("A")
      /\ check_d.steps[16] = Close
  BY DEF check_d, Program
<1>3. Is(check_d.steps[7], "open", "none", "drop", 13)
  <2>1. check_d.steps[7] = [Open EXCEPT !.fail = "drop", !.to = 13]
    BY DEF check_d, Program
  <2> QED
    BY <2>1 DEF Open, Step
<1>4. ASSUME NEW i \in 1 .. 16 PROVE Sound("check_d", i)
  BY <1>1, <1>2, <1>3, Fields
<1> HIDE DEF Sound
<1> QED
  BY <1>1, <1>4 DEF Placed

\* pkg audit.
LEMMA Placed_audit == Placed("audit")
<1>1. /\ Commands["audit"] = audit
      /\ Len(audit.steps) = 8 /\ audit.cleanup = 9
  BY DEF Commands, audit, Program
<1>2. /\ audit.steps[1] = Work("return") /\ audit.steps[2] = Work("return")
      /\ audit.steps[3] = Open /\ audit.steps[4] = Obtain("R")
      /\ audit.steps[5] = Read("on") /\ audit.steps[6] = Release("R")
      /\ audit.steps[7] = Close /\ audit.steps[8] = Work("return")
  BY DEF audit, Program
<1>3. ASSUME NEW i \in 1 .. 8 PROVE Sound("audit", i)
  BY <1>1, <1>2, Fields
<1> HIDE DEF Sound
<1> QED
  BY <1>1, <1>3 DEF Placed

\* pkg autoremove -n.
LEMMA Placed_autoremove_n == Placed("autoremove_n")
<1>1. /\ Commands["autoremove_n"] = autoremove_n
      /\ Len(autoremove_n.steps) = 7 /\ autoremove_n.cleanup = 6
  BY DEF Commands, autoremove_n, Framed, Program
<1>2. /\ autoremove_n.steps[1] = Work("return")
      /\ autoremove_n.steps[2] = Open /\ autoremove_n.steps[3] = Obtain("R")
      /\ autoremove_n.steps[4] = Read("close")
      /\ autoremove_n.steps[5] = Read("cleanup")
      /\ autoremove_n.steps[6] = Release("R") /\ autoremove_n.steps[7] = Close
  BY DEF autoremove_n, Framed, Program
<1>3. ASSUME NEW i \in 1 .. 7 PROVE Sound("autoremove_n", i)
  BY <1>1, <1>2, Fields
<1> HIDE DEF Sound
<1> QED
  BY <1>1, <1>3 DEF Placed

\* pkg clean.
LEMMA Placed_clean == Placed("clean")
<1>1. /\ Commands["clean"] = clean
      /\ Len(clean.steps) = 10 /\ clean.cleanup = 9
  BY DEF Commands, clean, Framed, Program
<1>2. /\ clean.steps[1] = Work("return") /\ clean.steps[2] = Open
      /\ clean.steps[3] = Obtain("R") /\ clean.steps[4] = Work("cleanup")
      /\ clean.steps[5] = Read("on") /\ clean.steps[6] = Jump(5)
      /\ clean.steps[7] = Work("skip") /\ clean.steps[8] = Work("on")
      /\ clean.steps[9] = Release("R") /\ clean.steps[10] = Close
  BY DEF clean, Framed, Program
<1>3. ASSUME NEW i \in 1 .. 10 PROVE Sound("clean", i)
  BY <1>1, <1>2, Fields
<1> HIDE DEF Sound
<1> QED
  BY <1>1, <1>3 DEF Placed

\* pkg2ng -n.
LEMMA Placed_convert_from_old_n == Placed("convert_from_old_n")
<1>1. /\ Commands["convert_from_old_n"] = convert_from_old_n
      /\ Len(convert_from_old_n.steps) = 7 /\ convert_from_old_n.cleanup = 6
  BY DEF Commands, convert_from_old_n, Program
<1>2. /\ convert_from_old_n.steps[1] = Work("return")
      /\ convert_from_old_n.steps[2] = Work("return")
      /\ convert_from_old_n.steps[3] = Open
      /\ convert_from_old_n.steps[4] = Obtain("R")
      /\ convert_from_old_n.steps[5] = Work("on")
      /\ convert_from_old_n.steps[6] = Release("R")
      /\ convert_from_old_n.steps[7] = Close
  BY DEF convert_from_old_n, Program
<1>3. ASSUME NEW i \in 1 .. 7 PROVE Sound("convert_from_old_n", i)
  BY <1>1, <1>2, Fields
<1> HIDE DEF Sound
<1> QED
  BY <1>1, <1>3 DEF Placed

\* pkg2ng -r.
LEMMA Placed_convert_to_old == Placed("convert_to_old")
<1>1. /\ Commands["convert_to_old"] = convert_to_old
      /\ Len(convert_to_old.steps) = 8 /\ convert_to_old.cleanup = 7
  BY DEF Commands, convert_to_old, Framed, Program
<1>2. /\ convert_to_old.steps[1] = Work("return")
      /\ convert_to_old.steps[2] = Open
      /\ convert_to_old.steps[3] = Obtain("R")
      /\ convert_to_old.steps[4] = Read("cleanup")
      /\ convert_to_old.steps[5] = Work("on")
      /\ convert_to_old.steps[6] = Jump(5)
      /\ convert_to_old.steps[7] = Release("R")
      /\ convert_to_old.steps[8] = Close
  BY DEF convert_to_old, Framed, Program
<1>3. ASSUME NEW i \in 1 .. 8 PROVE Sound("convert_to_old", i)
  BY <1>1, <1>2, Fields
<1> HIDE DEF Sound
<1> QED
  BY <1>1, <1>3 DEF Placed

\* pkg create.
LEMMA Placed_create == Placed("create")
<1>1. /\ Commands["create"] = create
      /\ Len(create.steps) = 7 /\ create.cleanup = 6
  BY DEF Commands, create, Program
<1>2. /\ Is(create.steps[1], "open", "none", "close", 0)
      /\ create.steps[2] = Obtain("R") /\ create.steps[3] = Read("cleanup")
      /\ create.steps[4] = Work("on") /\ create.steps[5] = Jump(4)
      /\ create.steps[6] = Release("R") /\ create.steps[7] = Close
  BY DEF create, Program, Open, Step
<1>3. ASSUME NEW i \in 1 .. 7 PROVE Sound("create", i)
  BY <1>1, <1>2, Fields
<1> HIDE DEF Sound
<1> QED
  BY <1>1, <1>3 DEF Placed

\* pkg delete -n.
LEMMA Placed_delete_n == Placed("delete_n")
<1>1. /\ Commands["delete_n"] = delete_n
      /\ Len(delete_n.steps) = 8 /\ delete_n.cleanup = 7
  BY DEF Commands, delete_n, Framed, Program
<1>2. /\ delete_n.steps[1] = Work("return") /\ delete_n.steps[2] = Open
      /\ delete_n.steps[3] = Obtain("R") /\ delete_n.steps[4] = Read("close")
      /\ delete_n.steps[5] = Read("cleanup")
      /\ delete_n.steps[6] = Read("cleanup")
      /\ delete_n.steps[7] = Release("R") /\ delete_n.steps[8] = Close
  BY DEF delete_n, Framed, Program
<1>3. ASSUME NEW i \in 1 .. 8 PROVE Sound("delete_n", i)
  BY <1>1, <1>2, Fields
<1> HIDE DEF Sound
<1> QED
  BY <1>1, <1>3 DEF Placed

\* pkg fetch.
LEMMA Placed_fetch == Placed("fetch")
<1>1. /\ Commands["fetch"] = fetch
      /\ Len(fetch.steps) = 10 /\ fetch.cleanup = 9
  BY DEF Commands, fetch, Program
<1>2. /\ fetch.steps[1] = Work("return") /\ fetch.steps[2] = Work("return")
      /\ fetch.steps[3] = Open /\ fetch.steps[4] = Obtain("R")
      /\ fetch.steps[5] = Read("cleanup") /\ fetch.steps[6] = Read("cleanup")
      /\ fetch.steps[7] = Work("cleanup") /\ fetch.steps[8] = Work("cleanup")
      /\ fetch.steps[9] = Release("R") /\ fetch.steps[10] = Close
  BY DEF fetch, Program
<1>3. ASSUME NEW i \in 1 .. 10 PROVE Sound("fetch", i)
  BY <1>1, <1>2, Fields
<1> HIDE DEF Sound
<1> QED
  BY <1>1, <1>3 DEF Placed

\* pkg info.
LEMMA Placed_info == Placed("info")
<1>1. /\ Commands["info"] = info
      /\ Len(info.steps) = 7 /\ info.cleanup = 6
  BY DEF Commands, info, Framed, Program
<1>2. /\ info.steps[1] = Work("return") /\ info.steps[2] = Open
      /\ info.steps[3] = Obtain("R") /\ info.steps[4] = Read("cleanup")
      /\ info.steps[5] = Jump(4) /\ info.steps[6] = Release("R")
      /\ info.steps[7] = Close
  BY DEF info, Framed, Program
<1>3. ASSUME NEW i \in 1 .. 7 PROVE Sound("info", i)
  BY <1>1, <1>2, Fields
<1> HIDE DEF Sound
<1> QED
  BY <1>1, <1>3 DEF Placed

\* pkg install -n.
LEMMA Placed_install_n == Placed("install_n")
<1>1. /\ Commands["install_n"] = install_n
      /\ Len(install_n.steps) = 8 /\ install_n.cleanup = 7
  BY DEF Commands, install_n, UpgradingDry, Program
<1>2. /\ install_n.steps[1] = Work("return")
      /\ install_n.steps[2] = Work("return") /\ install_n.steps[3] = Open
      /\ install_n.steps[4] = Obtain("R")
      /\ install_n.steps[5] = Read("cleanup")
      /\ install_n.steps[6] = Read("cleanup")
      /\ install_n.steps[7] = Release("R") /\ install_n.steps[8] = Close
  BY DEF install_n, UpgradingDry, Program
<1>3. ASSUME NEW i \in 1 .. 8 PROVE Sound("install_n", i)
  BY <1>1, <1>2, Fields
<1> HIDE DEF Sound
<1> QED
  BY <1>1, <1>3 DEF Placed

\* pkg query.
LEMMA Placed_query == Placed("query")
<1>1. /\ Commands["query"] = query
      /\ Len(query.steps) = 7 /\ query.cleanup = 6
  BY DEF Commands, query, Framed, Program
<1>2. /\ query.steps[1] = Work("return") /\ query.steps[2] = Open
      /\ query.steps[3] = Obtain("R") /\ query.steps[4] = Read("cleanup")
      /\ query.steps[5] = Jump(4) /\ query.steps[6] = Release("R")
      /\ query.steps[7] = Close
  BY DEF query, Framed, Program
<1>3. ASSUME NEW i \in 1 .. 7 PROVE Sound("query", i)
  BY <1>1, <1>2, Fields
<1> HIDE DEF Sound
<1> QED
  BY <1>1, <1>3 DEF Placed

\* pkg query -e.
LEMMA Placed_query_e == Placed("query_e")
<1>1. /\ Commands["query_e"] = query_e
      /\ Len(query_e.steps) = 6 /\ query_e.cleanup = 5
  BY DEF Commands, query_e, Framed, Program
<1>2. /\ query_e.steps[1] = Work("return") /\ query_e.steps[2] = Open
      /\ query_e.steps[3] = Obtain("R") /\ query_e.steps[4] = Read("return")
      /\ query_e.steps[5] = Release("R") /\ query_e.steps[6] = Close
  BY DEF query_e, Framed, Program
<1>3. ASSUME NEW i \in 1 .. 6 PROVE Sound("query_e", i)
  BY <1>1, <1>2, Fields
<1> HIDE DEF Sound
<1> QED
  BY <1>1, <1>3 DEF Placed

\* pkg shlib.
LEMMA Placed_shlib == Placed("shlib")
<1>1. /\ Commands["shlib"] = shlib
      /\ Len(shlib.steps) = 5 /\ shlib.cleanup = 4
  BY DEF Commands, shlib, Bare, Program
<1>2. /\ shlib.steps[1] = Open /\ shlib.steps[2] = Obtain("R")
      /\ shlib.steps[3] = Read("on") /\ shlib.steps[4] = Release("R")
      /\ shlib.steps[5] = Close
  BY DEF shlib, Bare, Program
<1>3. ASSUME NEW i \in 1 .. 5 PROVE Sound("shlib", i)
  BY <1>1, <1>2, Fields
<1> HIDE DEF Sound
<1> QED
  BY <1>1, <1>3 DEF Placed

\* pkg stats.
LEMMA Placed_stats == Placed("stats")
<1>1. /\ Commands["stats"] = stats
      /\ Len(stats.steps) = 5 /\ stats.cleanup = 4
  BY DEF Commands, stats, Bare, Program
<1>2. /\ stats.steps[1] = Open /\ stats.steps[2] = Obtain("R")
      /\ stats.steps[3] = Read("on") /\ stats.steps[4] = Release("R")
      /\ stats.steps[5] = Close
  BY DEF stats, Bare, Program
<1>3. ASSUME NEW i \in 1 .. 5 PROVE Sound("stats", i)
  BY <1>1, <1>2, Fields
<1> HIDE DEF Sound
<1> QED
  BY <1>1, <1>3 DEF Placed

\* pkg updating.
LEMMA Placed_updating == Placed("updating")
<1>1. /\ Commands["updating"] = updating
      /\ Len(updating.steps) = 7 /\ updating.cleanup = 6
  BY DEF Commands, updating, Bare, Program
<1>2. /\ updating.steps[1] = Open /\ updating.steps[2] = Obtain("R")
      /\ updating.steps[3] = Work("cleanup")
      /\ updating.steps[4] = Work("return")
      /\ updating.steps[5] = Read("cleanup")
      /\ updating.steps[6] = Release("R") /\ updating.steps[7] = Close
  BY DEF updating, Bare, Program
<1>3. ASSUME NEW i \in 1 .. 7 PROVE Sound("updating", i)
  BY <1>1, <1>2, Fields
<1> HIDE DEF Sound
<1> QED
  BY <1>1, <1>3 DEF Placed

\* pkg upgrade -n.
LEMMA Placed_upgrade_n == Placed("upgrade_n")
<1>1. /\ Commands["upgrade_n"] = upgrade_n
      /\ Len(upgrade_n.steps) = 8 /\ upgrade_n.cleanup = 7
  BY DEF Commands, upgrade_n, UpgradingDry, Program
<1>2. /\ upgrade_n.steps[1] = Work("return")
      /\ upgrade_n.steps[2] = Work("return") /\ upgrade_n.steps[3] = Open
      /\ upgrade_n.steps[4] = Obtain("R")
      /\ upgrade_n.steps[5] = Read("cleanup")
      /\ upgrade_n.steps[6] = Read("cleanup")
      /\ upgrade_n.steps[7] = Release("R") /\ upgrade_n.steps[8] = Close
  BY DEF upgrade_n, UpgradingDry, Program
<1>3. ASSUME NEW i \in 1 .. 8 PROVE Sound("upgrade_n", i)
  BY <1>1, <1>2, Fields
<1> HIDE DEF Sound
<1> QED
  BY <1>1, <1>3 DEF Placed

\* pkg version -I.
LEMMA Placed_version_I == Placed("version_I")
<1>1. /\ Commands["version_I"] = version_I
      /\ Len(version_I.steps) = 7 /\ version_I.cleanup = 6
  BY DEF Commands, version_I, Program
<1>2. /\ version_I.steps[1] = Work("return") /\ version_I.steps[2] = Open
      /\ version_I.steps[3] = Work("on") /\ version_I.steps[4] = Obtain("R")
      /\ version_I.steps[5] = Read("cleanup")
      /\ version_I.steps[6] = Release("R") /\ version_I.steps[7] = Close
  BY DEF version_I, Program
<1>3. ASSUME NEW i \in 1 .. 7 PROVE Sound("version_I", i)
  BY <1>1, <1>2, Fields
<1> HIDE DEF Sound
<1> QED
  BY <1>1, <1>3 DEF Placed

\* pkg version -P.
LEMMA Placed_version_P == Placed("version_P")
<1>1. /\ Commands["version_P"] = version_P
      /\ Len(version_P.steps) = 8 /\ version_P.cleanup = 7
  BY DEF Commands, version_P, Program
<1>2. /\ version_P.steps[1] = Work("return") /\ version_P.steps[2] = Open
      /\ version_P.steps[3] = Obtain("R")
      /\ version_P.steps[4] = Read("cleanup")
      /\ version_P.steps[5] = Work("on") /\ version_P.steps[6] = Jump(5)
      /\ version_P.steps[7] = Release("R") /\ version_P.steps[8] = Close
  BY DEF version_P, Program
<1>3. ASSUME NEW i \in 1 .. 8 PROVE Sound("version_P", i)
  BY <1>1, <1>2, Fields
<1> HIDE DEF Sound
<1> QED
  BY <1>1, <1>3 DEF Placed

\* pkg version -R.
LEMMA Placed_version_R == Placed("version_R")
<1>1. /\ Commands["version_R"] = version_R
      /\ Len(version_R.steps) = 9 /\ version_R.cleanup = 8
  BY DEF Commands, version_R, Program
<1>2. /\ version_R.steps[1] = Work("return")
      /\ version_R.steps[2] = Work("return") /\ version_R.steps[3] = Open
      /\ version_R.steps[4] = Obtain("R")
      /\ version_R.steps[5] = Read("cleanup")
      /\ version_R.steps[6] = Read("cleanup") /\ version_R.steps[7] = Jump(6)
      /\ version_R.steps[8] = Release("R") /\ version_R.steps[9] = Close
  BY DEF version_R, Program
<1>3. ASSUME NEW i \in 1 .. 9 PROVE Sound("version_R", i)
  BY <1>1, <1>2, Fields
<1> HIDE DEF Sound
<1> QED
  BY <1>1, <1>3 DEF Placed

\* pkg which.
LEMMA Placed_which == Placed("which")
<1>1. /\ Commands["which"] = which
      /\ Len(which.steps) = 7 /\ which.cleanup = 6
  BY DEF Commands, which, Bare, Program
<1>2. /\ which.steps[1] = Open /\ which.steps[2] = Obtain("R")
      /\ which.steps[3] = Work("cleanup") /\ which.steps[4] = Read("cleanup")
      /\ which.steps[5] = Jump(3) /\ which.steps[6] = Release("R")
      /\ which.steps[7] = Close
  BY DEF which, Bare, Program
<1>3. ASSUME NEW i \in 1 .. 7 PROVE Sound("which", i)
  BY <1>1, <1>2, Fields
<1> HIDE DEF Sound
<1> QED
  BY <1>1, <1>3 DEF Placed

HIDE DEF Sound, ExclusiveStep, UpgradeStep, OpeningStep, GivingStep, StepOf,
         Is, FailsTo, LockOps, TakesX, NoAccess, XSpan, UpSpan, OSpan, LSpan,
         May, Upgraders, Keepers, Readers, Lawless, Idle

IdleStep == {step \in AnyStep : step.op \notin LockOps}

\* The commands that take no lock call none.
LEMMA IdleBounded ==
    \A c \in Idle \cup Lawless : Bounded(IdleStep, Commands[c])
<1>1. /\ \A f \in Plain : /\ Work(f) \in IdleStep
                          /\ Read(f) \in IdleStep
                          /\ Write(f) \in IdleStep
      /\ Open \in IdleStep /\ Close \in IdleStep
      /\ \A n \in Nat \ {0} : Jump(n) \in IdleStep
  BY StepsMade, JumpMade, Fields DEF IdleStep, LockOps, Is
<1> USE <1>1 DEF Plain, Failures, Program, Bounded
<1>2. /\ Bounded(IdleStep, rquery) /\ Bounded(IdleStep, search)
      /\ Bounded(IdleStep, backup_d) /\ Bounded(IdleStep, backup_r)
      /\ Bounded(IdleStep, shell)
  BY DEF rquery, search, backup_d, backup_r, shell
<1>3. /\ Bounded(IdleStep, register_old) /\ Bounded(IdleStep, create_staged)
      /\ Bounded(IdleStep, info_F) /\ Bounded(IdleStep, query_F)
      /\ Bounded(IdleStep, version_t) /\ Bounded(IdleStep, repo)
  BY DEF register_old, create_staged, info_F, query_F, version_t, repo
<1>4. /\ Bounded(IdleStep, update) /\ Bounded(IdleStep, config)
      /\ Bounded(IdleStep, plugins) /\ Bounded(IdleStep, help)
      /\ Bounded(IdleStep, ssh)
  BY DEF update, config, plugins, help, ssh
<1>5. /\ Commands["rquery"] = rquery /\ Commands["search"] = search
      /\ Commands["backup_d"] = backup_d /\ Commands["backup_r"] = backup_r
      /\ Commands["shell"] = shell /\ Commands["register_old"] = register_old
      /\ Commands["create_staged"] = create_staged
      /\ Commands["info_F"] = info_F /\ Commands["query_F"] = query_F
      /\ Commands["version_t"] = version_t /\ Commands["repo"] = repo
      /\ Commands["update"] = update /\ Commands["config"] = config
      /\ Commands["plugins"] = plugins /\ Commands["help"] = help
      /\ Commands["ssh"] = ssh
  BY DEF Commands
<1> HIDE DEF Bounded
<1> QED
  BY <1>2, <1>3, <1>4, <1>5 DEF Idle, Lawless

\* Their steps.
LEMMA IdlePlaced == \A c \in Idle \cup Lawless : Placed(c)
<1> SUFFICES ASSUME NEW c \in Idle \cup Lawless PROVE Placed(c)
  OBVIOUS
<1>1. c \notin Upgraders \cup {"annotate"}
  BY DEF Idle, Lawless, Upgraders
<1>2. XSpan(c) = {} /\ OSpan(c) = {} /\ LSpan(c) = {}
  BY DEF XSpan, OSpan, LSpan, Idle, Lawless
<1>3. ASSUME NEW i \in 1 .. Len(Commands[c].steps)
      PROVE  /\ StepOf(c, i).op \notin LockOps
             /\ StepOf(c, i).op = "write" => c \in Lawless
  <2>1. StepOf(c, i) \in IdleStep
    BY IdleBounded DEF Bounded, StepOf
  <2>2. c \in Readers => StepOf(c, i) \in ReadStep
    BY ReadersBounded DEF Bounded, StepOf
  <2>3. c \in Readers \/ c \in Lawless
    BY DEF Readers, Idle
  <2> QED
    BY <2>1, <2>2, <2>3 DEF IdleStep, ReadStep
<1>4. ASSUME NEW i \in 1 .. Len(Commands[c].steps) PROVE Sound(c, i)
  BY <1>1, <1>2, <1>3
     DEF Sound, ExclusiveStep, OpeningStep, GivingStep, LockOps, NoAccess
<1> QED
  BY <1>2, <1>4 DEF Placed

\* Every step of every command is where its spans allow it.
LEMMA AllPlaced == \A c \in Names : Placed(c)
BY Kinds, IdlePlaced, Placed_add, Placed_annotate, Placed_autoremove,
   Placed_delete, Placed_install, Placed_upgrade, Placed_lock,
   Placed_unlock, Placed_lock_l, Placed_set, Placed_register,
   Placed_convert_from_old, Placed_check, Placed_check_d, Placed_audit,
   Placed_autoremove_n, Placed_clean, Placed_convert_from_old_n,
   Placed_convert_to_old, Placed_create, Placed_delete_n, Placed_fetch,
   Placed_info, Placed_install_n, Placed_query, Placed_query_e,
   Placed_shlib, Placed_stats, Placed_updating, Placed_upgrade_n,
   Placed_version_I, Placed_version_P, Placed_version_R, Placed_which
   DEF Readers, Writers, Lawless, Idle

---------------------------------------------------------------------------
(* What one step does to the process that runs it.                         *)

\* The step of p is done, fails and goes elsewhere in the program, or fails
\* and makes the command return.
Lands(p) ==
    status'[p] = IF at'[p] > Len(Steps(p)) THEN "returned" ELSE "running"

StepDone(p) ==
    LET s == Now(p) IN
    /\ at'[p] = at[p] + 1 /\ Lands(p)
    /\ s.op \notin {"open", "close"} => handle'[p] = handle[p]
    /\ s.op = "open" => handle'[p] = "open"
    /\ s.op \notin LockOps => held'[p] = held[p] /\ pids' = pids
    /\ s.op = "obtain" =>
          IF s.arg = "R" /\ ~READ_LOCK THEN held'[p] = held[p]
          ELSE held'[p] \in {held[p] \cup {s.arg}, {s.arg}} /\ p \in pids'
    /\ s.op = "convert" =>
          \/ held'[p] = HeldAfter(held[p], s.arg)
          \/ held'[p] = {Fresh(s.arg)} /\ pids' = {p}
    /\ s.op = "release" =>
          \/ held'[p] = held[p] \ {s.arg}
          \/ /\ held'[p] = held[p]
             /\ \/ handle[p] # "open" \/ ~Releasable(s.arg)
                \/ s.arg = "R" /\ ~READ_LOCK
    /\ s.op # "release" /\ p \in pids => p \in pids'
    /\ p \in robbed => p \in robbed'

StepFailed(p) ==
    LET s == Now(p) IN
    /\ FailsTo(cmd[p], at[p], at'[p]) /\ Lands(p)
    /\ s.fail \notin {"closeon", "drop"} => handle'[p] = handle[p]
    /\ handle[p] = "null" => handle'[p] = "null"
    /\ held'[p] = held[p]
    /\ s.op \in {"obtain", "convert"} => ~Grantable(s.arg) /\ LiveOthers(p) # {}
    /\ pids' \subseteq pids /\ (p \in pids => p \in pids')
    /\ robbed' = robbed
    /\ s.op \notin {"release", "close"}

StepReturns(p) ==
    LET s == Now(p) IN
    /\ s.fail \in {"return", "close"} /\ held'[p] = held[p]
    /\ status'[p] = "returned" /\ robbed' = robbed
    /\ s.op \in {"obtain", "convert"} => ~Grantable(s.arg) /\ LiveOthers(p) # {}
    /\ s.op \notin {"release", "close"}

\* A running process runs a step that its program places.
LEMMA RunsSound ==
    ASSUME TypeInv, NEW p \in Proc, status[p] = "running"
    PROVE  /\ Now(p) = StepOf(cmd[p], at[p]) /\ Sound(cmd[p], at[p])
           /\ Len(Steps(p)) \in Nat /\ at[p] \in 1 .. Len(Steps(p))
           /\ \A i \in XSpan(cmd[p]) \cup LSpan(cmd[p]) : i <= Len(Steps(p))
<1>1. cmd[p] \in Names /\ at[p] \in 1 .. Len(Steps(p)) /\ Len(Steps(p)) \in Nat
  BY RunsStep DEF TypeInv
<1>2. Placed(cmd[p])
  BY <1>1, AllPlaced
<1> QED
  BY <1>1, <1>2 DEF Placed, Now, StepOf, Steps

\* Where a process goes.
LEMMA Arrives ==
    ASSUME TypeInv, NEW p \in Proc, NEW j, GoTo(p, j)
    PROVE  at'[p] = j /\ Lands(p)
BY DEF GoTo, Lands, TypeInv

\* Where a step that fails leaves its process, and its handle.
LEMMA FailsWhere ==
    ASSUME TypeInv, NEW p \in Proc, status[p] = "running", Fails(p)
    PROVE  /\ \/ /\ status'[p] = "returned"
                 /\ Now(p).fail \in {"return", "close"}
              \/ /\ FailsTo(cmd[p], at[p], at'[p]) /\ Lands(p)
                 /\ Now(p).fail \notin {"closeon", "drop"} =>
                       handle'[p] = handle[p]
           /\ handle[p] = "null" => handle'[p] = "null"
<1>1. Now(p) = StepOf(cmd[p], at[p])
  BY RunsSound
<1>2. PICK s : s = Now(p)
  OBVIOUS
<1>3. CASE s.fail \in {"return", "close"}
  BY <1>2, <1>3 DEF Fails, Return, Closed, TypeInv
<1>4. CASE s.fail = "cleanup"
  <2>1. GoTo(p, Commands[cmd[p]].cleanup) /\ handle' = handle
    BY <1>2, <1>4 DEF Fails
  <2> QED
    BY <1>1, <1>2, <1>4, <2>1, Arrives DEF FailsTo
<1>5. CASE s.fail \in {"on", "closeon"}
  <2>1. GoTo(p, at[p] + 1)
        /\ (handle' = handle \/ (s.fail = "closeon" /\ Closed(p)))
    BY <1>2, <1>5 DEF Fails, On
  <2>2. handle[p] = "null" => handle'[p] = "null"
    BY <2>1 DEF Closed, TypeInv
  <2> QED
    BY <1>1, <1>2, <1>5, <2>1, <2>2, Arrives DEF FailsTo
<1>6. CASE s.fail = "skip"
  <2>1. GoTo(p, at[p] + 2) /\ handle' = handle
    BY <1>2, <1>6 DEF Fails
  <2> QED
    BY <1>1, <1>2, <1>6, <2>1, Arrives DEF FailsTo
<1>7. CASE s.fail \in {"goto", "drop"}
  <2>1. GoTo(p, s.to)
        /\ \/ handle' = handle
           \/ s.fail = "drop" /\ handle' = [handle EXCEPT ![p] = "null"]
    BY <1>2, <1>7 DEF Fails
  <2>2. handle[p] = "null" => handle'[p] = "null"
    BY <2>1 DEF TypeInv
  <2> QED
    BY <1>1, <1>2, <1>7, <2>1, <2>2, Arrives DEF FailsTo
<1> QED
  BY <1>2, <1>3, <1>4, <1>5, <1>6, <1>7, RunsStep, StepFields DEF Failures

\* Every step of p is done, fails, returns, or ends p.
LEMMA OwnStep ==
    ASSUME TypeInv, NEW p \in Proc, Running(p)
    PROVE  \/ /\ status[p] = "running" /\ cmd' = cmd
              /\ StepDone(p) \/ StepFailed(p) \/ StepReturns(p)
           \/ Leaves(p) /\ (Abort(p) \/ Exit(p))
<1>1. CASE Act(p) \/ OpenDb(p) \/ CloseDb(p)
  <2>1. /\ status[p] = "running" /\ cmd' = cmd /\ held' = held /\ pids' = pids
        /\ robbed' = robbed /\ Now(p).op \notin LockOps
    BY <1>1 DEF Act, OpenDb, CloseDb, Doing, LockOps
  <2>2. \/ /\ On(p)
           /\ Now(p).op \notin {"open", "close"} => handle' = handle
           /\ Now(p).op = "open" => handle' = [handle EXCEPT ![p] = "open"]
        \/ Fails(p) /\ Now(p).op \notin {"release", "close"}
    BY <1>1 DEF Act, OpenDb, CloseDb, Doing
  <2>3. CASE Fails(p) /\ Now(p).op \notin {"release", "close"}
    <3>1. /\ held'[p] = held[p] /\ robbed' = robbed
          /\ pids' \subseteq pids /\ (p \in pids => p \in pids')
          /\ Now(p).op \notin {"obtain", "convert", "release", "close"}
      BY <2>1, <2>3 DEF LockOps
    <3> QED
      BY <2>1, <2>3, <3>1, FailsWhere DEF StepFailed, StepReturns
  <2>4. ASSUME On(p),
               Now(p).op \notin {"open", "close"} => handle' = handle,
               Now(p).op = "open" => handle' = [handle EXCEPT ![p] = "open"]
        PROVE  StepDone(p)
    BY <2>1, <2>4, Arrives DEF StepDone, On, LockOps, TypeInv
  <2> QED
    BY <2>1, <2>2, <2>3, <2>4
<1>2. ASSUME NEW r, r = Now(p).arg, status[p] = "running", cmd' = cmd,
             \/ /\ Now(p).op = "obtain" /\ r \in Locks
                /\ ~(r = "R" /\ ~READ_LOCK)
             \/ Now(p).op = "convert" /\ r \in Conversions,
             LockGranted(p, r) \/ LockReset(p, r) \/ LockRefused(p, r)
      PROVE  /\ status[p] = "running" /\ cmd' = cmd
             /\ StepDone(p) \/ StepFailed(p) \/ StepReturns(p)
  <2>1. CASE LockGranted(p, r)
    <3>1. /\ On(p) /\ handle' = handle
          /\ held'[p] = HeldAfter(held[p], r)
          /\ pids' = IF r \in Locks THEN pids \cup {p} ELSE pids
          /\ p \in robbed => p \in robbed'
      BY <2>1 DEF LockGranted, TypeInv
    <3>2. r \in Locks => HeldAfter(held[p], r) = held[p] \cup {r}
      BY DEF HeldAfter, Locks
    <3> QED
      BY <1>2, <3>1, <3>2, Arrives DEF StepDone, On, LockOps
  <2>2. CASE LockReset(p, r)
    <3>1. /\ On(p) /\ handle' = handle /\ pids' = {p}
          /\ held'[p] = {Fresh(r)} /\ (p \in robbed => p \in robbed')
      BY <2>2 DEF LockReset, Fresh, TypeInv
    <3>2. r \in Locks => Fresh(r) = r
      BY DEF Fresh, Locks
    <3> QED
      BY <1>2, <3>1, <3>2, Arrives DEF StepDone, On, LockOps
  <2>3. CASE LockRefused(p, r)
    <3>1. /\ held'[p] = held[p] /\ robbed' = robbed /\ Fails(p)
          /\ pids' \subseteq pids /\ (p \in pids => p \in pids')
          /\ ~Grantable(r) /\ LiveOthers(p) # {}
          /\ Now(p).op \notin {"release", "close"}
      BY <1>2, <2>3 DEF LockRefused
    <3> QED
      BY <1>2, <3>1, FailsWhere DEF StepFailed, StepReturns
  <2> QED
    BY <1>2, <2>1, <2>2, <2>3
<1>3. CASE ObtainLock(p)
  <2>1. status[p] = "running" /\ cmd' = cmd /\ Now(p).op = "obtain"
    BY <1>3 DEF ObtainLock, Doing
  <2>2. Now(p).arg \in Locks
    BY <2>1, RunsStep, StepFields
  <2>3. CASE /\ Now(p).arg = "R" /\ ~READ_LOCK /\ On(p)
             /\ UNCHANGED <<row, pids, handle, held, robbed>>
    BY <2>1, <2>3, Arrives DEF StepDone, On, LockOps
  <2>4. CASE ~(Now(p).arg = "R" /\ ~READ_LOCK)
    <3>1. PICK r : r = Now(p).arg
      OBVIOUS
    <3>2. LockGranted(p, r) \/ LockReset(p, r) \/ LockRefused(p, r)
      BY <1>3, <2>4, <3>1 DEF ObtainLock
    <3> QED
      BY <1>2, <2>1, <2>2, <2>4, <3>1, <3>2
  <2> QED
    BY <1>3, <2>3, <2>4 DEF ObtainLock
<1>4. CASE ConvertLock(p)
  <2>1. status[p] = "running" /\ cmd' = cmd /\ Now(p).op = "convert"
    BY <1>4 DEF ConvertLock, Doing
  <2>2. Now(p).arg \in Conversions
    BY <2>1, RunsStep, StepFields
  <2>3. PICK r : r = Now(p).arg
    OBVIOUS
  <2> QED
    BY <1>2, <1>4, <2>1, <2>2, <2>3 DEF ConvertLock
<1>5. CASE ReleaseLock(p)
  <2>1. /\ status[p] = "running" /\ Now(p).op = "release" /\ On(p)
        /\ cmd' = cmd /\ handle' = handle /\ (p \in robbed => p \in robbed')
        /\ \/ /\ held' = held
              /\ \/ handle[p] # "open" \/ ~Releasable(Now(p).arg)
                 \/ Now(p).arg = "R" /\ ~READ_LOCK
           \/ held'[p] = held[p] \ {Now(p).arg}
    BY <1>5, ReleaseUnlocks DEF Unlocks, TypeInv
  <2> QED
    BY <2>1, Arrives DEF StepDone, On, LockOps
<1>6. CASE Abort(p) \/ Exit(p)
  BY <1>6 DEF Abort, Exit
<1> QED
  BY <1>1, <1>3, <1>4, <1>5, <1>6 DEF Running

\* A step of p leaves the others where they are; the pid of a live process
\* stays in the table, since no reset happens beside it.
LEMMA OthersStay ==
    ASSUME TypeInv, NEW p \in Proc,
           (\E c \in Names : Start(p, c)) \/ Running(p), NEW q \in Proc \ {p}
    PROVE  /\ status'[q] = status[q] /\ cmd'[q] = cmd[q] /\ at'[q] = at[q]
           /\ handle'[q] = handle[q] /\ held'[q] = held[q]
           /\ q \in pids /\ q \in Alive => q \in pids'
           /\ q \in robbed => q \in robbed'
<1> USE DEF TypeInv
<1>1. ASSUME On(p) \/ Fails(p)
      PROVE  status'[q] = status[q] /\ at'[q] = at[q]
  BY <1>1 DEF On, Fails, GoTo, Return
<1>2. ASSUME Fails(p) PROVE handle'[q] = handle[q]
  BY <1>2, FailureHandles
<1>3. CASE \E c \in Names : Start(p, c)
  BY <1>3 DEF Start
<1>4. CASE Act(p) \/ OpenDb(p) \/ CloseDb(p)
  BY <1>1, <1>2, <1>4 DEF Act, OpenDb, CloseDb, Closed
<1>5. ASSUME NEW r, LockGranted(p, r) \/ LockReset(p, r) \/ LockRefused(p, r),
             cmd' = cmd
      PROVE  /\ status'[q] = status[q] /\ cmd'[q] = cmd[q] /\ at'[q] = at[q]
             /\ handle'[q] = handle[q] /\ held'[q] = held[q]
             /\ q \in pids /\ q \in Alive => q \in pids'
             /\ q \in robbed => q \in robbed'
  <2>1. LockReset(p, r) => ~(q \in pids /\ q \in Alive)
    BY DEF LockReset, LiveOthers
  <2> QED
    BY <1>1, <1>2, <1>5, <2>1 DEF LockGranted, LockReset, LockRefused
<1>6. CASE ObtainLock(p) \/ ConvertLock(p)
  BY <1>1, <1>5, <1>6 DEF ObtainLock, ConvertLock
<1>7. CASE ReleaseLock(p)
  BY <1>1, <1>7, ReleaseUnlocks DEF Unlocks
<1>8. CASE Abort(p) \/ Exit(p)
  BY <1>8 DEF Abort, Exit, Leaves
<1> QED
  BY <1>3, <1>4, <1>6, <1>7, <1>8 DEF Running

---------------------------------------------------------------------------
(* Writing under the lock.                                                 *)

\* A process inside of a span of the exclusive lock holds that lock; where a
\* lock is taken the database is open; and a process that means to upgrade
\* its lock has its pid in the table.
WithLock(p) ==
    (status[p] = "running" /\ at[p] \in XSpan(cmd[p])) =>
        "X" \in held[p] \/ (NoAccess(cmd[p], at[p]) /\ handle[p] = "null")
Unopened(p) ==
    (status[p] = "running" /\ at[p] = 1 /\ cmd[p] = "annotate") =>
        handle[p] = "null"
Opened(p) ==
    (status[p] = "running" /\ at[p] \in OSpan(cmd[p])) => handle[p] = "open"
Upgrades(p) ==
    (status[p] = "running" /\ at[p] \in UpSpan(cmd[p])) =>
        handle[p] = "open" /\ p \in pids

ControlInv ==
    \A p \in Proc : WithLock(p) /\ Unopened(p) /\ Opened(p) /\ Upgrades(p)

\* A lock is held after the call that brings it, whatever was held before.
LEMMA Brings ==
    ASSUME NEW h, NEW r \in Locks \cup Conversions
    PROVE  /\ r \in {"X", "AX"} => "X" \in HeldAfter(h, r) /\ Fresh(r) = "X"
           /\ r \in {"A", "XA"} => "A" \in HeldAfter(h, r) /\ Fresh(r) = "A"
           /\ r = "XA" => "X" \notin HeldAfter(h, r)
BY DEF HeldAfter, Fresh, Locks, Conversions

\* The process that runs a step.
LEMMA OwnControl ==
    ASSUME TypeInv, NEW p \in Proc, Running(p),
           WithLock(p), Unopened(p), Opened(p), Upgrades(p)
    PROVE  WithLock(p)' /\ Unopened(p)' /\ Opened(p)' /\ Upgrades(p)'
<1>1. SUFFICES ASSUME status'[p] = "running"
               PROVE  WithLock(p)' /\ Unopened(p)' /\ Opened(p)' /\ Upgrades(p)'
  BY DEF WithLock, Unopened, Opened, Upgrades
<1>2. /\ status[p] = "running" /\ cmd'[p] = cmd[p]
      /\ StepDone(p) \/ StepFailed(p)
  BY <1>1, OwnStep DEF Leaves, StepReturns, TypeInv
<1>3. /\ Now(p) = StepOf(cmd[p], at[p]) /\ at[p] \in Nat \ {0}
      /\ ExclusiveStep(cmd[p], at[p]) /\ OpeningStep(cmd[p], at[p])
      /\ cmd[p] \in Upgraders => UpgradeStep(cmd[p], at[p])
  BY <1>2, RunsSound DEF Sound, TypeInv
<1>4. /\ Now(p).op = "obtain" => Now(p).arg \in Locks
      /\ Now(p).op = "convert" => Now(p).arg \in Conversions
  BY <1>2, RunsStep, StepFields
<1>5. cmd[p] \notin Upgraders => UpSpan(cmd[p]) = {}
  BY DEF UpSpan, Upgraders
<1>6. WithLock(p)'
  <2>1. CASE StepDone(p)
    <3>1. ASSUME at[p] + 1 \in XSpan(cmd[p]), TakesX(Now(p))
          PROVE  "X" \in held'[p]
      BY <1>4, <2>1, <3>1, Brings
         DEF StepDone, TakesX, LockOps, Locks, Conversions
    <3>2. ASSUME at[p] + 1 \in XSpan(cmd[p]), at[p] \in XSpan(cmd[p]),
                 Now(p).op \notin LockOps
          PROVE  "X" \in held'[p]
      BY <1>2, <1>3, <2>1, <3>2 DEF StepDone, WithLock, ExclusiveStep, LockOps
    <3> QED
      BY <1>2, <1>3, <2>1, <3>1, <3>2 DEF WithLock, StepDone, ExclusiveStep
  <2>2. CASE StepFailed(p)
    <3>1. PICK j : j = at'[p]
      OBVIOUS
    <3>2. SUFFICES ASSUME j \in XSpan(cmd[p])
                   PROVE  \/ "X" \in held'[p]
                          \/ NoAccess(cmd[p], j) /\ handle'[p] = "null"
      BY <1>2, <3>1 DEF WithLock
    <3>3. FailsTo(cmd[p], at[p], j)
      BY <2>2, <3>1 DEF StepFailed
    <3>4. CASE at[p] \in XSpan(cmd[p])
      BY <1>2, <1>3, <2>2, <3>4 DEF WithLock, StepFailed, ExclusiveStep
    <3>5. CASE NoAccess(cmd[p], j) /\ at[p] = 1
      BY <1>2, <2>2, <3>5 DEF NoAccess, Unopened, StepFailed
    <3> QED
      BY <1>3, <3>2, <3>3, <3>4, <3>5 DEF ExclusiveStep
  <2> QED
    BY <1>2, <2>1, <2>2
<1>7. Unopened(p)'
  <2>1. cmd[p] = "annotate" => at'[p] # 1
    BY <1>2, <1>3 DEF StepDone, StepFailed, ExclusiveStep
  <2> QED
    BY <1>2, <2>1 DEF Unopened
<1>8. Opened(p)'
  <2>1. CASE StepDone(p)
    BY <1>2, <1>3, <2>1 DEF StepDone, Opened, OpeningStep
  <2>2. CASE StepFailed(p)
    <3>1. PICK j : j = at'[p]
      OBVIOUS
    <3>2. FailsTo(cmd[p], at[p], j)
      BY <2>2, <3>1 DEF StepFailed
    <3> QED
      BY <1>2, <1>3, <2>2, <3>1, <3>2 DEF StepFailed, Opened, OpeningStep
  <2> QED
    BY <1>2, <2>1, <2>2
<1>9. Upgrades(p)'
  <2>1. SUFFICES ASSUME cmd[p] \in Upgraders, at'[p] \in UpSpan(cmd[p])
                 PROVE  handle'[p] = "open" /\ p \in pids'
    BY <1>2, <1>5 DEF Upgrades
  <2>2. UpgradeStep(cmd[p], at[p])
    BY <1>3, <2>1
  <2>3. CASE StepDone(p)
    <3>1. at'[p] = at[p] + 1
      BY <2>3 DEF StepDone
    <3>2. CASE Now(p).op = "obtain" /\ Now(p).arg = "A"
      BY <1>2, <1>3, <2>3, <3>2 DEF StepDone, Opened, OpeningStep
    <3>3. CASE /\ at[p] \in UpSpan(cmd[p])
               /\ Now(p).op \notin {"obtain", "release", "open", "close"}
      BY <1>2, <2>3, <3>3 DEF StepDone, Upgrades
    <3> QED
      BY <1>3, <2>1, <2>2, <3>1, <3>2, <3>3 DEF UpgradeStep
  <2>4. CASE StepFailed(p)
    <3>1. PICK j : j = at'[p]
      OBVIOUS
    <3>2. FailsTo(cmd[p], at[p], j)
      BY <2>4, <3>1 DEF StepFailed
    <3> QED
      BY <1>2, <1>3, <2>1, <2>2, <2>4, <3>1, <3>2
         DEF StepFailed, Upgrades, UpgradeStep
  <2> QED
    BY <1>2, <2>3, <2>4
<1> QED
  BY <1>6, <1>7, <1>8, <1>9

\* No step of any process leads out of these.
LEMMA NextControl == TypeInv /\ ControlInv /\ [Next]_vars => ControlInv'
<1> SUFFICES ASSUME TypeInv, ControlInv, [Next]_vars PROVE ControlInv'
  OBVIOUS
<1> USE DEF WithLock, Unopened, Opened, Upgrades
<1>1. CASE UNCHANGED vars
  BY <1>1 DEF vars, ControlInv
<1>2. ASSUME NEW p \in Proc, NEW c \in Names, Start(p, c) PROVE ControlInv'
  <2>1. /\ at'[p] = 1 /\ handle'[p] = "null" /\ cmd'[p] = c
    BY <1>2 DEF Start, TypeInv
  <2>2. 1 \notin XSpan(c) /\ 1 \notin OSpan(c) /\ 1 \notin UpSpan(c)
    BY DEF XSpan, OSpan, UpSpan
  <2>3. \A q \in Proc \ {p} : /\ status'[q] = status[q] /\ cmd'[q] = cmd[q]
                              /\ at'[q] = at[q] /\ handle'[q] = handle[q]
                              /\ held'[q] = held[q] /\ pids' = pids
    BY <1>2 DEF Start, TypeInv
  <2> QED
    BY <2>1, <2>2, <2>3 DEF ControlInv
<1>3. ASSUME NEW p \in Proc, Running(p) PROVE ControlInv'
  <2>1. WithLock(p)' /\ Unopened(p)' /\ Opened(p)' /\ Upgrades(p)'
    BY <1>3, OwnControl DEF ControlInv
  <2>2. ASSUME NEW q \in Proc \ {p}
        PROVE  WithLock(q)' /\ Unopened(q)' /\ Opened(q)' /\ Upgrades(q)'
    BY <1>3, OthersStay DEF ControlInv, Alive
  <2> HIDE DEF WithLock, Unopened, Opened, Upgrades
  <2> QED
    BY <2>1, <2>2 DEF ControlInv
<1> QED
  BY <1>1, <1>2, <1>3 DEF Next

\* Nobody has started anything at first.
LEMMA InitControl == Init => ControlInv
BY DEF Init, ControlInv, WithLock, Unopened, Opened, Upgrades

\* Every write of the package database finds its process with the exclusive
\* lock.
LEMMA ControlWrites == TypeInv /\ ControlInv => WriteUnderLock
<1> SUFFICES ASSUME TypeInv, ControlInv, NEW p \in Proc,
                    Doing(p, "write"), Now(p).arg = "X",
                    cmd[p] \notin {"backup_r", "shell"}
             PROVE  "X" \in held[p]
  BY DEF WriteUnderLock
<1>1. status[p] = "running" /\ Now(p).op = "write"
  BY DEF Doing
<1>2. Now(p) = StepOf(cmd[p], at[p]) /\ ExclusiveStep(cmd[p], at[p])
  BY <1>1, RunsSound DEF Sound
<1> QED
  BY <1>1, <1>2 DEF ControlInv, WithLock, ExclusiveStep, Lawless

\* However often a command converted its lock, lost it to a reset, jumped
\* back or skipped a step before: when it writes the package database it
\* holds the exclusive lock.
THEOREM WritesUnderLock == Spec => []WriteUnderLock
BY InitType, NextType, InitControl, NextControl, ControlWrites, PTL DEF Spec

---------------------------------------------------------------------------
(* The exclusive lock stays.  As long as nobody runs check -d, a process   *)
(* that holds it is alone with it, has its pid in the table, and goes on   *)
(* to give it back itself.                                                 *)

NoRepair == \A p \in Proc : cmd[p] # "check_d"

\* An advisory lock beside the exclusive one is the one that was upgraded.
Upgraded(p) ==
    status[p] = "running" /\ cmd[p] \in Upgraders /\ at[p] \in XSpan(cmd[p])

Kept(p) ==
    "X" \in held[p] =>
        /\ row.exclusive = 1 /\ row.read = 0
        /\ p \in pids /\ p \in Alive
        /\ \A q \in Proc \ {p} : "X" \notin held[q]
        /\ row.advisory = 1 => Upgraded(p)

KeepInv == NoRepair => \A p \in Proc : Kept(p)

\* What the row becomes, field by field.
LEMMA GrantedRow ==
    ASSUME NEW w \in Rows, NEW r \in Locks \cup Conversions
    PROVE  /\ r \in {"X", "AX"} => Granted(w, r).exclusive = 1
           /\ r \in {"X", "AX"} => Granted(w, r).read = w.read
           /\ r = "X" => Granted(w, r).advisory = w.advisory
<1>1. CASE r = "X"
  BY <1>1 DEF Granted, Rows
<1>2. CASE r = "AX"
  BY <1>2 DEF Granted, Rows
<1> QED
  BY <1>1, <1>2

\* What lock_sql demands of the row.
LEMMA Demands ==
    ASSUME TypeInv
    PROVE  /\ \A r \in Locks \cup {"AX"} : Grantable(r) => row.exclusive = 0
           /\ \A r \in {"X", "AX"} : Grantable(r) => row.read = 0
           /\ Grantable("X") => row.advisory = 0
           /\ (row.exclusive = 1 /\ row.advisory = 1 /\ row.read = 0) =>
                 Grantable("XA")
<1>1. /\ Grantable("R") => row.exclusive = 0
      /\ Grantable("A") => row.exclusive = 0
  BY DEF Grantable
<1>2. Grantable("X") =>
         row.exclusive = 0 /\ row.read = 0 /\ row.advisory = 0
  BY DEF Grantable, Unlocked
<1>3. Grantable("AX") => row.exclusive = 0 /\ row.read = 0
  BY DEF Grantable, Unlocked
<1>4. (row.exclusive = 1 /\ row.advisory = 1 /\ row.read = 0) =>
         Grantable("XA")
  BY DEF Grantable, TypeInv
<1> QED
  BY <1>1, <1>2, <1>3, <1>4 DEF Locks

\* A grant.
LEMMA GrantKeeps ==
    ASSUME TypeInv, ControlInv, NoRepair, \A q \in Proc : Kept(q),
           NEW p \in Proc, NEW r \in Locks \cup Conversions,
           status[p] = "running", cmd' = cmd, r = Now(p).arg,
           r \in Conversions <=> Now(p).op = "convert", LockGranted(p, r),
           NEW q \in Proc, "X" \in held'[q]
    PROVE  Kept(q)'
<1>1. /\ held'[p] = HeldAfter(held[p], r)
      /\ \A z \in Proc \ {p} : held'[z] = held[z]
      /\ Grantable(r) /\ row' = Granted(row, r) /\ On(p)
      /\ p \in pids => p \in pids'
      /\ r = "X" => p \in pids'
  <2>1. /\ Grantable(r) /\ row' = Granted(row, r) /\ On(p)
        /\ pids' = IF r \in Locks THEN pids \cup {p} ELSE pids
    BY DEF LockGranted
  <2>2. \A z \in Proc :
            held'[z] = IF z = p THEN HeldAfter(held[p], r) ELSE held[z]
    BY GrantHeld
  <2> QED
    BY <2>1, <2>2 DEF Locks
<1>2. /\ Now(p) = StepOf(cmd[p], at[p]) /\ ExclusiveStep(cmd[p], at[p])
      /\ cmd[p] \in Upgraders => UpgradeStep(cmd[p], at[p])
      /\ \A i \in XSpan(cmd[p]) : i <= Len(Steps(p))
  BY RunsSound DEF Sound
<1>3. CASE r \in {"R", "A"}
  <2>1. row.exclusive = 0
    BY <1>1, <1>3, Demands DEF Locks
  <2>2. "X" \in held[q]
    BY <1>1, <1>3 DEF HeldAfter, Locks
  <2> QED
    BY <2>1, <2>2 DEF Kept
<1>4. CASE r = "XA"
  <2>1. Now(p).op = "convert" /\ cmd[p] # "check_d"
    BY <1>4 DEF Conversions, NoRepair
  <2>2. at[p] \in XSpan(cmd[p]) /\ cmd[p] \in Upgraders
    BY <1>2, <1>4, <2>1 DEF ExclusiveStep
  <2>3. "X" \in held[p]
    BY <2>2 DEF ControlInv, WithLock, NoAccess, Upgraders
  <2>4. "X" \notin held'[p] /\ q # p
    BY <1>1, <1>4, Brings
  <2> QED
    BY <1>1, <2>3, <2>4 DEF Kept
<1>5. CASE r \in {"X", "AX"}
  <2>1. row.exclusive = 0 /\ row.read = 0
    BY <1>1, <1>5, Demands DEF Locks
  <2>2. \A z \in Proc : "X" \notin held[z]
    BY <2>1 DEF Kept
  <2>3. q = p /\ \A z \in Proc \ {p} : "X" \notin held'[z]
    BY <1>1, <2>2
  <2>4. row'.exclusive = 1 /\ row'.read = 0
    BY <1>1, <1>5, <2>1, GrantedRow DEF TypeInv, Rows
  <2>5. p \in Alive'
    BY <1>1 DEF On, GoTo, Alive, TypeInv
  <2>6. CASE r = "X"
    <3>1. row'.advisory = 0
      BY <1>1, <2>6, Demands, GrantedRow DEF TypeInv, Rows
    <3> QED
      BY <1>1, <2>3, <2>4, <2>5, <2>6, <3>1 DEF Kept
  <2>7. CASE r = "AX"
    <3>1. Now(p).op = "convert" /\ cmd[p] # "check_d"
      BY <2>7 DEF Conversions, NoRepair
    <3>2. cmd[p] \in Upgraders
      BY <1>2, <3>1 DEF ExclusiveStep
    <3>3. at[p] \in UpSpan(cmd[p]) /\ at[p] + 1 \in XSpan(cmd[p])
      BY <1>2, <2>7, <3>1, <3>2 DEF UpgradeStep
    <3>4. p \in pids'
      BY <1>1, <3>3 DEF ControlInv, Upgrades
    <3>5. at[p] + 1 <= Len(Steps(p)) /\ at[p] \in Nat /\ Len(Steps(p)) \in Nat
      BY <1>2, <3>3, RunsSound
    <3>6. at'[p] = at[p] + 1 /\ status'[p] = "running" /\ cmd'[p] = cmd[p]
      BY <1>1, <3>5, Arrives DEF On, Lands
    <3>7. Upgraded(p)'
      BY <3>2, <3>3, <3>6 DEF Upgraded
    <3> QED
      BY <2>3, <2>4, <2>5, <3>4, <3>7 DEF Kept
  <2> QED
    BY <1>5, <2>6, <2>7
<1> QED
  BY <1>3, <1>4, <1>5 DEF Locks, Conversions

\* A reset.
LEMMA ResetKeeps ==
    ASSUME TypeInv, \A q \in Proc : Kept(q),
           NEW p \in Proc, NEW r \in Locks \cup Conversions,
           LockReset(p, r), status[p] = "running",
           NEW q \in Proc, "X" \in held'[q]
    PROVE  Kept(q)'
<1>1. /\ row' = Granted(Unlocked, Fresh(r)) /\ pids' = {p}
      /\ held'[p] = {Fresh(r)}
      /\ \A z \in Proc \ {p} : held'[z] = held[z]
      /\ LiveOthers(p) = {} /\ On(p)
  BY DEF LockReset, Fresh, TypeInv
<1>2. \A z \in Proc \ {p} : "X" \notin held[z]
  BY <1>1 DEF Kept, LiveOthers
<1>3. q = p /\ Fresh(r) = "X"
  BY <1>1, <1>2
<1>4. row'.exclusive = 1 /\ row'.read = 0 /\ row'.advisory = 0
  BY <1>1, <1>3 DEF Granted, Unlocked
<1>5. p \in Alive'
  BY <1>1 DEF On, GoTo, Alive, TypeInv
<1> QED
  BY <1>1, <1>2, <1>3, <1>4, <1>5 DEF Kept

\* The release of a lock.
LEMMA UnlockKeeps ==
    ASSUME TypeInv, ControlInv, NoRepair, \A q \in Proc : Kept(q),
           NEW p \in Proc, status[p] = "running", cmd' = cmd,
           NEW l \in Locks, l = Now(p).arg, Now(p).op = "release", On(p),
           Unlocks(p, l), handle[p] # "null",
           NEW q \in Proc, "X" \in held'[q]
    PROVE  Kept(q)'
<1>1. /\ held'[p] = held[p] \ {l} /\ Releasable(l) /\ row' = Released(l)
      /\ \A z \in Proc \ {p} : held'[z] = held[z] /\ at'[z] = at[z]
                               /\ status'[z] = status[z]
      /\ pids' = pids \ {p} /\ row \in Rows
  BY DEF Unlocks, TypeInv, On, GoTo, Rows
<1>2. /\ Now(p) = StepOf(cmd[p], at[p]) /\ ExclusiveStep(cmd[p], at[p])
      /\ cmd[p] \in Upgraders => UpgradeStep(cmd[p], at[p])
  BY RunsSound DEF Sound
<1>3. "X" \in held[q] /\ Kept(q)
  BY <1>1
<1>4. CASE l = "R"
  BY <1>1, <1>3, <1>4 DEF Releasable, Kept, Rows
<1>5. CASE l = "X"
  <2>1. at[p] \in XSpan(cmd[p])
    BY <1>2, <1>5 DEF ExclusiveStep
  <2>2. "X" \in held[p]
    BY <2>1 DEF ControlInv, WithLock
  <2> QED
    BY <1>1, <1>3, <1>5, <2>2 DEF Kept
<1>6. CASE l = "A"
  <2>1. row.advisory = 1 /\ Upgraded(q)
    BY <1>1, <1>3, <1>6 DEF Releasable, Kept
  <2>2. q # p
    BY <1>2, <1>6, <2>1 DEF Upgraded, UpgradeStep
  <2>3. row'.exclusive = 1 /\ row'.read = 0 /\ row'.advisory = 0
    BY <1>1, <1>3, <1>6 DEF Released, Kept, Rows
  <2>4. q \in pids' /\ q \in Alive'
    BY <1>1, <1>3, <2>2 DEF Kept, Alive
  <2>5. \A z \in Proc \ {q} : "X" \notin held'[z]
    BY <1>1, <1>3 DEF Kept
  <2> QED
    BY <2>3, <2>4, <2>5 DEF Kept
<1> QED
  BY <1>4, <1>5, <1>6 DEF Locks

\* A step that leaves the locks, the row and the pids of the live alone takes
\* an upgraded process through its span.
LEMMA OtherKeeps ==
    ASSUME TypeInv, ControlInv, \A q \in Proc : Kept(q),
           NEW p \in Proc, Running(p), status[p] = "running", cmd' = cmd,
           StepDone(p) \/ StepFailed(p) \/ StepReturns(p),
           row' = row, held' = held, p \in pids => p \in pids',
           NEW q \in Proc, "X" \in held[q]
    PROVE  Kept(q)'
<1>1. \A z \in Proc \ {q} : "X" \notin held'[z]
  BY DEF Kept
<1>2. /\ row.exclusive = 1 /\ row.read = 0 /\ q \in pids /\ q \in Alive
      /\ row.advisory = 1 => Upgraded(q)
  BY DEF Kept
<1>3. CASE q # p
  <2>1. /\ status'[q] = status[q] /\ cmd'[q] = cmd[q] /\ at'[q] = at[q]
        /\ q \in pids' /\ q \in Alive'
    BY <1>2, <1>3, OthersStay DEF Alive
  <2> QED
    BY <1>1, <1>2, <2>1 DEF Kept, Upgraded
<1>4. CASE q = p
  <2>1. /\ status[p] = "running" /\ cmd' = cmd
        /\ StepDone(p) \/ StepFailed(p) \/ StepReturns(p)
    OBVIOUS
  <2>2. p \in Alive'
    BY <2>1 DEF StepDone, StepFailed, StepReturns, Lands, Alive
  <2>3. ASSUME row.advisory = 1 PROVE Upgraded(p)'
    <3>1. Upgraded(p) /\ cmd[p] \in Upgraders /\ at[p] \in XSpan(cmd[p])
      BY <1>2, <1>4, <2>3 DEF Upgraded
    <3>2. /\ Now(p) = StepOf(cmd[p], at[p]) /\ UpgradeStep(cmd[p], at[p])
          /\ \A i \in XSpan(cmd[p]) : i <= Len(Steps(p))
          /\ Len(Steps(p)) \in Nat
      BY <2>1, <3>1, RunsSound DEF Sound
    <3>3. handle[p] = "open"
      BY <2>1, <3>1, <3>2 DEF UpgradeStep, ControlInv, Upgrades
    <3>4. CASE /\ Now(p).op = "write" /\ Now(p).fail = "on"
               /\ at[p] + 1 \in XSpan(cmd[p])
      <4>1. at'[p] = at[p] + 1 /\ Lands(p)
        BY <2>1, <3>2, <3>4 DEF StepDone, StepFailed, StepReturns, FailsTo
      <4>2. at[p] + 1 <= Len(Steps(p)) /\ at[p] \in Nat
        BY <3>2, <3>4 DEF TypeInv
      <4>3. status'[p] = "running"
        BY <3>2, <4>1, <4>2 DEF Lands
      <4> QED
        BY <2>1, <3>1, <3>4, <4>1, <4>3 DEF Upgraded
    <3>5. CASE Now(p).op = "release" /\ Now(p).arg = "X"
      <4>1. StepDone(p)
        BY <2>1, <3>5 DEF StepFailed, StepReturns
      <4>2. Releasable("X")
        BY <1>2 DEF Releasable
      <4> QED
        BY <1>4, <3>3, <3>5, <4>1, <4>2 DEF StepDone
    <3>6. CASE Now(p).op = "convert" /\ Now(p).arg = "XA"
      <4>1. Grantable("XA")
        BY <1>2, <2>3, Demands
      <4>2. StepDone(p)
        BY <2>1, <3>6, <4>1 DEF StepFailed, StepReturns
      <4> QED
        BY <1>4, <3>6, <4>2, Brings DEF StepDone, Conversions
    <3> QED
      BY <3>1, <3>2, <3>4, <3>5, <3>6 DEF UpgradeStep
  <2> QED
    BY <1>1, <1>2, <1>4, <2>2, <2>3 DEF Kept
<1> QED
  BY <1>3, <1>4

\* No step takes the exclusive lock away from its holder.
LEMMA NextKeep ==
    TypeInv /\ ControlInv /\ KeepInv /\ [Next]_vars => KeepInv'
<1> SUFFICES ASSUME TypeInv, ControlInv, KeepInv, [Next]_vars, NoRepair'
             PROVE  \A q \in Proc : Kept(q)'
  BY DEF KeepInv
<1>1. NoRepair
  BY DEF NoRepair, Next, Running, TypeInv, Start, vars, Act, OpenDb, CloseDb,
         ObtainLock, ConvertLock, Abort, ReleaseLock, Exit
<1>2. \A q \in Proc : Kept(q)
  BY <1>1 DEF KeepInv
<1> SUFFICES ASSUME NEW q \in Proc, "X" \in held'[q] PROVE Kept(q)'
  BY DEF Kept
<1>3. CASE UNCHANGED vars
  BY <1>2, <1>3 DEF vars, Kept, Upgraded, Alive
<1>4. ASSUME NEW p \in Proc, NEW c \in Names, Start(p, c) PROVE Kept(q)'
  <2>1. q # p
    BY <1>4 DEF Start, TypeInv
  <2>2. /\ row' = row /\ held' = held /\ pids' = pids
        /\ status'[q] = status[q] /\ cmd'[q] = cmd[q] /\ at'[q] = at[q]
    BY <1>4, <2>1 DEF Start, TypeInv
  <2> QED
    BY <1>2, <2>2 DEF Kept, Upgraded, Alive
<1>5. ASSUME NEW p \in Proc, Leaves(p), row' = row, pids' = pids,
             UNCHANGED <<cmd, at>>
      PROVE  Kept(q)'
  <2>1. q # p /\ \A z \in Proc : "X" \in held'[z] => "X" \in held[z]
    BY <1>5 DEF Leaves, TypeInv
  <2>2. held'[q] = held[q] /\ status'[q] = status[q]
    BY <1>5, <2>1 DEF Leaves, TypeInv
  <2> QED
    BY <1>2, <1>5, <2>1, <2>2 DEF Kept, Upgraded, Alive
<1>6. ASSUME NEW p \in Proc, Running(p), status[p] = "running", cmd' = cmd,
             StepDone(p) \/ StepFailed(p) \/ StepReturns(p),
             row' = row, held' = held, p \in pids => p \in pids'
      PROVE  Kept(q)'
  BY <1>2, <1>6, OtherKeeps
<1>7. ASSUME NEW p \in Proc, NEW r \in Locks \cup Conversions,
             status[p] = "running", cmd' = cmd, r = Now(p).arg,
             r \in Conversions <=> Now(p).op = "convert",
             LockGranted(p, r) \/ LockReset(p, r)
      PROVE  Kept(q)'
  BY <1>1, <1>2, <1>7, GrantKeeps, ResetKeeps
<1>8. ASSUME NEW p \in Proc, Running(p), status[p] = "running", cmd' = cmd,
             StepDone(p) \/ StepFailed(p) \/ StepReturns(p)
      PROVE  Kept(q)'
  <2>1. CASE Act(p) \/ OpenDb(p) \/ CloseDb(p)
    BY <1>6, <1>8, <2>1 DEF Act, OpenDb, CloseDb
  <2>2. CASE ObtainLock(p)
    <3>1. status[p] = "running" /\ cmd' = cmd /\ Now(p).op = "obtain"
      BY <2>2 DEF ObtainLock, Doing
    <3>2. PICK r \in Locks : r = Now(p).arg
      BY <3>1, RunsStep, StepFields
    <3>3. r \notin Conversions
      BY DEF Locks, Conversions
    <3>4. \/ row' = row /\ held' = held /\ pids' = pids
          \/ LockGranted(p, r) \/ LockReset(p, r) \/ LockRefused(p, r)
      BY <2>2, <3>2 DEF ObtainLock
    <3> QED
      BY <1>6, <1>7, <1>8, <3>1, <3>2, <3>3, <3>4 DEF LockRefused
  <2>3. CASE ConvertLock(p)
    <3>1. status[p] = "running" /\ cmd' = cmd /\ Now(p).op = "convert"
      BY <2>3 DEF ConvertLock, Doing
    <3>2. PICK r \in Conversions : r = Now(p).arg
      BY <3>1, RunsStep, StepFields
    <3>3. LockGranted(p, r) \/ LockReset(p, r) \/ LockRefused(p, r)
      BY <2>3, <3>2 DEF ConvertLock
    <3> QED
      BY <1>6, <1>7, <1>8, <3>1, <3>2, <3>3 DEF LockRefused
  <2>4. CASE ReleaseLock(p)
    <3>1. /\ status[p] = "running" /\ Now(p).op = "release" /\ cmd' = cmd
          /\ On(p)
      BY <2>4, ReleaseUnlocks
    <3>2. PICK l \in Locks : l = Now(p).arg
      BY <2>4, ReleaseUnlocks
    <3>3. \/ UNCHANGED <<row, pids, held, robbed>>
          \/ Unlocks(p, l) /\ handle[p] # "null"
      BY <2>4, <3>2, ReleaseUnlocks
    <3> QED
      BY <1>1, <1>2, <1>6, <1>8, <3>1, <3>2, <3>3, UnlockKeeps
  <2>5. CASE Abort(p) \/ Exit(p)
    BY <1>5, <2>5 DEF Abort, Exit
  <2> QED
    BY <1>8, <2>1, <2>2, <2>3, <2>4, <2>5 DEF Running
<1>9. ASSUME NEW p \in Proc, Running(p) PROVE Kept(q)'
  BY <1>5, <1>8, <1>9, OwnStep DEF Abort, Exit
<1> QED
  BY <1>3, <1>4, <1>9 DEF Next

\* Nobody has started anything at first.
LEMMA InitKeep == Init => KeepInv
BY DEF Init, KeepInv, Kept

\* As long as nobody runs check -d, a process that holds the exclusive lock
\* has it in the row: no reset, no release and no downgrade of another
\* process takes it away.
THEOREM ExclusiveStays == Spec => []ExclusiveKept
<1>1. KeepInv => ExclusiveKept
  BY DEF KeepInv, NoRepair, Kept, ExclusiveKept
<1> QED
  BY <1>1, InitType, NextType, InitControl, NextControl, InitKeep, NextKeep,
     PTL DEF Spec

---------------------------------------------------------------------------
(* Giving the lock back.                                                   *)

\* A process nobody robbed holds a lock inside of its span only, with the
\* database open, and no other locks than that step may have.
GiveBack(p) ==
    (cmd[p] \notin Keepers /\ p \notin robbed /\ held[p] # {}) =>
        /\ status[p] = "running" /\ at[p] \in LSpan(cmd[p])
        /\ handle[p] = "open" /\ held[p] \subseteq May(cmd[p], at[p])

\* check that got its exclusive lock from a reset, without an advisory one to
\* go back to, is the only live process in the table.
Alone(p) ==
    (/\ p \notin robbed /\ status[p] = "running" /\ cmd[p] = "check"
     /\ at[p] \in XSpan("check") /\ "A" \notin held[p])
    => pids \cap Alive \subseteq {p}

Optional(p) == ~READ_LOCK => "R" \notin held[p]

GivingInv == \A p \in Proc : GiveBack(p) /\ Alone(p) /\ Optional(p)

\* Beside a live process that holds the exclusive lock nobody enters the
\* table.
LEMMA NoEntry ==
    ASSUME TypeInv, NEW p \in Proc, Running(p), NEW q \in Proc \ {p},
           row.exclusive = 1, q \in pids, q \in Alive
    PROVE  pids' \subseteq pids
<1>1. ASSUME NEW r \in Locks \cup Conversions,
             LockGranted(p, r) \/ LockReset(p, r) \/ LockRefused(p, r)
      PROVE  pids' \subseteq pids
  <2>1. CASE LockGranted(p, r)
    <3>1. r \notin Locks
      BY <2>1, Demands DEF LockGranted
    <3> QED
      BY <2>1, <3>1 DEF LockGranted
  <2>2. CASE LockReset(p, r)
    BY <2>2 DEF LockReset, LiveOthers
  <2>3. CASE LockRefused(p, r)
    BY <2>3 DEF LockRefused
  <2> QED
    BY <1>1, <2>1, <2>2, <2>3
<1>2. CASE ObtainLock(p)
  <2>1. PICK r : r = Now(p).arg
    OBVIOUS
  <2>2. r \in Locks
    BY <1>2, <2>1, RunsStep, StepFields DEF ObtainLock, Doing
  <2>3. \/ LockGranted(p, r) \/ LockReset(p, r) \/ LockRefused(p, r)
        \/ pids' = pids
    BY <1>2, <2>1 DEF ObtainLock
  <2> QED
    BY <1>1, <2>2, <2>3
<1>3. CASE ConvertLock(p)
  <2>1. PICK r : r = Now(p).arg
    OBVIOUS
  <2>2. r \in Conversions
    BY <1>3, <2>1, RunsStep, StepFields DEF ConvertLock, Doing
  <2>3. LockGranted(p, r) \/ LockReset(p, r) \/ LockRefused(p, r)
    BY <1>3, <2>1 DEF ConvertLock
  <2> QED
    BY <1>1, <2>2, <2>3
<1>4. CASE ReleaseLock(p)
  BY <1>4, ReleaseUnlocks DEF Unlocks
<1> QED
  BY <1>2, <1>3, <1>4
     DEF Running, Act, OpenDb, CloseDb, Abort, Exit

\* The process that runs a step.
LEMMA OwnGives ==
    ASSUME TypeInv, LockInv, ControlInv, TypeInv', NEW p \in Proc, Running(p),
           GiveBack(p), Alone(p), Optional(p)
    PROVE  GiveBack(p)'
<1> SUFFICES ASSUME cmd'[p] \notin Keepers, p \notin robbed', held'[p] # {}
             PROVE  /\ status'[p] = "running" /\ at'[p] \in LSpan(cmd'[p])
                    /\ handle'[p] = "open"
                    /\ held'[p] \subseteq May(cmd'[p], at'[p])
  BY DEF GiveBack
<1>1. /\ status[p] = "running" /\ cmd' = cmd /\ p \notin robbed
      /\ StepDone(p) \/ StepFailed(p) \/ StepReturns(p)
  BY OwnStep DEF Leaves, StepDone, StepFailed, StepReturns, TypeInv
<1>2. PICK c : c = cmd[p]
  OBVIOUS
<1>3. PICK i : i = at[p]
  OBVIOUS
<1>4. PICK j : j = at'[p]
  OBVIOUS
<1>5. /\ Now(p) = StepOf(c, i) /\ GivingStep(c, i) /\ ExclusiveStep(c, i)
      /\ OpeningStep(c, i) /\ (c \in Upgraders => UpgradeStep(c, i))
      /\ \A k \in LSpan(c) : k <= Len(Steps(p))
      /\ Len(Steps(p)) \in Nat /\ i \in Nat /\ j \in Nat
  BY <1>1, <1>2, <1>3, <1>4, RunsSound DEF Sound, TypeInv
<1>6. held[p] # {} =>
         i \in LSpan(c) /\ handle[p] = "open" /\ held[p] \subseteq May(c, i)
  BY <1>1, <1>2, <1>3 DEF GiveBack
<1> SUFFICES /\ StepDone(p) \/ StepFailed(p)
             /\ j \in LSpan(c) /\ handle'[p] = "open"
             /\ held'[p] \subseteq May(c, j)
  BY <1>1, <1>2, <1>4, <1>5 DEF StepDone, StepFailed, Lands
<1>7. StepFailed(p) => FailsTo(c, i, j)
  BY <1>2, <1>3, <1>4 DEF StepFailed
<1>8. StepDone(p) => j = i + 1
  BY <1>3, <1>4 DEF StepDone
<1>9. held[p] \in SUBSET Locks
  BY DEF TypeInv
<1>10. CASE Now(p).op \notin LockOps
  <2>1. held'[p] = held[p] /\ i \in LSpan(c)
    BY <1>1, <1>6, <1>10 DEF StepDone, StepFailed, StepReturns
  <2>2. /\ Now(p).op \notin {"open", "close"}
        /\ Now(p).fail \in {"on", "cleanup", "skip", "goto"}
        /\ i + 1 \in LSpan(c) /\ May(c, i) \subseteq May(c, i + 1)
        /\ FailsTo(c, i, j) => j \in LSpan(c) /\ May(c, i) \subseteq May(c, j)
    BY <1>5, <1>10, <2>1 DEF GivingStep, LockOps
  <2> QED
    BY <1>1, <1>6, <1>7, <1>8, <2>1, <2>2 DEF StepDone, StepFailed, StepReturns
<1>11. CASE Now(p).op = "obtain"
  <2>1. /\ i \notin LSpan(c) /\ i + 1 \in LSpan(c) /\ Now(p).fail = "close"
        /\ Now(p).arg \in May(c, i + 1)
    BY <1>5, <1>11 DEF GivingStep
  <2>2. held[p] = {} /\ ~FailsTo(c, i, j)
    BY <1>5, <1>6, <2>1 DEF FailsTo
  <2>3. StepDone(p)
    BY <1>1, <1>7, <2>2 DEF StepReturns
  <2>4. handle[p] = "open"
    BY <1>1, <1>2, <1>3, <1>5, <1>11 DEF ControlInv, Opened, OpeningStep
  <2>5. held'[p] = {Now(p).arg} /\ handle'[p] = "open"
    BY <1>11, <2>2, <2>3, <2>4 DEF StepDone
  <2> QED
    BY <1>8, <2>1, <2>3, <2>5
<1>12. CASE Now(p).op = "convert"
  <2>1. /\ i \in LSpan(c) /\ i + 1 \in LSpan(c)
        /\ May(c, i) \subseteq {"A", "X"}
        /\ Now(p).arg = "AX" => May(c, i + 1) = {"A", "X"}
        /\ Now(p).arg = "XA" => c = "check" /\ i = 8
        /\ Now(p).fail \in {"on", "cleanup", "skip", "goto"}
    BY <1>5, <1>12 DEF GivingStep
  <2>2. c \in Upgraders
    BY <1>1, <1>2, <1>5, <1>12 DEF ExclusiveStep, Keepers
  <2>3. handle[p] = "open"
    BY <1>1, <1>2, <1>3, <1>5, <1>12, <2>2
       DEF ControlInv, Upgrades, UpgradeStep
  <2>4. Now(p).arg \in Conversions
    BY <1>1, <1>12, RunsStep, StepFields
  <2>5. ~StepReturns(p)
    BY <2>1 DEF StepReturns
  <2>6. held[p] \subseteq {"A", "X"}
    BY <1>6, <2>1
  <2>7. CASE StepDone(p)
    <3>1. \/ held'[p] = HeldAfter(held[p], Now(p).arg)
          \/ held'[p] = {Fresh(Now(p).arg)}
      BY <1>12, <2>7 DEF StepDone
    <3>2. handle'[p] = "open"
      BY <1>12, <2>3, <2>7 DEF StepDone
    <3>3. CASE Now(p).arg = "AX"
      <4>1. held'[p] \subseteq {"A", "X"}
        BY <2>6, <3>1, <3>3 DEF HeldAfter, Fresh, Locks
      <4> QED
        BY <1>8, <2>1, <2>7, <3>2, <3>3, <4>1
    <3>4. CASE Now(p).arg = "XA"
      <4>1. held'[p] \subseteq {"A"}
        BY <2>6, <3>1, <3>4 DEF HeldAfter, Fresh, Locks
      <4>2. j = 9 /\ May("check", 9) = {"A"}
        BY <1>8, <2>1, <2>7, <3>4 DEF May, XSpan, Readers
      <4> QED
        BY <1>8, <2>1, <2>7, <3>2, <3>4, <4>1, <4>2
    <3> QED
      BY <2>4, <3>3, <3>4 DEF Conversions
  <2>8. CASE StepFailed(p)
    <3>1. /\ held'[p] = held[p] /\ handle'[p] = "open"
          /\ ~Grantable(Now(p).arg) /\ LiveOthers(p) # {}
      BY <1>12, <2>1, <2>3, <2>8 DEF StepFailed
    <3>2. CASE Now(p).arg = "AX"
      <4>1. j \in LSpan(c) /\ May(c, i) \subseteq May(c, j)
        BY <1>5, <1>7, <1>12, <2>1, <2>8, <3>2 DEF GivingStep
      <4> QED
        BY <1>6, <2>8, <3>1, <4>1
    <3>3. CASE Now(p).arg = "XA"
      <4>1. c = "check" /\ i \in XSpan("check")
        BY <2>1, <3>3 DEF XSpan
      <4>2. "X" \in held[p]
        BY <1>1, <1>2, <1>3, <4>1 DEF ControlInv, WithLock, NoAccess
      <4>3. RowSays(p)
        BY <1>1 DEF LockInv
      <4>4. "A" \notin held[p]
        BY <3>1, <3>3, <4>2, <4>3 DEF RowSays, Grantable
      <4>5. pids \cap Alive \subseteq {p}
        BY <1>1, <1>2, <1>3, <4>1, <4>4 DEF Alone
      <4> QED
        BY <3>1, <4>5 DEF LiveOthers
    <3> QED
      BY <2>4, <3>2, <3>3 DEF Conversions
  <2> QED
    BY <1>1, <2>5, <2>7, <2>8
<1>13. CASE Now(p).op = "release"
  <2>1. StepDone(p) /\ handle'[p] = handle[p]
    BY <1>1, <1>13 DEF StepDone, StepFailed, StepReturns
  <2>2. PICK l \in Locks : l = Now(p).arg
    BY <1>1, <1>13, RunsStep, StepFields
  <2>3. held'[p] \subseteq held[p] /\ held[p] # {}
    BY <1>13, <2>1 DEF StepDone
  <2>4. i \in LSpan(c) /\ handle[p] = "open" /\ held[p] \subseteq May(c, i)
    BY <1>6, <2>3
  <2>5. l \notin held'[p]
    <3>1. CASE held'[p] = held[p] \ {l}
      BY <3>1
    <3>2. CASE held'[p] = held[p] /\ l = "R" /\ ~READ_LOCK
      BY <3>2 DEF Optional
    <3>3. CASE held'[p] = held[p] /\ ~Releasable(l)
      <4>1. /\ l = "R" => row.read = 0
            /\ l = "A" => row.advisory = 0
            /\ l = "X" => row.exclusive = 0
        <5>1. /\ Releasable("R") <=> row.read > 0
              /\ Releasable("A") <=> row.advisory = 1
              /\ Releasable("X") <=> row.exclusive = 1
          BY DEF Releasable
        <5> QED
          BY <3>3, <5>1 DEF TypeInv
      <4> QED
        BY <1>1, <3>3, <4>1, NobodyHolds DEF Locks
    <3> QED
      BY <1>13, <2>1, <2>2, <2>4, <3>1, <3>2, <3>3 DEF StepDone
  <2>6. held'[p] \subseteq May(c, i) \ {l}
    BY <2>3, <2>4, <2>5
  <2>7. i + 1 \in LSpan(c) /\ May(c, i) \ {l} \subseteq May(c, i + 1)
    BY <1>5, <1>13, <2>2, <2>4, <2>6 DEF GivingStep
  <2> QED
    BY <1>8, <2>1, <2>4, <2>6, <2>7
<1> QED
  BY <1>10, <1>11, <1>12, <1>13 DEF LockOps

\* check enters its span with both locks or alone.
LEMMA OwnAlone ==
    ASSUME TypeInv, ControlInv, NEW p \in Proc, Running(p), Alone(p)
    PROVE  Alone(p)'
<1> SUFFICES ASSUME p \notin robbed', status'[p] = "running",
                    cmd'[p] = "check", at'[p] \in XSpan("check"),
                    "A" \notin held'[p]
             PROVE  pids' \cap Alive' \subseteq {p}
  BY DEF Alone
<1>1. /\ status[p] = "running" /\ cmd' = cmd /\ p \notin robbed
      /\ StepDone(p) \/ StepFailed(p)
  BY OwnStep DEF Leaves, StepDone, StepFailed, StepReturns, TypeInv
<1>2. PICK i : i = at[p]
  OBVIOUS
<1>3. PICK j : j = at'[p]
  OBVIOUS
<1>4. /\ cmd[p] = "check" /\ "check" \in Upgraders
      /\ Now(p) = StepOf("check", i) /\ ExclusiveStep("check", i)
      /\ UpgradeStep("check", i)
  BY <1>1, <1>2, RunsSound DEF Sound, Upgraders
<1>5. \A q \in Proc \ {p} : q \in Alive' <=> q \in Alive
  BY OthersStay DEF Alive
<1>6. ASSUME i \in XSpan("check"), held'[p] = held[p], pids' \subseteq pids
      PROVE  pids' \cap Alive' \subseteq {p}
  <2>1. pids \cap Alive \subseteq {p}
    BY <1>1, <1>2, <1>4, <1>6 DEF Alone
  <2> QED
    BY <1>5, <1>6, <2>1 DEF Alive
<1>7. CASE StepFailed(p)
  <2>1. FailsTo("check", i, j) /\ j \in XSpan("check")
    BY <1>2, <1>3, <1>4, <1>7 DEF StepFailed
  <2>2. i \in XSpan("check")
    BY <1>4, <2>1 DEF ExclusiveStep, NoAccess
  <2> QED
    BY <1>6, <1>7, <2>2 DEF StepFailed
<1>8. CASE StepDone(p)
  <2>1. i + 1 \in XSpan("check")
    BY <1>2, <1>8 DEF StepDone
  <2>2. CASE i \in XSpan("check") /\ Now(p).op \notin LockOps
    BY <1>6, <1>8, <2>2 DEF StepDone
  <2>3. CASE TakesX(Now(p))
    <3>1. i + 1 \in UpSpan("check")
      BY <2>1 DEF XSpan, UpSpan
    <3>2. Now(p).op = "convert" /\ Now(p).arg = "AX"
      BY <1>4, <2>3, <3>1 DEF TakesX, UpgradeStep
    <3>3. "A" \in HeldAfter(held[p], "AX")
      BY DEF HeldAfter, Locks
    <3>4. pids' = {p}
      BY <1>8, <3>2, <3>3 DEF StepDone
    <3> QED
      BY <3>4
  <2> QED
    BY <1>4, <2>1, <2>2, <2>3 DEF ExclusiveStep
<1> QED
  BY <1>1, <1>7, <1>8

\* Nobody comes beside it while it is there.
LEMMA OthersAlone ==
    ASSUME TypeInv, LockInv, ControlInv, NEW p \in Proc,
           (\E c \in Names : Start(p, c)) \/ Running(p),
           NEW q \in Proc \ {p}, Alone(q)
    PROVE  Alone(q)'
<1> SUFFICES ASSUME q \notin robbed', status'[q] = "running",
                    cmd'[q] = "check", at'[q] \in XSpan("check"),
                    "A" \notin held'[q]
             PROVE  pids' \cap Alive' \subseteq {q}
  BY DEF Alone
<1>1. /\ q \notin robbed /\ status[q] = "running" /\ cmd[q] = "check"
      /\ at[q] \in XSpan("check") /\ "A" \notin held[q]
  BY OthersStay
<1>2. pids \cap Alive \subseteq {q}
  BY <1>1 DEF Alone
<1>3. "X" \in held[q] /\ q \in pids /\ q \in Alive
  <2>1. at[q] \in UpSpan("check")
    BY <1>1 DEF XSpan, UpSpan
  <2> QED
    BY <1>1, <2>1 DEF ControlInv, WithLock, Upgrades, NoAccess, Alive
<1>4. row.exclusive = 1
  BY <1>1, <1>3 DEF LockInv, RowSays
<1>5. pids' \subseteq pids
  BY <1>3, <1>4, NoEntry DEF Start
<1>6. \A z \in Proc \ {p} : z \in Alive' <=> z \in Alive
  BY OthersStay DEF Alive
<1>7. p \notin pids
  <2>1. status[p] = "new" => p \notin pids
    BY DEF TypeInv
  <2>2. status[p] # "new" => p \in Alive
    BY OwnStep DEF Start, Alive, Abort, Exit, Doing
  <2> QED
    BY <1>2, <2>1, <2>2
<1> QED
  BY <1>2, <1>5, <1>6, <1>7 DEF TypeInv

\* Every step keeps these.
LEMMA NextGiving ==
    TypeInv /\ LockInv /\ ControlInv /\ GivingInv /\ TypeInv' /\ [Next]_vars
        => GivingInv'
<1> SUFFICES ASSUME TypeInv, LockInv, ControlInv, GivingInv, TypeInv',
                    [Next]_vars
             PROVE  GivingInv'
  OBVIOUS
<1>1. CASE UNCHANGED vars
  BY <1>1 DEF vars, GivingInv, GiveBack, Alone, Optional, Alive
<1>2. ASSUME NEW p \in Proc, (\E c \in Names : Start(p, c)) \/ Running(p),
             NEW q \in Proc \ {p}
      PROVE  GiveBack(q)' /\ Alone(q)' /\ Optional(q)'
  <2>1. Alone(q)'
    BY <1>2, OthersAlone DEF GivingInv
  <2> QED
    BY <1>2, <2>1, OthersStay DEF GivingInv, GiveBack, Optional
<1>3. ASSUME NEW p \in Proc, \E c \in Names : Start(p, c)
      PROVE  GiveBack(p)' /\ Alone(p)' /\ Optional(p)'
  <2>1. held'[p] = {} /\ at'[p] = 1
    BY <1>3 DEF Start, TypeInv
  <2>2. 1 \notin XSpan("check")
    BY DEF XSpan
  <2> QED
    BY <2>1, <2>2 DEF GiveBack, Alone, Optional
<1>4. ASSUME NEW p \in Proc, Running(p)
      PROVE  GiveBack(p)' /\ Alone(p)' /\ Optional(p)'
  <2>1. GiveBack(p)' /\ Alone(p)'
    BY <1>4, OwnGives, OwnAlone DEF GivingInv
  <2>2. Optional(p)'
    <3>1. SUFFICES ASSUME ~READ_LOCK PROVE "R" \notin held'[p]
      BY DEF Optional
    <3>2. "R" \notin held[p]
      BY <3>1 DEF GivingInv, Optional
    <3>3. CASE Leaves(p)
      BY <3>3 DEF Leaves, TypeInv
    <3>4. CASE status[p] = "running" /\ StepDone(p)
      <4>1. CASE Now(p).op = "obtain"
        BY <3>1, <3>2, <3>4, <4>1 DEF StepDone
      <4>2. CASE Now(p).op = "convert"
        <5>1. PICK r \in Conversions : r = Now(p).arg
          BY <3>4, <4>2, RunsStep, StepFields
        <5>2. "R" \notin HeldAfter(held[p], r) /\ Fresh(r) # "R"
          BY <3>2, <5>1 DEF HeldAfter, Fresh, Locks, Conversions
        <5> QED
          BY <3>4, <4>2, <5>1, <5>2 DEF StepDone
      <4>3. CASE Now(p).op \notin {"obtain", "convert"}
        BY <3>2, <3>4, <4>3 DEF StepDone, LockOps
      <4> QED
        BY <4>1, <4>2, <4>3
    <3>5. CASE StepFailed(p) \/ StepReturns(p)
      BY <3>2, <3>5 DEF StepFailed, StepReturns
    <3> QED
      BY <1>4, <3>3, <3>4, <3>5, OwnStep
  <2> QED
    BY <2>1, <2>2
<1> QED
  BY <1>1, <1>2, <1>3, <1>4 DEF Next, GivingInv

\* Nobody has started anything at first.
LEMMA InitGiving == Init => GivingInv
<1>1. 1 \notin XSpan("check")
  BY DEF XSpan
<1> QED
  BY <1>1 DEF Init, GivingInv, GiveBack, Alone, Optional

\* Whatever the other processes do, and on whichever of its paths a command
\* returns, it has given its lock back, unless it is one of those named.
THEOREM LocksGivenBack == Spec => []LockGivenBack
<1>1. GivingInv => LockGivenBack
  <2> SUFFICES ASSUME GivingInv, NEW p \in Proc \ robbed,
                      status[p] = "returned" /\ held[p] # {},
                      cmd[p] \notin Keepers
               PROVE  FALSE
    BY DEF LockGivenBack, Keepers
  <2> QED
    BY DEF GivingInv, GiveBack
<1> QED
  BY <1>1, InitType, NextType, InitLock, NextLock, InitControl, NextControl,
     InitGiving, NextGiving, PTL DEF Spec
=============================================================================
