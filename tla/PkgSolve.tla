----------------------------- MODULE PkgSolve ------------------------------
(***************************************************************************)
(* How pkg turns a command into a list of jobs: jobs_solve_install_upgrade,*)
(* jobs_solve_deinstall, jobs_solve_autoremove and pkg_jobs_solve          *)
(* (libpkg/pkg_jobs.c), the universe of packages they collect              *)
(* (libpkg/pkg_jobs_universe.c), the rules given to the SAT solver         *)
(* (libpkg/pkg_solve.c), and the rounds in which file conflicts are found  *)
(* and solved again (libpkg/pkg_jobs_conflicts.c, pkgdb_integrity_append   *)
(* and pkgdb_integrity_check of libpkg/pkgdb.c).                           *)
(*                                                                         *)
(* A world is what the databases hold: the installed packages and those of *)
(* the repositories.  A package is an item; a uid (name and origin) names  *)
(* its versions, at most one of them installed.  The order in which SQLite *)
(* and the hash tables return rows is left open.                           *)
(*                                                                         *)
(* Left out: shared libraries, conflicts declared in manifests, -f, the    *)
(* search for a package with a similar name, files as arguments, pkg's own *)
(* upgrade, external solvers, and PKG_JOBS_FETCH.                          *)
(***************************************************************************)
EXTENDS Naturals

CONSTANTS
    Uid, Item, Path,
    UidOf,          \* the uid of a package
    NoUid, NoItem,
    Starts,         \* the databases, and the commands started on them
    ForceMissing    \* -M was given

World ==
    [items : SUBSET Item,           \* installed, or in a repository
     local : SUBSET Item,           \* installed
     locked : SUBSET Item,
     automatic : SUBSET Item,
     version : [Item -> Nat],
     deps : [Item -> SUBSET Uid],
     files : [Item -> SUBSET Path]]

\* packages_unique and the primary key of the table files.
Consistent(v) ==
    /\ v.local \subseteq v.items
    /\ v.locked \subseteq v.local
    /\ v.automatic \subseteq v.local
    /\ \A i, j \in v.local :
           i # j => UidOf[i] # UidOf[j] /\ v.files[i] \cap v.files[j] = {}

Kinds == {"install", "upgrade", "deinstall", "autoremove"}

\* pkg install and pkg delete are given the uids the user named.
Start ==
    {s \in [world : World, kind : Kinds, named : SUBSET Uid] :
        /\ Consistent(s.world)
        /\ s.named # {} <=> s.kind \in {"install", "deinstall"}}

ASSUME SolveAssumption ==
    /\ UidOf \in [Item -> Uid]
    /\ Starts \subseteq Start
    /\ ForceMissing \in BOOLEAN
    /\ NoUid \notin Uid
    /\ NoItem \notin Item

VARIABLES
    w,              \* the world
    kind,           \* j->type
    recursive,      \* PKG_FLAG_RECURSIVE of a deinstallation
    named,          \* history: the uids the user named
    todo,           \* patterns, or rows of the first query, not yet seen
    pattern, rest,  \* the current pattern and its remote rows to come
    found, rc,      \* of pkg_jobs_find_upgrade
    universe,       \* j->universe->items
    heads,          \* the first item of each chain
    fresh,          \* items whose dependencies are still to be followed
    blind,          \* items that were loaded without their dependencies
    auto,           \* remote items whose automatic flag is set
    add, del,       \* j->request_add, j->request_delete
    conf,           \* pkg->conflicts of the items
    chosen,         \* var->to_install
    failed,         \* picosat_failed_assumptions
    jobs,           \* j->jobs
    left, cur, paths, table,    \* of pkgdb_integrity_append
    clash,          \* the check found a conflict: EPKG_CONFLICT
    registered,     \* j->conflicts_registered > 0
    nested,         \* pkg_jobs_solve runs for the second time
    pc

looking == <<todo, pattern, rest, found, rc>>
exploring == <<universe, heads, fresh, blind>>
checking == <<left, cur, paths, table, clash, registered>>
solving == <<chosen, failed, jobs>>
command == <<w, kind, recursive, named>>
vars == <<command, looking, exploring, auto, add, del, conf, solving,
          checking, nested, pc>>
----------------------------------------------------------------------------
(* The databases, and the chains of the universe.                          *)

Remote == w.items \ w.local
Local(u) == {i \in w.local : UidOf[i] = u}
Remotes(u) == {i \in Remote : UidOf[i] = u}
Chain(u) == {i \in universe : UidOf[i] = u}
Known(u) == \E i \in w.items : UidOf[i] = u

\* More than one package.
Several(S) == \E x, y \in S : x # y

\* The uids of the installed packages that depend on i.
Rdeps(i) == {UidOf[l] : l \in {m \in w.local : UidOf[i] \in w.deps[m]}}

\* pkg_jobs_universe_get_remote: the newest version of the repositories.
Newest(u) == {r \in Remotes(u) : \A s \in Remotes(u) : w.version[s] <= w.version[r]}

\* Options, shared libraries and repositories are left out: packages of one
\* version differ in their dependencies.
NeedUpgrade(r, p) ==
    /\ p \notin w.locked
    /\ \/ w.version[r] > w.version[p]
       \/ w.version[r] = w.version[p] /\ w.deps[r] # w.deps[p]

\* pkg_jobs_universe_process_deps gives up at a dependency nobody has.
Broken(i) ==
    /\ kind \in {"install", "upgrade"}
    /\ ~ForceMissing
    /\ i \notin blind
    /\ \E u \in w.deps[i] : ~Known(u)

\* What a dependency or a reverse dependency brings in.
Candidates(u) ==
    IF kind = "deinstall" THEN {Local(u)}
    ELSE IF Local(u) = {} THEN {{r} : r \in Newest(u)}
    ELSE LET upgrades == {r \in Newest(u) :
                             \A l \in Local(u) : NeedUpgrade(r, l) /\ ~Broken(l)}
         IN  IF upgrades = {} THEN {Local(u)}
             ELSE {Local(u) \cup {r} : r \in upgrades}

\* Items of a new uid: the installed one is added first.
NewHeads(S) ==
    {i \in S : Chain(UidOf[i]) = {}
               /\ (i \in w.local \/ Local(UidOf[i]) \cap S = {})}

\* pkg_jobs_universe_add_pkg for each item of S that was not seen before.
Insert(S) ==
    /\ universe' = universe \cup S
    /\ heads' = heads \cup NewHeads(S)
    /\ fresh' = fresh \cup (S \ universe)
----------------------------------------------------------------------------
Candidate(u) == Local(u) # {} /\ Remotes(u) # {}

Init ==
    /\ \E s \in Starts : w = s.world /\ kind = s.kind /\ named = s.named
    /\ recursive \in (IF kind = "deinstall" THEN BOOLEAN ELSE {FALSE})
    /\ todo = CASE kind = "upgrade" -> {u \in Uid : Candidate(u)}
                [] kind = "autoremove" -> {UidOf[i] : i \in w.automatic}
                [] OTHER -> named
    /\ pattern = NoUid /\ rest = {} /\ found = FALSE /\ rc = "fatal"
    /\ universe = {} /\ heads = {} /\ fresh = {} /\ blind = {}
    /\ auto = {} /\ add = {} /\ del = {} /\ conf = {}
    /\ chosen = {} /\ failed = {} /\ jobs = {}
    /\ left = {} /\ cur = NoItem /\ paths = {}
    /\ table = [p \in Path |-> NoUid]
    /\ clash = FALSE /\ registered = FALSE /\ nested = FALSE
    /\ pc = "lookup"
----------------------------------------------------------------------------
(* pkg_jobs_universe_process_item, for one item.                           *)

\* Fault: reverse dependencies are forgotten.
NeighboursBelow(i) == IF kind \in {"install", "upgrade"} THEN w.deps[i] ELSE {}

Neighbours(i) ==
    CASE kind = "autoremove" -> {}
      [] kind = "deinstall" -> IF recursive THEN Rdeps(i) ELSE {}
      [] OTHER -> (IF i \in blind THEN {} ELSE w.deps[i])
                  \cup (IF i \in w.local THEN Rdeps(i) ELSE {})

\* The uids that are not in the universe yet and are found in a database.
Unseen(i) == {u \in Neighbours(i) : Chain(u) = {} /\ Known(u)}

Explored(i) ==
    IF Broken(i) THEN SUBSET (Unseen(i) \cap w.deps[i]) ELSE {Unseen(i)}

Explore(i) ==
    /\ i \in fresh
    /\ \E us \in Explored(i), S \in SUBSET w.items :
          /\ {UidOf[x] : x \in S} \subseteq us
          /\ \A u \in us : {x \in S : UidOf[x] = u} \in Candidates(u)
          /\ universe' = universe \cup S
          /\ heads' = heads \cup NewHeads(S)
          /\ fresh' = (fresh \ {i}) \cup S
    /\ UNCHANGED <<command, looking, blind, auto, add, del, conf, solving,
                   checking, nested, pc>>
----------------------------------------------------------------------------
(* pkg_jobs_find_upgrade for a pattern of install and each candidate of    *)
(* upgrade.                                                                *)

StartPattern(u) ==
    /\ pc = "lookup" /\ kind \in {"install", "upgrade"}
    /\ pattern = NoUid /\ fresh = {}
    /\ u \in todo
    /\ todo' = todo \ {u}
    /\ pattern' = u
    /\ rest' = Remotes(u)
    /\ found' = FALSE
    /\ rc' = "fatal"
    /\ UNCHANGED <<command, exploring, auto, add, del, conf, solving,
                   checking, nested, pc>>

\* The package r is compared with: the first of its chain, or the installed
\* one, which is then added.
Base(r) == IF Chain(UidOf[r]) = {} THEN Local(UidOf[r]) ELSE {}
Rival(r) == IF Chain(UidOf[r]) = {} THEN Base(r) ELSE heads \cap Chain(UidOf[r])

\* pkg_jobs_process_remote_pkg
Row(r) ==
    /\ pc = "lookup" /\ fresh = {}
    /\ r \in rest
    /\ rest' = rest \ {r}

Seen(r) ==
    /\ Row(r)
    /\ r \in universe
    /\ add' = add \cup {r}
    /\ rc' = "installed"
    /\ UNCHANGED <<command, todo, pattern, found, exploring, auto, del, conf,
                   solving, checking, nested, pc>>

UpToDate(r) ==
    /\ Row(r)
    /\ r \notin universe
    /\ \E h \in Rival(r) :
          /\ ~NeedUpgrade(r, h)
          /\ IF h \in w.local
             THEN rc' = "installed" /\ UNCHANGED <<add, found>>
             ELSE rc' = "ok" /\ found' = TRUE /\ add' = add \cup {h}
    /\ Insert(Base(r))
    /\ UNCHANGED <<command, todo, pattern, blind, auto, del, conf, solving,
                   checking, nested, pc>>

Request(r) ==
    /\ pc = "lookup" /\ fresh = {}
    /\ r \in rest
    /\ r \notin universe
    /\ \A h \in Rival(r) : NeedUpgrade(r, h)
    /\ Insert(Base(r) \cup {r})
    /\ IF Broken(r)
       THEN rc' = "fatal" /\ rest' = {} /\ UNCHANGED <<add, found>>
       ELSE rc' = "ok" /\ rest' = rest \ {r} /\ found' = TRUE
            /\ add' = add \cup {r}
    /\ UNCHANGED <<command, todo, pattern, blind, auto, del, conf, solving,
                   checking, nested, pc>>

\* No row, or a broken one: the installed package is added, without its
\* dependencies; it is no error if something depends on it.
Orphan == ~found /\ rc # "installed"

NoCandidate ==
    IF Orphan
    THEN \A l \in Local(pattern) : Rdeps(l) = {}
    ELSE rc = "fatal"

EndPattern ==
    /\ pc = "lookup" /\ pattern # NoUid
    /\ rest = {} /\ fresh = {}
    /\ LET S == IF Orphan THEN Local(pattern) ELSE {} IN
          /\ Insert(S)
          /\ blind' = blind \cup (S \ universe)
    /\ pattern' = NoUid
    /\ pc' = IF kind = "install" /\ NoCandidate THEN "failed" ELSE "lookup"
    /\ UNCHANGED <<command, todo, rest, found, rc, auto, add, del, conf,
                   solving, checking, nested>>
----------------------------------------------------------------------------
(* The other commands.                                                     *)

Deinstall(u) ==
    /\ pc = "lookup" /\ kind = "deinstall" /\ fresh = {}
    /\ u \in todo
    /\ todo' = todo \ {u}
    /\ Insert(Local(u))
    /\ del' = del \cup (Local(u) \ w.locked)
    /\ UNCHANGED <<command, pattern, rest, found, rc, blind, auto, add, conf,
                   solving, checking, nested, pc>>

\* Fault: only the packages that need l directly are looked at.
AboveDirectly(l) == {x \in w.local : UidOf[x] \in Rdeps(l)}

\* Every installed package that needs l, directly or not.
Above(l) ==
    {x \in w.local :
        \A S \in SUBSET w.local :
            (\A y \in S \cup {l} : \A z \in w.local :
                UidOf[z] \in Rdeps(y) => z \in S) => x \in S}

\* pkg_jobs_test_automatic stops at the first package that is not automatic;
\* which ones it has loaded by then depends on the order.
Tested(l) ==
    IF Above(l) \subseteq w.automatic THEN {Above(l)}
    ELSE {V \in SUBSET (Above(l) \cap w.automatic) :
            \A x \in V : \E y \in V \cup {l} : UidOf[x] \in Rdeps(y)}

Autoremove(u) ==
    /\ pc = "lookup" /\ kind = "autoremove"
    /\ u \in todo
    /\ todo' = todo \ {u}
    /\ \E l \in Local(u) :
          IF l \in w.locked
          THEN /\ universe' = universe \cup {l}
               /\ heads' = heads \cup {l}
               /\ UNCHANGED <<blind, del>>
          ELSE \E V \in Tested(l) :
               /\ universe' = universe \cup {l} \cup V
               /\ heads' = heads \cup {l} \cup V
               /\ blind' = blind \cup (V \ (universe \cup {l}))
               /\ del' = IF Above(l) \subseteq w.automatic
                         THEN del \cup {l} ELSE del
    /\ UNCHANGED <<command, pattern, rest, found, rc, fresh, auto, add, conf,
                   solving, checking, nested, pc>>
----------------------------------------------------------------------------
(* The end of the lookup, and the requests that are solved.                *)

\* Fault: the flag of the installed package is not inherited.
FlaggedIfNew(i) == i \notin add

\* pkg_jobs_propagate_automatic
Flagged(i) ==
    IF Chain(UidOf[i]) = {i} THEN i \notin add
    ELSE IF Chain(UidOf[i]) \cap w.local = {} THEN i \in auto
    ELSE \E l \in Chain(UidOf[i]) \cap w.local : l \in w.automatic

Propagate ==
    auto' = IF kind \in {"install", "upgrade"}
            THEN {i \in universe \ w.local : Flagged(i)} ELSE auto

EndLookup ==
    /\ pc = "lookup"
    /\ todo = {} /\ pattern = NoUid /\ fresh = {}
    /\ Propagate
    /\ pc' = "chains"
    /\ UNCHANGED <<command, looking, exploring, add, del, conf, solving,
                   checking, nested>>

\* Fault: every candidate of an upgrade stays requested.
KeptAll(u) == {Chain(u) \ w.local}

\* pkg_jobs_universe_process_upgrade_chains: the requests of u that stay.
Kept(u) ==
    LET local == Chain(u) \cap w.local
        remote == Chain(u) \ w.local
    IN  IF local \cap w.locked # {} THEN {{}}
        ELSE IF Several(remote)
        THEN {{r} : r \in {s \in remote :
                 \A t \in remote : w.version[t] <= w.version[s]}}
        ELSE {remote}

UpgradeChains ==
    /\ pc = "chains"
    /\ \E keep \in SUBSET (universe \ w.local) :
          /\ \A u \in Uid : keep \cap Chain(u) \in Kept(u)
          /\ add' = add \cap keep
    /\ pc' = "sat"
    /\ UNCHANGED <<command, looking, exploring, auto, del, conf, solving,
                   checking, nested>>
----------------------------------------------------------------------------
(* The rules, for a set C of variables that are true.                      *)

\* Fault: the literal of the package that depends is missing.
DependRuleAlways(C) ==
    \A i \in universe \ blind : \A u \in w.deps[i] :
        Chain(u) # {} => C \cap Chain(u) # {}

DependRule(C) ==
    \A i \in C \ blind : \A u \in w.deps[i] :
        Chain(u) # {} => C \cap Chain(u) # {}

\* A conflict with an installed package does not bind two remote ones.
Applies(type, i, j) ==
    IF type = "remote-local" THEN (i \in w.local) # (j \in w.local)
    ELSE i \notin w.local /\ j \notin w.local

ConflictRule(C) ==
    \A k \in conf : k.item \in C =>
        \A j \in C \cap Chain(k.uid) : ~Applies(k.type, k.item, j)

\* Only the first variable of a chain excludes the others.
ChainRule(C) ==
    \A h \in heads \cap C : C \cap Chain(UidOf[h]) = {h}

Rules(C) == DependRule(C) /\ ConflictRule(C) /\ ChainRule(C)

Models(adds, dels) ==
    {C \in SUBSET universe : Rules(C) /\ adds \subseteq C /\ C \cap dels = {}}

\* The default phases: what is installed stays, what is not does not come.
Deviation(C) == (C \ w.local) \cup ((w.local \cap universe) \ C)

\* PicoSAT decides every variable by its default phase, so each deviation in
\* its answer follows from the rules and the other variables.
Answers ==
    LET M == Models(add, del)
    IN  {C \in M : \A D \in M : Deviation(D) \subseteq Deviation(C) => D = C}

Incoming(C, u) == C \cap (Chain(u) \ w.local)
Outgoing(C, u) == (Chain(u) \cap w.local) \ C

\* pkg_solve_insert_res_job
JobOf(C, u) ==
    LET new == Incoming(C, u)
        old == Outgoing(C, u)
    IN  IF Several(new) THEN {}
        ELSE IF new = {} THEN {[new |-> NoItem, old |-> l] : l \in old}
        ELSE IF old = {} THEN {[new |-> r, old |-> NoItem] : r \in new}
        ELSE {[new |-> r, old |-> l] : r \in new, l \in old}

JobsOf(C) == UNION {JobOf(C, u) : u \in Uid}

Installs(js) == {j.new : j \in js} \ {NoItem}
Removes(js) == {j.old : j \in js} \ {NoItem}

\* The end of pkg_jobs_solve: on to the check, unless it is the second call
\* and nothing was registered.
AfterSolve(js) ==
    IF nested /\ ~registered
    THEN pc' = "done" /\ UNCHANGED checking
    ELSE /\ pc' = "append"
         /\ left' = Installs(js)
         /\ cur' = NoItem /\ paths' = {}
         /\ table' = [p \in Path |-> NoUid]
         /\ clash' = FALSE /\ registered' = FALSE

Satisfiable ==
    /\ pc = "sat"
    /\ \E C \in Answers :
          /\ chosen' = C
          /\ jobs' = JobsOf(C)
          /\ AfterSolve(JobsOf(C))
    /\ failed' = {}
    /\ UNCHANGED <<command, looking, exploring, auto, add, del, conf, nested>>

Unsatisfiable ==
    /\ pc = "sat"
    /\ Models(add, del) = {}
    /\ failed' \in {F \in SUBSET (add \cup del) :
                       Models(add \cap F, del \cap F) = {}}
    /\ pc' = "ask"
    /\ UNCHANGED <<command, looking, exploring, auto, add, del, conf, chosen,
                   jobs, checking, nested>>

\* The user agrees to drop every request that failed: goto again.
DropRequests ==
    /\ pc = "ask"
    /\ add' = add \ failed
    /\ del' = del \ failed
    /\ failed' = {}
    /\ pc' = "chains"
    /\ UNCHANGED <<command, looking, exploring, auto, conf, chosen, jobs,
                   checking, nested>>

\* Or not, after some of them: EPKG_FATAL, which the loop of the first call
\* does not look at.
Refuse ==
    /\ pc = "ask"
    /\ \E F \in SUBSET failed :
          /\ F # failed
          /\ add' = add \ F
          /\ del' = del \ F
    /\ failed' = {}
    /\ IF nested THEN AfterSolve({}) ELSE pc' = "failed" /\ UNCHANGED checking
    /\ UNCHANGED <<command, looking, exploring, auto, conf, chosen, jobs,
                   nested>>
----------------------------------------------------------------------------
(* pkg_jobs_check_conflicts.                                               *)

HasKey(i, u) == \E k \in conf : k.item = i /\ k.uid = u

\* pkg_conflicts_register: an entry of the same uid stays as it is.
Entries(i, j, type) ==
    {[item |-> p[1], uid |-> UidOf[p[2]], type |-> type] :
        p \in {q \in {<<i, j>>, <<j, i>>} : ~HasKey(q[1], UidOf[q[2]])}}

BeginAppend(r) ==
    /\ pc = "append" /\ cur = NoItem
    /\ r \in left
    /\ left' = left \ {r}
    /\ cur' = r
    /\ paths' = w.files[r]
    /\ UNCHANGED <<command, looking, exploring, auto, add, del, conf, solving,
                   table, clash, registered, nested, pc>>

\* pkg_conflicts_add_from_pkgdb_remote registers the first pair of remote
\* packages that have no entry for each other, for each one of the chain.
Unpaired(u, v) == {i \in Chain(u) \ w.local : ~HasKey(i, v)}

Pairings(X, Y) ==
    {M \in SUBSET (X \X Y) :
        /\ \A p, q \in M : (p[1] = q[1]) <=> (p[2] = q[2])
        /\ \/ X = {p[1] : p \in M}
           \/ Y = {p[2] : p \in M}}

RegisterRemote(u, v) ==
    IF \E h \in heads \cap Chain(u) : HasKey(h, v)
    THEN UNCHANGED <<conf, registered>>
    ELSE \E M \in Pairings(Unpaired(u, v), Unpaired(v, u)) :
         /\ conf' = conf \cup
                UNION {Entries(p[1], p[2], "remote-remote") : p \in M}
         /\ registered' = (registered \/ M # {})

\* One file of the package: INSERT INTO integritycheck.
AppendFile(p) ==
    /\ pc = "append" /\ cur # NoItem
    /\ p \in paths
    /\ paths' = paths \ {p}
    /\ IF table[p] = NoUid
       THEN /\ table' = [table EXCEPT ![p] = UidOf[cur]]
            /\ UNCHANGED <<conf, clash, registered>>
       ELSE /\ RegisterRemote(UidOf[cur], table[p])
            /\ clash' = TRUE
            /\ UNCHANGED table
    /\ UNCHANGED <<command, looking, exploring, auto, add, del, solving,
                   left, cur, nested, pc>>

EndAppend ==
    /\ pc = "append" /\ cur # NoItem /\ paths = {}
    /\ cur' = NoItem
    /\ UNCHANGED <<command, looking, exploring, auto, add, del, conf, solving,
                   left, paths, table, clash, registered, nested, pc>>

Owner(p) == {l \in w.local : p \in w.files[l]}

BeginCheck ==
    /\ pc = "append" /\ cur = NoItem /\ left = {}
    /\ paths' = {p \in Path : \E l \in Owner(p) :
                    table[p] # NoUid /\ UidOf[l] # table[p]}
    /\ pc' = "integrity"
    /\ UNCHANGED <<command, looking, exploring, auto, add, del, conf, solving,
                   left, cur, table, clash, registered, nested>>

\* pkg_conflicts_add_from_pkgdb_local: each installed package of one chain
\* with each remote one of the other.
Crossing(X, Y) ==
    {p \in X \X Y : (p[1] \in w.local) # (p[2] \in w.local)}

\* Fault: a conflict is counted again in every round.
RegisterLocalAgain(l, v) ==
    /\ conf' = conf \cup
           UNION {Entries(p[1], p[2], "remote-local") :
                    p \in Crossing(Chain(UidOf[l]), Chain(v))}
    /\ registered' = TRUE

RegisterLocal(l, v) ==
    LET u == UidOf[l]
        missing == Chain(u) = {}
        chain == IF missing THEN {l} ELSE Chain(u)
        pairs == Crossing(chain, Chain(v))
    IN  IF \/ missing /\ Broken(l)
           \/ \E h \in heads \cap Chain(u) : HasKey(h, v)
        THEN UNCHANGED <<conf, registered>>
        ELSE /\ conf' = conf \cup
                    UNION {Entries(p[1], p[2], "remote-local") : p \in pairs}
             /\ registered' = (registered \/ pairs # {})

\* A path of pkgdb_integrity_check that an installed package owns.
CheckFile(p) ==
    /\ pc = "integrity" /\ fresh = {}
    /\ p \in paths
    /\ paths' = paths \ {p}
    /\ clash' = TRUE
    /\ \E l \in Owner(p) :
          /\ RegisterLocal(l, table[p])
          /\ Insert(IF Chain(UidOf[l]) = {} THEN {l} ELSE {})
    /\ UNCHANGED <<command, looking, blind, auto, add, del, solving, left,
                   cur, table, nested, pc>>

EndCheck ==
    /\ pc = "integrity" /\ fresh = {} /\ paths = {}
    /\ ~clash
    /\ pc' = "done"
    /\ UNCHANGED <<command, looking, exploring, auto, add, del, conf, solving,
                   checking, nested>>

\* EPKG_CONFLICT: the jobs are dropped and everything is solved again.
Resolve ==
    /\ pc = "integrity" /\ fresh = {} /\ paths = {}
    /\ clash
    /\ jobs' = {}
    /\ nested' = TRUE
    /\ Propagate
    /\ pc' = "chains"
    /\ UNCHANGED <<command, looking, exploring, add, del, conf, chosen,
                   failed, checking>>
----------------------------------------------------------------------------
Ended == pc \in {"done", "failed"} /\ UNCHANGED vars

Next ==
    \/ \E i \in Item :
          Explore(i) \/ Seen(i) \/ UpToDate(i) \/ Request(i) \/ BeginAppend(i)
    \/ \E u \in Uid : StartPattern(u) \/ Deinstall(u) \/ Autoremove(u)
    \/ \E p \in Path : AppendFile(p) \/ CheckFile(p)
    \/ EndPattern \/ EndLookup \/ UpgradeChains
    \/ Satisfiable \/ Unsatisfiable \/ DropRequests \/ Refuse
    \/ EndAppend \/ BeginCheck \/ EndCheck \/ Resolve
    \/ Ended

Spec == Init /\ [][Next]_vars

\* The process runs on until it has its list of jobs; the user answers.
FairSpec == Spec /\ WF_vars(Next)
----------------------------------------------------------------------------
(* Properties.                                                             *)

Conflicts == [item : Item, uid : Uid, type : {"remote-local", "remote-remote"}]
Jobs == [new : Item \cup {NoItem}, old : Item \cup {NoItem}]

\* The type invariant.
TypeOK ==
    /\ w \in World /\ Consistent(w)
    /\ kind \in Kinds /\ recursive \in BOOLEAN
    /\ named \subseteq Uid /\ todo \subseteq Uid
    /\ pattern \in Uid \cup {NoUid}
    /\ rest \subseteq Remote
    /\ found \in BOOLEAN /\ rc \in {"ok", "installed", "fatal"}
    /\ universe \subseteq w.items /\ heads \subseteq universe
    /\ fresh \subseteq universe /\ blind \subseteq universe
    /\ auto \subseteq universe
    /\ add \subseteq universe \ w.local
    /\ del \subseteq universe \cap w.local
    /\ conf \subseteq Conflicts
    /\ chosen \subseteq universe
    /\ failed \subseteq add \cup del
    /\ jobs \subseteq Jobs
    /\ left \subseteq universe /\ cur \in universe \cup {NoItem}
    /\ paths \subseteq Path /\ table \in [Path -> Uid \cup {NoUid}]
    /\ clash \in BOOLEAN /\ registered \in BOOLEAN /\ nested \in BOOLEAN
    /\ pc \in {"lookup", "chains", "sat", "ask", "append", "integrity",
               "done", "failed"}

\* What is installed once the jobs have run.
After == (w.local \ Removes(jobs)) \cup Installs(jobs)

\* Dependencies that can be met: all of a new package, those that were met
\* of an installed one.
Needs(i) ==
    {u \in w.deps[i] : IF i \in w.local THEN Local(u) # {} ELSE Known(u)}

Unbroken == \A i \in w.items : ~Broken(i)

\* No list of jobs takes a dependency away from a package that stays, or
\* installs a package without a dependency that some repository has: the
\* rules of pkg_solve_add_depend_rule cover every package the jobs touch
\* because pkg_jobs_universe_process_deps follows dependencies both ways.
\* pkg delete -f does not follow them, packages without a candidate and
\* those pkg_jobs_test_automatic loads come without dependencies, and a
\* broken package ends the search.
DepsKept ==
    (pc = "done" /\ Unbroken /\ (kind = "deinstall" => recursive)) =>
        \A i \in After \ blind : \A u \in Needs(i) :
            \E x \in After : UidOf[x] = u

\* No uid gets two packages, although pkg_solve_add_chain_rule relates only
\* the first of a chain to the others: the error "more than two packages to
\* install" of pkg_solve_insert_res_job is never reached.
OnePerUid ==
    \A x, y \in chosen : UidOf[x] = UidOf[y] => x = y

\* When the solver fails, pkg_solve_sat_problem reads the first failed
\* assumption before it looks for the end of the list, and takes all of them
\* for positive literals: there is one, and none is a deletion.
OnlyInstallsFail == pc = "ask" => failed # {} /\ failed \cap del = {}

\* A package nobody named is installed with the automatic flag, and an
\* upgrade keeps the flag of what it replaces, whatever was asked of the user
\* and however often pkg_jobs_propagate_automatic has run.
FlagsKept ==
    (pc = "done" /\ kind \in {"install", "upgrade"}) =>
        \A j \in jobs : j.new # NoItem =>
            IF j.old = NoItem THEN UidOf[j.new] \notin named => j.new \in auto
            ELSE (j.new \in auto) <=> (j.old \in w.automatic)

\* Packages that were asked for and what they need, directly or not.
Wanted ==
    {i \in w.local :
        \A S \in SUBSET w.local :
            (/\ w.local \ w.automatic \subseteq S
             /\ \A x \in S : \A u \in w.deps[x] : Local(u) \subseteq S)
                => i \in S}

\* pkg autoremove keeps every package that was asked for and everything such
\* a package needs, although pkg_jobs_test_automatic looks at the packages
\* one by one, from below, and the solver may add deletions to the requests.
NeededKept == (pc = "done" /\ kind = "autoremove") => Wanted \subseteq After

\* The rounds of conflict checks end: every round but the last registers a
\* conflict that was not known before.
Terminates == <>(pc \in {"done", "failed"})
============================================================================
