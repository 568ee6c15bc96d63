----------------------------- MODULE PkgOrder ------------------------------
(***************************************************************************)
(* The order in which pkg_jobs_execute runs the jobs the solver found:     *)
(* pkg_jobs_set_priorities (libpkg/pkg_jobs.c) gives every item of the     *)
(* universe a priority along dependencies and conflicts                    *)
(* (libpkg/pkg_jobs_universe.c), splits the upgrades whose old package is  *)
(* in the way of an earlier one, and sorts.                                *)
(*                                                                         *)
(* It runs once, on the universe and the jobs that PkgSolve ends with.     *)
(* Hash tables, SQLite and the lookup decide the order of lists: an order  *)
(* o is one of the dependencies, one of the jobs and one of the remote     *)
(* packages of a chain, and any of them may occur.                         *)
(***************************************************************************)
EXTENDS PkgSolve, Integers, SequencesExt

CONSTANT
    RecursionLimit      \* RECURSION_LIMIT, 1024 in the code

ASSUME OrderAssumption == RecursionLimit \in Nat

Orders == [deps : SetToSeqs(Uid), jobs : SetToSeqs(Uid), rising : BOOLEAN]

\* The uids of S in the order o.
Listed(S, o) == SelectSeq(o.deps, LAMBDA u : u \in S)

\* A chain, the head first; and what is left of it from i on.
ChainSeq(u, o) ==
    LET first == heads \cap Chain(u)
    IN  SetToSeq(first) \o SetToSortSeq(Chain(u) \ first,
            LAMBDA x, y : IF o.rising THEN w.version[x] < w.version[y]
                                      ELSE w.version[y] < w.version[x])
ChainFrom(i, o) ==
    LET c == ChainSeq(UidOf[i], o)
    IN  SubSeq(c, CHOOSE k \in DOMAIN c : c[k] = i, Len(c))

\* pkg_deps and pkg_rdeps: what was loaded of them.
LoadedDeps(i) == IF i \in blind THEN {} ELSE w.deps[i]
LoadedRdeps(i) == IF i \in w.local THEN Rdeps(i) ELSE {}

\* Fault: deletions follow the dependencies, too.
BelowAlways(i, type) == LoadedDeps(i)
Below(i, type) == IF type = "delete" THEN LoadedRdeps(i) ELSE LoadedDeps(i)
OnTop(i, type) == IF type = "delete" THEN LoadedDeps(i) ELSE LoadedRdeps(i)

ConflictUids(i) == {k.uid : k \in {k \in conf : k.item = i}}
----------------------------------------------------------------------------
(***************************************************************************)
(* pkg_jobs_update_universe_item_priority, for the items of a chain that   *)
(* are left.  pri maps every item to its priority.  A list built with      *)
(* DL_APPEND has no item without prev, so every remote item is skipped     *)
(* for a conflict and a deletion.                                          *)
(***************************************************************************)
RECURSIVE Update(_, _, _, _, _)

\* The loop over deps_func.
RaiseBelow(pri, it, n, type, o) ==
    LET Raise(p, x) ==
            IF p[x] < n + 1 THEN Update(p, ChainFrom(x, o), n + 1, type, o) ELSE p
        RaiseChain(p, u) == FoldLeft(Raise, p, ChainSeq(u, o))
    IN  FoldLeft(RaiseChain, [pri EXCEPT ![it] = n], Listed(Below(it, type), o))

\* The loop over rdeps_func.
MaxPri(pri, it, n, type) ==
    Max({n} \cup {pri[y] + 1 : y \in {z \in universe : UidOf[z] \in OnTop(it, type) /\ pri[z] >= n}})

\* The loop over the conflicts.
RaiseConflicts(pri, it, o) ==
    LET Clear(p, x) ==
            IF x \in w.local /\ p[x] <= p[it]
            THEN Update(p, ChainFrom(x, o), p[it] + 1, "conflict", o) ELSE p
        ClearChain(p, u) == FoldLeft(Clear, p, ChainSeq(u, o))
    IN  IF it \in w.local THEN pri ELSE FoldLeft(ClearChain, pri, Listed(ConflictUids(it), o))

AfterMaxPri(pri, items, n, maxpri, type, o) ==
    IF maxpri # n THEN Update(pri, items, maxpri, type, o)
    ELSE Update(RaiseConflicts(pri, Head(items), o), Tail(items), n, type, o)
AfterRaising(pri, items, n, type, o) ==
    AfterMaxPri(pri, items, n, MaxPri(pri, Head(items), n, type), type, o)

Update(pri, items, n, type, o) ==
    IF items = <<>> \/ n > RecursionLimit THEN pri
    ELSE IF \/ Head(items) \notin w.local /\ type \in {"conflict", "delete"}
            \/ pri[Head(items)] > n
    THEN Update(pri, Tail(items), n, type, o)
    ELSE AfterRaising(RaiseBelow(pri, Head(items), n, type, o), items, n, type, o)

----------------------------------------------------------------------------
(* The list of jobs: items[0], items[1] and already_deleted of pkg_solved. *)

Solved(j) ==
    [type |-> IF j.new = NoItem THEN "delete"
              ELSE IF j.old = NoItem THEN "install" ELSE "upgrade",
     item |-> IF j.new = NoItem THEN j.old ELSE j.new,
     old |-> IF j.new = NoItem THEN NoItem ELSE j.old,
     deleted |-> FALSE]

SolvedList(list) == [k \in DOMAIN list |-> Solved(list[k])]
JobList(o) ==
    LET Listing(list, u) == list \o SetToSeq({j \in jobs : UidOf[Solved(j).item] = u})
    IN  SolvedList(FoldLeft(Listing, <<>>, o.jobs))

\* The first remote item of a chain; assert(rit != NULL).
Rit(u, o) == Head(SelectSeq(ChainSeq(u, o), LAMBDA i : i \notin w.local))

pkg_jobs_update_conflict_priority(pri, req, o) ==
    LET Again(p) == Update(p, ChainFrom(req.item, o), p[req.item], "request", o)
        Step(p, u) ==
            IF p[Rit(u, o)] < p[req.old] THEN p
            ELSE Again(Update(p, ChainFrom(req.old, o), p[Rit(u, o)] + 1, "conflict", o))
    IN  FoldLeft(Step, pri, Listed(ConflictUids(req.old), o))

\* The priorities after a request, and whether it is split.
SplitIf(pri, req) == [pri |-> pri, split |-> pri[req.old] > pri[req.item] /\ ~req.deleted]
pkg_jobs_set_request_priority(pri, req, o) ==
    IF req.type = "upgrade" /\ ConflictUids(req.old) # {}
    THEN SplitIf(IF pri[req.item] = 0
                 THEN pkg_jobs_update_conflict_priority(pri, req, o) ELSE pri, req)
    ELSE [pri |-> IF pri[req.item] # 0 THEN pri
                  ELSE Update(pri, ChainFrom(req.item, o), 0,
                              IF req.type = "delete" THEN "delete" ELSE "request", o),
          split |-> FALSE]

\* iter_again: the items of the jobs, and no others, start from zero.
ResetPriorities(pri, list) ==
    [i \in universe |->
        IF \E k \in DOMAIN list : i \in {list[k].item, list[k].old} THEN 0 ELSE pri[i]]

RemoveOld(i) == [type |-> "remove", item |-> i, old |-> NoItem, deleted |-> FALSE]

SplitList(list, k) == Append([list EXCEPT ![k].deleted = TRUE], RemoveOld(list[k].old))

RECURSIVE Requests(_, _, _, _)
Requests(pri, list, k, o) ==
    LET Restart(p, split) == Requests(ResetPriorities(p, split), split, 1, o)
        Go(r) == IF r.split THEN Restart(r.pri, SplitList(list, k))
                 ELSE Requests(r.pri, list, k + 1, o)
    IN  IF k > Len(list) THEN [pri |-> pri, list |-> list]
        ELSE Go(pkg_jobs_set_request_priority(pri, list[k], o))

\* pkg_jobs_sort_priority
Before(pri, r1, r2) ==
    \/ pri[r1.item] > pri[r2.item]
    \/ pri[r1.item] = pri[r2.item] /\ r1.type = "delete" /\ r2.type # "delete"

\* DL_SORT is stable.
Permuted(list, perm) == [k \in DOMAIN perm |-> list[perm[k]]]
Sorted(end) ==
    Permuted(end.list,
             SetToSortSeq(DOMAIN end.list,
                 LAMBDA k, l : \/ Before(end.pri, end.list[k], end.list[l])
                               \/ ~Before(end.pri, end.list[l], end.list[k]) /\ k < l))
pkg_jobs_set_priorities(o) == Sorted(Requests([i \in universe |-> 0], JobList(o), 1, o))
----------------------------------------------------------------------------
Installing(list, i) ==
    {k \in DOMAIN list : list[k].type \in {"install", "upgrade"} /\ list[k].item = i}
Removing(list, i) ==
    {k \in DOMAIN list : \/ list[k].type \in {"delete", "remove"} /\ list[k].item = i
                         \/ list[k].old = i}

\* No uid of the universe needs itself, through any version of any package.
Acyclic ==
    \A S \in SUBSET Uid \ {{}} : \E u \in S :
        \A i \in Chain(u) : w.deps[i] \cap S = {}

InOrder(list) ==
    /\ \A i, d \in Installs(jobs) : UidOf[d] \in w.deps[i] =>
          \A k \in Installing(list, i), l \in Installing(list, d) : l < k
    /\ \A i \in Installs(jobs), x \in Removes(jobs) :
          (UidOf[i] # UidOf[x] /\ w.files[i] \cap w.files[x] # {}) =>
              \A k \in Installing(list, i) : \E l \in Removing(list, x) : l < k
    /\ (conf = {} /\ Installs(jobs) = {}) =>
          \A i, d \in Removes(jobs) : UidOf[d] \in w.deps[i] =>
              \A k \in Removing(list, i), l \in Removing(list, d) : k < l

\* In whatever order the jobs, dependencies and chains are walked,
\* pkg_jobs_set_priorities puts every package behind the ones it depends on,
\* so that its scripts find them, and behind the removal of every package
\* whose path it takes, split off from an upgrade if need be, so that
\* pkgdb_register_pkg does not fail in the middle of the transaction.  If no
\* conflict forces them apart, packages are deleted before those they need.
JobsOrdered ==
    (pc = "done" /\ Several(jobs) /\ Acyclic) =>
        \A o \in Orders : InOrder(pkg_jobs_set_priorities(o))
============================================================================
