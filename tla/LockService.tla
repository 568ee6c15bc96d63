---------------------------- MODULE LockService ----------------------------
(***************************************************************************)
(* What the lock on local.sqlite promises to the commands that use it,     *)
(* whatever tables and statements it is made of.  A process changes the    *)
(* locks it holds itself and nobody else's; it may rob others of theirs    *)
(* (pkgdb_reset_lock, and releases of a lock that is not one's own), but   *)
(* the processes nobody robbed hold compatible locks at every moment.      *)
(***************************************************************************)
CONSTANT Proc

VARIABLES
    held,   \* the locks granted to each process
    robbed  \* live processes whose lock another one took away

Locks == {"R", "A", "X"}            \* READONLY, ADVISORY, EXCLUSIVE

Compatible(g, h) ==
    /\ "X" \in g => h = {}
    /\ "X" \in h => g = {}
    /\ ~("A" \in g /\ "A" \in h)

Init ==
    /\ held = [p \in Proc |-> {}]
    /\ robbed = {}

\* A call of a lock function changes what p holds.
Change(p) ==
    /\ \E h \in SUBSET Locks : held' = [held EXCEPT ![p] = h]
    /\ \E victims \in SUBSET (Proc \ {p}) : robbed' = robbed \cup victims
    /\ \A q, r \in Proc \ robbed' : q # r => Compatible(held'[q], held'[r])

\* p is gone.
Leave(p) ==
    /\ held' = [held EXCEPT ![p] = {}]
    /\ robbed' = robbed \ {p}

Next == \E p \in Proc : Change(p) \/ Leave(p)

Spec == Init /\ [][Next]_<<held, robbed>>
=============================================================================
