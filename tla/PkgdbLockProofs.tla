-------------------------- MODULE PkgdbLockProofs --------------------------
(***************************************************************************)
(* Proofs about PkgdbLock, for any set of processes, any options and any   *)
(* number of commands, crashes and failed statements.                      *)
(***************************************************************************)
EXTENDS PkgdbLock, FiniteSetTheorems, TLAPS

---------------------------------------------------------------------------
(* Types.                                                                  *)

\* unlock_sql is run only for one of the three plain locks.
UnlockRequest == \A p \in Proc : pc[p] = "unlock" => req[p] \in Locks

TypeInv == TypeOK /\ UnlockRequest

\* The lock is free at first.
LEMMA InitType == Init => TypeInv
<1> SUFFICES ASSUME Init PROVE TypeInv
  OBVIOUS
<1>1. /\ row \in [exclusive : {0, 1}, advisory : {0, 1}, read : Nat]
      /\ started \in 0 .. MaxStarts
      /\ failures \in 0 .. MaxFailures
      /\ rounds \in [Proc -> 0 .. Packages]
      /\ tries \in [Proc -> 0 .. LOCK_RETRIES]
  BY LockAssumption DEF Init, Unlocked
<1>2. /\ pids \in SUBSET Proc
      /\ pc \in [Proc -> CallPc \cup {"body", "exited"}]
      /\ cmd \in [Proc -> AllCommands]
      /\ stage \in [Proc -> Stages]
      /\ req \in [Proc -> Requests]
      /\ held \in [Proc -> SUBSET Locks]
      /\ robbed \in SUBSET Proc
      /\ mishap \in BOOLEAN
  BY Zenon DEF Init, AllCommands, CallPc, Stages, Requests, Locks
<1>3. UnlockRequest
  BY DEF Init, UnlockRequest
<1> QED
  BY <1>1, <1>2, <1>3 DEF TypeInv, TypeOK

\* Every step keeps the types.
LEMMA NextType == TypeInv /\ [Next]_vars => TypeInv'
<1> SUFFICES ASSUME TypeInv, [Next]_vars PROVE TypeInv'
  OBVIOUS
<1> USE DEF TypeInv, TypeOK, UnlockRequest, CallPc, Stages, Requests, Locks
<1>1. CASE UNCHANGED vars
  BY <1>1 DEF vars
<1>2. ASSUME NEW p \in Proc, NEW c \in Commands, Start(p, c) PROVE TypeInv'
  BY <1>2, LockAssumption DEF Start, BaseLock, AllCommands
<1>3. ASSUME NEW p \in Proc, Upgrade(p) PROVE TypeInv'
  BY <1>3, LockAssumption DEF Upgrade
<1>4. ASSUME NEW p \in Proc, EndExecute(p) PROVE TypeInv'
  BY <1>4, LockAssumption DEF EndExecute
<1>5. ASSUME NEW p \in Proc, Finish(p) PROVE TypeInv'
  BY <1>5 DEF Finish, Exit, BaseLock
<1>6. ASSUME NEW p \in Proc, UpdateGranted(p) PROVE TypeInv'
  <2>1. Granted(req[p]) \in
          [exclusive : {0, 1}, advisory : {0, 1}, read : Nat]
    <3>1. CASE req[p] = "R"
      BY <3>1 DEF Granted
    <3>2. CASE req[p] = "A"
      BY <3>2 DEF Granted
    <3>3. CASE req[p] = "X"
      BY <3>3 DEF Granted
    <3>4. CASE req[p] = "AX"
      BY <3>4 DEF Granted
    <3>5. CASE req[p] = "XA"
      BY <3>5 DEF Granted
    <3> QED
      BY <3>1, <3>2, <3>3, <3>4, <3>5
  <2>2. HeldAfter(held[p], req[p]) \in SUBSET Locks
    BY DEF HeldAfter
  <2>3. RobbedByGrant(p, req[p]) \in SUBSET Proc
    BY DEF RobbedByGrant, Holders
  <2> QED
    BY <1>6, <2>1, <2>2, <2>3 DEF UpdateGranted, Rob, ReturnOk
<1>7. ASSUME NEW p \in Proc, UpdateRefused(p) PROVE TypeInv'
  BY <1>7 DEF UpdateRefused
<1>8. ASSUME NEW p \in Proc, UpdateReadonly(p) PROVE TypeInv'
  BY <1>8 DEF UpdateReadonly, ReturnOk
<1>9. ASSUME NEW p \in Proc, CheckFound(p) PROVE TypeInv'
  BY <1>9, LockAssumption DEF CheckFound, Retry, ReturnError, Exit
<1>10. ASSUME NEW p \in Proc, CheckEnd(p) PROVE TypeInv'
  BY <1>10 DEF CheckEnd
<1>11. ASSUME NEW p \in Proc, Reset(p) PROVE TypeInv'
  BY <1>11 DEF Reset, Rob, RobbedByReset, Unlocked
<1>12. ASSUME NEW p \in Proc, Drop(p) PROVE TypeInv'
  BY <1>12, LockAssumption DEF Drop
<1>13. ASSUME NEW p \in Proc, WritePid(p) PROVE TypeInv'
  BY <1>13 DEF WritePid, ReturnError, ReturnOk, Exit
<1>14. ASSUME NEW p \in Proc, Unlock(p) PROVE TypeInv'
  <2>1. req[p] \in Locks
    BY <1>14 DEF Unlock
  <2>2. Released(req[p]) \in
          [exclusive : {0, 1}, advisory : {0, 1}, read : Nat]
    <3>1. CASE req[p] = "R"
      <4>1. row.read \in Nat /\ row.read > 0
        BY <1>14, <3>1 DEF Unlock, Releasable
      <4> QED
        BY <3>1, <4>1 DEF Released
    <3>2. CASE req[p] = "A"
      BY <3>2 DEF Released
    <3>3. CASE req[p] = "X"
      BY <3>3 DEF Released
    <3> QED
      BY <2>1, <3>1, <3>2, <3>3
  <2>3. RobbedByRelease(p, req[p]) \in SUBSET Proc
    BY DEF RobbedByRelease, Holders
  <2> QED
    BY <1>14, <2>2, <2>3 DEF Unlock, Rob
<1>15. ASSUME NEW p \in Proc, UnlockEnd(p) PROVE TypeInv'
  BY <1>15 DEF UnlockEnd, ReturnRelease, Exit
<1>16. ASSUME NEW p \in Proc, RemovePid(p) PROVE TypeInv'
  BY <1>16 DEF RemovePid, ReturnRelease, Exit
<1>17. ASSUME NEW p \in Proc, StatementFails(p) PROVE TypeInv'
  BY <1>17, LockAssumption
     DEF StatementFails, ReturnError, ReturnRelease, Retry, Exit
<1>18. ASSUME NEW p \in Proc, Crash(p) PROVE TypeInv'
  BY <1>18, LockAssumption DEF Crash, Exit
<1> QED
  BY <1>1, <1>2, <1>3, <1>4, <1>5, <1>6, <1>7, <1>8, <1>9, <1>10, <1>11,
     <1>12, <1>13, <1>14, <1>15, <1>16, <1>17, <1>18 DEF Next, CallStep

\* Every reachable state is well typed; in particular the read counter of
\* pkg_lock never goes below zero and no process tries more often than
\* LOCK_RETRIES allows.
THEOREM TypeCorrect == Spec => []TypeOK
<1>1. TypeInv => TypeOK
  BY DEF TypeInv
<1> QED
  BY <1>1, InitType, NextType, PTL DEF Spec

---------------------------------------------------------------------------
(* Exclusion.  Both properties need each other: a grant respects a holder  *)
(* because the row covers the holder, and the row covers the holders after *)
(* a conversion or a release because no two of them share a bit.           *)

LockInv == RowCoversHolders /\ ExclusionUnlessRobbed

\* There are finitely many holders.
LEMMA HoldersFinite ==
    ASSUME NEW l
    PROVE  /\ IsFiniteSet(Holders(l))
           /\ Cardinality(Holders(l)) \in Nat
           /\ Cardinality(Holders(l)) = 0 <=> Holders(l) = {}
<1>1. Holders(l) \subseteq Proc
  BY DEF Holders
<1>2. IsFiniteSet(Holders(l))
  BY <1>1, FS_Subset, LockAssumption
<1> QED
  BY <1>2, FS_CardinalityType, FS_EmptySet

\* A process that is gone takes its locks and its place in robbed with it;
\* the row may say more than its holders need.
LEMMA ExitKeepsLock ==
    ASSUME NEW p \in Proc, TypeInv, LockInv, Exit(p), row' = row
    PROVE  LockInv'
<1> USE DEF TypeInv, TypeOK
<1>1. \A q \in Proc : /\ held'[q] = IF q = p THEN {} ELSE held[q]
                      /\ q # p => (q \in robbed' <=> q \in robbed)
  BY DEF Exit
<1>2. \A l : Holders(l)' = Holders(l) \ {p}
  BY <1>1 DEF Holders
<1>3. Cardinality(Holders("R") \ {p}) <= Cardinality(Holders("R"))
  BY HoldersFinite, FS_Subset
<1>4. Cardinality(Holders("R") \ {p}) \in Nat
  BY HoldersFinite, FS_Subset, FS_CardinalityType
<1>5. RowCoversHolders'
  BY <1>2, <1>3, <1>4, HoldersFinite DEF LockInv, RowCoversHolders
<1>6. ExclusionUnlessRobbed'
  BY <1>1 DEF LockInv, ExclusionUnlessRobbed, Compatible
<1> QED
  BY <1>5, <1>6 DEF LockInv

\* lock_sql.
LEMMA GrantKeepsLock ==
    ASSUME NEW p \in Proc, TypeInv, LockInv, UpdateGranted(p)
    PROVE  LockInv'
<1> USE DEF TypeInv, TypeOK
<1> DEFINE victims == RobbedByGrant(p, req[p])
<1>1. /\ Grantable(req[p]) /\ row' = Granted(req[p])
      /\ robbed' = robbed \cup victims
      /\ \A q \in Proc : held'[q] =
            IF q = p THEN HeldAfter(held[p], req[p]) ELSE held[q]
  BY DEF UpdateGranted, Rob
<1>2. row.read >= Cardinality(Holders("R"))
  BY DEF LockInv, RowCoversHolders
<1>3. row.exclusive = 0 => Holders("X") = {}
  BY DEF LockInv, RowCoversHolders
<1>4. row.advisory = 0 => Holders("A") = {}
  BY DEF LockInv, RowCoversHolders
<1>5. row.read = 0 => Holders("R") = {}
  BY <1>2, HoldersFinite
<1>6. CASE req[p] = "R"
  <2>1. /\ row.exclusive = 0 /\ row' = [row EXCEPT !.read = @ + 1]
        /\ robbed' = robbed
        /\ \A q \in Proc : held'[q] =
              IF q = p THEN held[p] \cup {"R"} ELSE held[q]
    BY <1>1, <1>6
       DEF Grantable, Granted, HeldAfter, RobbedByGrant, Locks
  <2>2. /\ Holders("X")' = Holders("X") /\ Holders("A")' = Holders("A")
        /\ Holders("R")' \subseteq Holders("R") \cup {p}
    BY <2>1 DEF Holders
  <2>3. Cardinality(Holders("R") \cup {p}) <= Cardinality(Holders("R")) + 1
    <3>1. /\ IsFiniteSet(Holders("R")) /\ Cardinality(Holders("R")) \in Nat
          /\ Cardinality(Holders("R") \cup {p}) =
               IF p \in Holders("R") THEN Cardinality(Holders("R"))
                                     ELSE Cardinality(Holders("R")) + 1
      BY HoldersFinite, FS_AddElement
    <3> QED
      BY <3>1
  <2>4. /\ IsFiniteSet(Holders("R") \cup {p})
        /\ Cardinality(Holders("R") \cup {p}) \in Nat
    BY HoldersFinite, FS_AddElement, FS_CardinalityType
  <2>5. /\ Cardinality(Holders("R")') <= Cardinality(Holders("R") \cup {p})
        /\ Cardinality(Holders("R")') \in Nat
    BY <2>2, <2>4, FS_Subset, FS_CardinalityType
  <2>6. row'.read = row.read + 1 /\ row'.exclusive = row.exclusive
        /\ row'.advisory = row.advisory
    BY <2>1
  <2>7. RowCoversHolders'
    BY <2>2, <2>3, <2>4, <2>5, <2>6, <1>2, HoldersFinite
       DEF LockInv, RowCoversHolders
  <2>8. ExclusionUnlessRobbed'
    BY <2>1, <1>3 DEF LockInv, ExclusionUnlessRobbed, Compatible, Holders
  <2> QED
    BY <2>7, <2>8 DEF LockInv
<1>7. CASE req[p] = "A"
  <2>1. /\ row.exclusive = 0 /\ row.advisory = 0
        /\ row' = [row EXCEPT !.advisory = 1]
        /\ robbed' = robbed
        /\ \A q \in Proc : held'[q] =
              IF q = p THEN held[p] \cup {"A"} ELSE held[q]
    BY <1>1, <1>7
       DEF Grantable, Granted, HeldAfter, RobbedByGrant, Locks
  <2>2. Holders("X")' = Holders("X") /\ Holders("R")' = Holders("R")
    BY <2>1 DEF Holders
  <2>3. row'.read = row.read /\ row'.exclusive = row.exclusive
        /\ row'.advisory = 1
    BY <2>1
  <2>4. RowCoversHolders'
    BY <2>2, <2>3, <1>2 DEF LockInv, RowCoversHolders
  <2>5. ExclusionUnlessRobbed'
    BY <2>1, <1>3, <1>4 DEF LockInv, ExclusionUnlessRobbed, Compatible, Holders
  <2> QED
    BY <2>4, <2>5 DEF LockInv
<1>8. CASE req[p] = "X"
  <2>1. /\ row = Unlocked
        /\ row' = [row EXCEPT !.exclusive = 1]
        /\ robbed' = robbed
        /\ \A q \in Proc : held'[q] =
              IF q = p THEN held[p] \cup {"X"} ELSE held[q]
    BY <1>1, <1>8
       DEF Grantable, Granted, HeldAfter, RobbedByGrant, Locks
  <2>2. Holders("A")' = Holders("A") /\ Holders("R")' = Holders("R")
    BY <2>1 DEF Holders
  <2>3. /\ row'.read = row.read /\ row'.exclusive = 1
        /\ row'.advisory = row.advisory
        /\ row.read = 0 /\ row.exclusive = 0 /\ row.advisory = 0
    BY <2>1 DEF Unlocked
  <2>4. RowCoversHolders'
    BY <2>2, <2>3, <1>2 DEF LockInv, RowCoversHolders
  <2>5. \A q \in Proc \ robbed : held[q] = {}
    BY <2>3, <1>3, <1>4, <1>5 DEF Holders, Locks
  <2>6. ExclusionUnlessRobbed'
    BY <2>1, <2>5 DEF ExclusionUnlessRobbed, Compatible
  <2> QED
    BY <2>4, <2>6 DEF LockInv
<1>9. CASE req[p] \in {"AX", "XA"}
  <2>1. victims = (Holders("A") \cup Holders("X")) \ {p}
    BY <1>9 DEF RobbedByGrant, Locks
  <2>2. row.read = 0 /\ row'.read = 0 /\ row'.advisory = 1
    <3>1. CASE req[p] = "AX"
      <4>1. row = [exclusive |-> 0, advisory |-> 1, read |-> 0]
        BY <1>1, <3>1 DEF Grantable, Unlocked
      <4>2. row' = [row EXCEPT !.exclusive = 1, !.advisory = 1]
        BY <1>1, <3>1 DEF Granted
      <4> QED
        BY <4>1, <4>2
    <3>2. CASE req[p] = "XA"
      <4>1. row = [exclusive |-> 1, advisory |-> 1, read |-> 0]
        BY <1>1, <3>2 DEF Grantable
      <4>2. row' = [row EXCEPT !.exclusive = 0, !.advisory = 1]
        BY <1>1, <3>2 DEF Granted
      <4> QED
        BY <4>1, <4>2
    <3> QED
      BY <1>9, <3>1, <3>2
  <2>3. \A q \in Proc \ robbed' : q # p => held'[q] = {}
    BY <1>1, <1>5, <2>1, <2>2 DEF Holders, Locks
  <2>4. "R" \in HeldAfter(held[p], req[p]) => "R" \in held[p]
    BY <1>9 DEF HeldAfter, Locks
  <2>5. Holders("R")' = {}
    BY <1>1, <1>5, <2>2, <2>3, <2>4 DEF Holders
  <2>6. Cardinality(Holders("R")') = 0
    BY <2>5, FS_EmptySet
  <2>7. Holders("X")' # {} => row'.exclusive = 1
    <3>1. CASE req[p] = "AX"
      BY <1>1, <3>1 DEF Granted
    <3>2. CASE req[p] = "XA"
      <4>1. "X" \notin HeldAfter(held[p], req[p])
        BY <3>2 DEF HeldAfter, Locks
      <4> QED
        BY <1>1, <2>3, <4>1 DEF Holders
    <3> QED
      BY <1>9, <3>1, <3>2
  <2>8. RowCoversHolders'
    BY <2>2, <2>6, <2>7 DEF RowCoversHolders
  <2>9. ExclusionUnlessRobbed'
    BY <2>3 DEF ExclusionUnlessRobbed, Compatible
  <2> QED
    BY <2>8, <2>9 DEF LockInv
<1> QED
  BY <1>6, <1>7, <1>8, <1>9 DEF Requests, Locks

\* pkgdb_reset_lock: whoever held something is robbed.
LEMMA ResetKeepsLock ==
    ASSUME NEW p \in Proc, TypeInv, LockInv, Reset(p)
    PROVE  LockInv'
<1> USE DEF TypeInv, TypeOK
<1>1. \A q \in Proc \ robbed' : held'[q] = {}
  BY DEF Reset, Rob, RobbedByReset
<1>2. \A l : Holders(l)' = {}
  BY <1>1 DEF Holders
<1>3. row'.read = 0 /\ Cardinality(Holders("R")') = 0
  BY <1>2, FS_EmptySet DEF Reset, Unlocked
<1>4. RowCoversHolders'
  BY <1>2, <1>3 DEF RowCoversHolders
<1>5. ExclusionUnlessRobbed'
  BY <1>1 DEF ExclusionUnlessRobbed, Compatible
<1> QED
  BY <1>4, <1>5 DEF LockInv

\* unlock_sql.
LEMMA ReleaseKeepsLock ==
    ASSUME NEW p \in Proc, TypeInv, LockInv, Unlock(p)
    PROVE  LockInv'
<1> USE DEF TypeInv, TypeOK
<1>0. PICK l \in Locks : l = req[p]
  BY DEF Unlock, UnlockRequest
<1>v. PICK victims : victims = RobbedByRelease(p, l)
  OBVIOUS
<1>1. /\ Releasable(l) /\ row' = Released(l)
      /\ robbed' = robbed \cup victims
      /\ \A q \in Proc : held'[q] = IF q = p THEN held[p] \ {l} ELSE held[q]
  BY <1>0, <1>v DEF Unlock, Rob
<1>2. \A m : Holders(m)' \subseteq Holders(m)
  BY <1>1 DEF Holders
<1>3. Holders(l)' = Holders(l) \ ({p} \cup victims)
  BY <1>1 DEF Holders
<1>4. /\ Cardinality(Holders("R")') <= Cardinality(Holders("R"))
      /\ Cardinality(Holders("R")') \in Nat
  BY <1>2, HoldersFinite, FS_Subset, FS_CardinalityType
<1>5. ExclusionUnlessRobbed'
  BY <1>1 DEF LockInv, ExclusionUnlessRobbed, Compatible
<1>6. CASE l = "R"
  <2>1. row.read > 0 /\ row' = [row EXCEPT !.read = @ - 1]
    BY <1>1, <1>6 DEF Releasable, Released
  <2>2. /\ row'.read = row.read - 1 /\ row'.exclusive = row.exclusive
        /\ row'.advisory = row.advisory
    BY <2>1
  <2>3. /\ IsFiniteSet(Holders("R") \ {p})
        /\ Cardinality(Holders("R") \ {p}) \in Nat
    BY HoldersFinite, FS_Subset, FS_CardinalityType
  <2>4. row'.read >= Cardinality(Holders("R")')
    <3>1. CASE row.read - 1 < Cardinality(Holders("R") \ {p})
      <4>1. Holders("R")' = {}
        BY <1>3, <1>6, <1>v, <3>1 DEF RobbedByRelease
      <4>2. Cardinality(Holders("R")') = 0
        BY <4>1, FS_EmptySet
      <4> QED
        BY <2>1, <2>2, <4>2
    <3>2. CASE ~(row.read - 1 < Cardinality(Holders("R") \ {p}))
      <4>1. Holders("R")' = Holders("R") \ {p}
        BY <1>3, <1>6, <1>v, <3>2 DEF RobbedByRelease
      <4>2. Cardinality(Holders("R")') = Cardinality(Holders("R") \ {p})
        BY <4>1
      <4> QED
        BY <2>1, <2>2, <2>3, <3>2, <4>2
    <3> QED
      BY <3>1, <3>2
  <2> QED
    BY <1>2, <1>5, <2>2, <2>4 DEF LockInv, RowCoversHolders
<1>7. CASE l \in {"A", "X"}
  <2>1. Holders(l)' = {}
    BY <1>3, <1>7, <1>v DEF RobbedByRelease
  <2>2. /\ row'.read = row.read
        /\ l # "X" => row'.exclusive = row.exclusive
        /\ l # "A" => row'.advisory = row.advisory
    <3>1. CASE l = "A"
      BY <1>1, <3>1 DEF Released
    <3>2. CASE l = "X"
      BY <1>1, <3>2 DEF Released
    <3> QED
      BY <1>7, <3>1, <3>2
  <2> QED
    BY <1>2, <1>4, <1>5, <1>7, <2>1, <2>2, HoldersFinite
       DEF LockInv, RowCoversHolders
<1> QED
  BY <1>6, <1>7 DEF Locks

\* At first nobody holds the lock.
LEMMA InitLock == Init => LockInv
<1> SUFFICES ASSUME Init PROVE LockInv
  OBVIOUS
<1>1. \A l : Holders(l) = {}
  BY DEF Init, Holders
<1>2. RowCoversHolders
  BY <1>1, FS_EmptySet DEF RowCoversHolders, Init, Unlocked
<1>3. ExclusionUnlessRobbed
  BY DEF ExclusionUnlessRobbed, Compatible, Init
<1> QED
  BY <1>2, <1>3 DEF LockInv

\* Every statement keeps the row in step with the holders.
LEMMA NextLock == TypeInv /\ LockInv /\ [Next]_vars => LockInv'
<1> SUFFICES ASSUME TypeInv, LockInv, [Next]_vars PROVE LockInv'
  OBVIOUS
<1>1. CASE UNCHANGED <<row, held, robbed>>
  BY <1>1 DEF LockInv, RowCoversHolders, ExclusionUnlessRobbed, Compatible,
              Holders
<1>2. ASSUME NEW p \in Proc, Exit(p), row' = row PROVE LockInv'
  BY <1>2, ExitKeepsLock
<1>3. ASSUME NEW p \in Proc, Upgrade(p) \/ EndExecute(p) \/ UpdateRefused(p)
                              \/ UpdateReadonly(p) \/ CheckEnd(p) \/ Drop(p)
      PROVE  LockInv'
  BY <1>1, <1>3
     DEF Upgrade, EndExecute, UpdateRefused, UpdateReadonly, CheckEnd, Drop
<1>4. ASSUME NEW p \in Proc, NEW c \in Commands, Start(p, c) PROVE LockInv'
  BY <1>1, <1>4 DEF Start
<1>5. ASSUME NEW p \in Proc, CheckFound(p) \/ WritePid(p) \/ UnlockEnd(p)
                              \/ RemovePid(p) \/ StatementFails(p)
                              \/ Crash(p) \/ Finish(p)
      PROVE  LockInv'
  <2>1. row' = row /\ (UNCHANGED <<held, robbed>> \/ Exit(p))
    BY <1>5 DEF CheckFound, WritePid, UnlockEnd, RemovePid, StatementFails,
                Crash, Finish, Retry, ReturnError, ReturnRelease
  <2> QED
    BY <1>1, <1>2, <2>1
<1>6. ASSUME NEW p \in Proc, UpdateGranted(p) \/ Reset(p) \/ Unlock(p)
      PROVE  LockInv'
  BY <1>6, GrantKeepsLock, ResetKeepsLock, ReleaseKeepsLock
<1> QED
  BY <1>1, <1>3, <1>4, <1>5, <1>6 DEF Next, CallStep, vars

\* Processes whose lock nobody took away never hold incompatible locks,
\* whatever interleaving of the statements, crashes and retries happens.
THEOREM Exclusion == Spec => []ExclusionUnlessRobbed
<1>1. LockInv => ExclusionUnlessRobbed
  BY DEF LockInv
<1> QED
  BY <1>1, InitType, NextType, InitLock, NextLock, PTL DEF Spec

\* The row of pkg_lock covers every holder nobody robbed.
THEOREM RowCovers == Spec => []RowCoversHolders
<1>1. LockInv => RowCoversHolders
  BY DEF LockInv
<1> QED
  BY <1>1, InitType, NextType, InitLock, NextLock, PTL DEF Spec

---------------------------------------------------------------------------
(* The lock service.                                                       *)

\* A process that is gone has left the service.
LEMMA ExitLeaves ==
    ASSUME NEW p \in Proc, Exit(p)
    PROVE  Service!Leave(p)
BY DEF Exit, Service!Leave

\* A statement that changes the locks of p alone is a call of the service.
LEMMA StatementChanges ==
    ASSUME NEW p \in Proc, NEW h \in SUBSET Locks,
           NEW victims \in SUBSET (Proc \ {p}),
           held' = [held EXCEPT ![p] = h], robbed' = robbed \cup victims,
           ExclusionUnlessRobbed'
    PROVE  Service!Change(p)
<1>1. \E g \in SUBSET Service!Locks : held' = [held EXCEPT ![p] = g]
  BY DEF Locks, Service!Locks
<1>2. \E v \in SUBSET (Proc \ {p}) : robbed' = robbed \cup v
  OBVIOUS
<1>3. \A q, r \in Proc \ robbed' :
          q # r => Service!Compatible(held'[q], held'[r])
  BY DEF ExclusionUnlessRobbed, Compatible, Service!Compatible
<1> QED
  BY <1>1, <1>2, <1>3 DEF Service!Change

\* lock_sql, the reset and unlock_sql are calls of the service.
LEMMA StatementServes ==
    ASSUME NEW p \in Proc, TypeInv, ExclusionUnlessRobbed',
           UpdateGranted(p) \/ Reset(p) \/ Unlock(p)
    PROVE  Service!Change(p)
<1> USE DEF TypeInv, TypeOK
<1>1. CASE UpdateGranted(p)
  <2>1. HeldAfter(held[p], req[p]) \in SUBSET Locks
    BY DEF HeldAfter, Locks, Requests
  <2>2. RobbedByGrant(p, req[p]) \in SUBSET (Proc \ {p})
    BY DEF RobbedByGrant, Holders
  <2>3. /\ held' = [held EXCEPT ![p] = HeldAfter(held[p], req[p])]
        /\ robbed' = robbed \cup RobbedByGrant(p, req[p])
    BY <1>1 DEF UpdateGranted, Rob
  <2> QED
    BY <2>1, <2>2, <2>3, StatementChanges
<1>2. CASE Reset(p)
  <2>1. RobbedByReset(p) \in SUBSET (Proc \ {p})
    BY DEF RobbedByReset
  <2>2. held' = [held EXCEPT ![p] = {}] /\ robbed' = robbed \cup RobbedByReset(p)
    BY <1>2 DEF Reset, Rob
  <2>3. {} \in SUBSET Locks
    OBVIOUS
  <2> QED
    BY <2>1, <2>2, <2>3, StatementChanges
<1>3. CASE Unlock(p)
  <2>1. held[p] \ {req[p]} \in SUBSET Locks
    OBVIOUS
  <2>2. RobbedByRelease(p, req[p]) \in SUBSET (Proc \ {p})
    BY DEF RobbedByRelease, Holders
  <2>3. /\ held' = [held EXCEPT ![p] = held[p] \ {req[p]}]
        /\ robbed' = robbed \cup RobbedByRelease(p, req[p])
    BY <1>3 DEF Unlock, Rob
  <2> QED
    BY <2>1, <2>2, <2>3, StatementChanges
<1> QED
  BY <1>1, <1>2, <1>3

\* Every step of PkgdbLock is a step of the service or leaves it unchanged.
LEMMA NextServes ==
    TypeInv /\ ExclusionUnlessRobbed' /\ [Next]_vars
        => [Service!Next]_<<held, robbed>>
<1> SUFFICES ASSUME TypeInv, ExclusionUnlessRobbed', [Next]_vars
             PROVE  [Service!Next]_<<held, robbed>>
  OBVIOUS
<1>1. ASSUME NEW p \in Proc, Exit(p) PROVE [Service!Next]_<<held, robbed>>
  BY <1>1, ExitLeaves DEF Service!Next
<1>2. ASSUME NEW p \in Proc, Upgrade(p) \/ EndExecute(p) \/ UpdateRefused(p)
                              \/ UpdateReadonly(p) \/ CheckEnd(p) \/ Drop(p)
      PROVE  UNCHANGED <<held, robbed>>
  BY <1>2
     DEF Upgrade, EndExecute, UpdateRefused, UpdateReadonly, CheckEnd, Drop
<1>3. ASSUME NEW p \in Proc, NEW c \in Commands, Start(p, c)
      PROVE  UNCHANGED <<held, robbed>>
  BY <1>3 DEF Start
<1>4. ASSUME NEW p \in Proc, CheckFound(p) \/ WritePid(p) \/ UnlockEnd(p)
                              \/ RemovePid(p) \/ StatementFails(p)
                              \/ Crash(p) \/ Finish(p)
      PROVE  UNCHANGED <<held, robbed>> \/ Exit(p)
  BY <1>4 DEF CheckFound, WritePid, UnlockEnd, RemovePid, StatementFails,
              Crash, Finish, Retry, ReturnError, ReturnRelease
<1>5. ASSUME NEW p \in Proc, UpdateGranted(p) \/ Reset(p) \/ Unlock(p)
      PROVE  Service!Next
  BY <1>5, StatementServes DEF Service!Next
<1>6. CASE UNCHANGED vars
  BY <1>6 DEF vars
<1> QED
  BY <1>1, <1>2, <1>3, <1>4, <1>5, <1>6 DEF Next, CallStep

\* pkgdb_try_lock and pkgdb_release_lock implement the lock service that the
\* commands rely on, statement by statement.
THEOREM Implements == Spec => ServiceImplemented
<1>1. Init => Service!Init
  BY DEF Init, Service!Init
<1>2. LockInv => ExclusionUnlessRobbed
  BY DEF LockInv
<1> QED
  BY <1>1, <1>2, InitType, NextType, InitLock, NextLock, NextServes, PTL
     DEF Spec, ServiceImplemented, Service!Spec

---------------------------------------------------------------------------
(* Undisturbed commands.  Without a mishap the row says exactly what is    *)
(* held, and what a process holds follows from where it is.                *)

\* The commands that hold nothing while they read.
Lockless(p) == p \in Unprivileged \/ (cmd[p] = "reader" /\ ~READ_LOCK)

\* What a command holds from its first lock call to its last.
Home(p) == IF Lockless(p) THEN {} ELSE {BaseLock(cmd[p])}

Writes(p) == cmd[p] \in {"jobs", "check"}
Trying(p) == pc[p] \in {"update", "check", "reset"}

Gone(p) == pc[p] = "exited" /\ held[p] = {} /\ p \notin pids
Obtains(p) ==
    /\ stage[p] = "start" /\ p \notin pids /\ req[p] = BaseLock(cmd[p])
    /\ cmd[p] = "reader" => READ_LOCK
    /\ p \in Unprivileged => pc[p] = "update"
    /\ \/ Trying(p) /\ held[p] = {}
       \/ pc[p] = "writepid" /\ held[p] = {BaseLock(cmd[p])}
Reads(p) ==
    pc[p] = "body" /\ stage[p] \in {"granted", "finished"} /\ held[p] = Home(p)
Upgrades(p) ==
    /\ Trying(p) /\ stage[p] = "upgrading" /\ req[p] = "AX"
    /\ Writes(p) /\ held[p] = {"A"}
Executes(p) ==
    /\ stage[p] = "upgraded" /\ Writes(p)
    /\ \/ pc[p] = "body" /\ held[p] = {"A", "X"}
       \/ /\ pc[p] = "unlock" /\ cmd[p] = "jobs" /\ req[p] = "X"
          /\ held[p] = {"A", "X"}
       \/ pc[p] = "rmpid" /\ cmd[p] = "jobs" /\ held[p] = {"A"}
Downgrades(p) ==
    /\ pc[p] = "update" /\ stage[p] = "downgrading" /\ req[p] = "XA"
    /\ cmd[p] = "check" /\ held[p] = {"A", "X"}
Closes(p) ==
    /\ stage[p] = "closing" /\ (cmd[p] = "reader" => READ_LOCK)
    /\ \/ pc[p] = "unlock" /\ req[p] = BaseLock(cmd[p]) /\ held[p] = Home(p)
       \/ pc[p] = "rmpid" /\ held[p] = {}

Course(p) ==
    /\ p \in Unprivileged => cmd[p] = "reader"
    /\ Lockless(p) => p \notin pids
    /\ \/ Gone(p) \/ Obtains(p) \/ Reads(p) \/ Upgrades(p) \/ Executes(p)
       \/ Downgrades(p) \/ Closes(p)

Exact ==
    /\ robbed = {}
    /\ row.exclusive = 1 => Holders("X") # {}
    /\ row.advisory = 1 => Holders("A") # {}
    /\ row.read = Cardinality(Holders("R"))

Undisturbed == ~mishap => Exact /\ \A p \in Proc : Course(p)

\* What p does leaves the others where they are.
Moves(p) ==
    \/ \E c \in Commands : Start(p, c)
    \/ Upgrade(p) \/ EndExecute(p) \/ Finish(p)
    \/ UpdateGranted(p) \/ UpdateRefused(p) \/ UpdateReadonly(p)
    \/ CheckFound(p) \/ CheckEnd(p) \/ Drop(p) \/ WritePid(p)
    \/ Unlock(p) \/ UnlockEnd(p) \/ RemovePid(p)

\* A reset, a failed statement and a crash are remembered as a mishap.
LEMMA MishapsAreNoted ==
    ASSUME TypeInv, Next, ~mishap'
    PROVE  ~mishap /\ \E p \in Proc : Moves(p)
<1>1. PICK p \in Proc : \/ \E c \in Commands : Start(p, c)
                        \/ Upgrade(p) \/ EndExecute(p) \/ Finish(p)
                        \/ CallStep(p) \/ StatementFails(p) \/ Crash(p)
  BY DEF Next
<1>2. ~Reset(p) /\ ~StatementFails(p) /\ ~Crash(p)
  BY DEF Reset, StatementFails, Crash
<1>3. Moves(p)
  BY <1>1, <1>2 DEF CallStep, Moves
<1>4. mishap' = mishap
  BY <1>3 DEF Moves, Start, Upgrade, EndExecute, Finish, UpdateGranted,
              UpdateRefused, UpdateReadonly, CheckFound, CheckEnd, Drop,
              WritePid, Unlock, UnlockEnd, RemovePid
<1> QED
  BY <1>3, <1>4

\* What the course of a command depends on.
LEMMA CourseKept ==
    ASSUME NEW q \in Proc, Course(q), pc'[q] = pc[q], held'[q] = held[q],
           stage'[q] = stage[q], cmd'[q] = cmd[q], req'[q] = req[q],
           q \in pids' => q \in pids
    PROVE  Course(q)'
<1>1. Lockless(q)' = Lockless(q) /\ Home(q)' = Home(q)
  BY DEF Lockless, Home
<1>2. Writes(q)' = Writes(q) /\ Trying(q)' = Trying(q)
  BY DEF Writes, Trying
<1>3. Gone(q) => Gone(q)'
  BY DEF Gone
<1>4. Obtains(q) => Obtains(q)'
  BY <1>1, <1>2 DEF Obtains
<1>5. Reads(q) => Reads(q)'
  BY <1>1 DEF Reads
<1>6. Upgrades(q) => Upgrades(q)'
  BY <1>1, <1>2 DEF Upgrades
<1>7. Executes(q) => Executes(q)'
  BY <1>1, <1>2 DEF Executes
<1>8. Downgrades(q) => Downgrades(q)'
  BY <1>1, <1>2 DEF Downgrades
<1>9. Closes(q) => Closes(q)'
  BY <1>1 DEF Closes
<1> QED
  BY <1>1, <1>3, <1>4, <1>5, <1>6, <1>7, <1>8, <1>9 DEF Course

\* The other processes do not notice a step.
LEMMA OthersKeepCourse ==
    ASSUME TypeInv, NEW p \in Proc, Moves(p), NEW q \in Proc, q # p, Course(q)
    PROVE  Course(q)'
<1> USE DEF TypeInv, TypeOK
<1>1. pc'[q] = pc[q] /\ held'[q] = held[q]
  BY DEF Moves, Start, Upgrade, EndExecute, Finish, UpdateGranted,
         UpdateRefused, UpdateReadonly, CheckFound, CheckEnd, Drop, WritePid,
         Unlock, UnlockEnd, RemovePid, Exit, ReturnOk, ReturnError,
         ReturnRelease, Retry
<1>2. stage'[q] = stage[q]
  BY DEF Moves, Start, Upgrade, EndExecute, Finish, UpdateGranted,
         UpdateRefused, UpdateReadonly, CheckFound, CheckEnd, Drop, WritePid,
         Unlock, UnlockEnd, RemovePid, Exit, ReturnOk, ReturnError,
         ReturnRelease, Retry
<1>3. cmd'[q] = cmd[q] /\ req'[q] = req[q]
  BY DEF Moves, Start, Upgrade, EndExecute, Finish, UpdateGranted,
         UpdateRefused, UpdateReadonly, CheckFound, CheckEnd, Drop, WritePid,
         Unlock, UnlockEnd, RemovePid
<1>4. q \in pids' => q \in pids
  BY DEF Moves, Start, Upgrade, EndExecute, Finish, UpdateGranted,
         UpdateRefused, UpdateReadonly, CheckFound, CheckEnd, Drop, WritePid,
         Unlock, UnlockEnd, RemovePid
<1> QED
  BY <1>1, <1>2, <1>3, <1>4, CourseKept

\* A process that holds X, or the one that holds A, is the only one to do so.
LEMMA OnlyHolder ==
    ASSUME LockInv, Exact, NEW p \in Proc
    PROVE  /\ "X" \in held[p] => \A q \in Proc : q # p => held[q] = {}
           /\ "A" \in held[p] => Holders("A") \cup Holders("X") \subseteq {p}
           /\ \A l : p \in Holders(l) <=> l \in held[p]
BY DEF LockInv, ExclusionUnlessRobbed, Compatible, Exact, Holders

\* The row is exact as long as neither it nor what is held changes.
LEMMA ExactKept ==
    ASSUME Exact, row' = row, robbed' = {},
           \A q \in Proc : held'[q] = held[q]
    PROVE  Exact'
<1>1. \A l : Holders(l)' = Holders(l)
  BY DEF Holders, Exact
<1> QED
  BY <1>1 DEF Exact

\* lock_sql keeps it exact...
LEMMA GrantIsExact ==
    ASSUME TypeInv, LockInv, Exact, NEW p \in Proc, UpdateGranted(p),
           \/ req[p] \in Locks /\ held[p] = {}
           \/ req[p] = "AX" /\ held[p] = {"A"}
           \/ req[p] = "XA" /\ held[p] = {"A", "X"}
    PROVE  Exact' /\ held'[p] = HeldAfter(held[p], req[p])
<1>1. PICK r \in Requests : r = req[p]
  BY DEF TypeInv, TypeOK
<1>2. /\ row' = Granted(r) /\ robbed' = robbed \cup RobbedByGrant(p, r)
      /\ \A q \in Proc : held'[q] = IF q = p THEN HeldAfter(held[p], r)
                                             ELSE held[q]
  BY <1>1 DEF UpdateGranted, Rob, TypeInv, TypeOK
<1>3. RobbedByGrant(p, r) = {}
  BY <1>1, OnlyHolder DEF RobbedByGrant, Locks, Requests
<1>4. robbed' = {} /\ robbed = {}
  BY <1>2, <1>3 DEF Exact
<1>5. SUFFICES Exact'
  BY <1>1, <1>2
<1>6. CASE r = "R"
  <2>1. /\ row'.read = row.read + 1 /\ row'.exclusive = row.exclusive
        /\ row'.advisory = row.advisory
    BY <1>2, <1>6 DEF Granted, TypeInv, TypeOK
  <2>2. HeldAfter(held[p], r) = {"R"}
    BY <1>1, <1>6 DEF HeldAfter, Locks
  <2>3. /\ Holders("R")' = Holders("R") \cup {p} /\ p \notin Holders("R")
        /\ Holders("A")' = Holders("A") /\ Holders("X")' = Holders("X")
    BY <1>1, <1>2, <1>4, <1>6, <2>2 DEF Holders, Locks
  <2>4. Cardinality(Holders("R")') = Cardinality(Holders("R")) + 1
    BY <2>3, HoldersFinite, FS_AddElement
  <2> QED
    BY <1>4, <2>1, <2>3, <2>4 DEF Exact
<1>7. CASE r # "R"
  <2>1. row'.read = row.read
    BY <1>1, <1>2, <1>7 DEF Granted, Requests, Locks, TypeInv, TypeOK
  <2>2. /\ r \in {"A", "X"} => HeldAfter(held[p], r) = {r} /\ held[p] = {}
        /\ r = "AX" => HeldAfter(held[p], r) = {"A", "X"} /\ held[p] = {"A"}
        /\ r = "XA" => HeldAfter(held[p], r) = {"A"} /\ held[p] = {"A", "X"}
    BY <1>1, <1>7 DEF HeldAfter, Locks, Requests
  <2>3. Holders("R")' = Holders("R")
    BY <1>1, <1>2, <1>4, <1>7, <2>2 DEF Holders, Requests, Locks
  <2>4. CASE r = "A"
    <3>1. row'.exclusive = row.exclusive
      BY <1>2, <2>4 DEF Granted, TypeInv, TypeOK
    <3>2. p \in Holders("A")' /\ Holders("X")' = Holders("X")
      BY <1>2, <1>4, <2>2, <2>4 DEF Holders
    <3> QED
      BY <1>4, <2>1, <2>3, <3>1, <3>2 DEF Exact
  <2>5. CASE r = "X"
    <3>1. row'.advisory = row.advisory
      BY <1>2, <2>5 DEF Granted, TypeInv, TypeOK
    <3>2. p \in Holders("X")' /\ Holders("A")' = Holders("A")
      BY <1>2, <1>4, <2>2, <2>5 DEF Holders
    <3> QED
      BY <1>4, <2>1, <2>3, <3>1, <3>2 DEF Exact
  <2>6. CASE r = "AX"
    <3>1. p \in Holders("X")' /\ p \in Holders("A")'
      BY <1>2, <1>4, <2>2, <2>6 DEF Holders
    <3> QED
      BY <1>4, <2>1, <2>3, <3>1 DEF Exact
  <2>7. CASE r = "XA"
    <3>1. row'.exclusive = 0
      BY <1>2, <2>7 DEF Granted, TypeInv, TypeOK
    <3>2. p \in Holders("A")'
      BY <1>2, <1>4, <2>2, <2>7 DEF Holders
    <3> QED
      BY <1>4, <2>1, <2>3, <3>1, <3>2 DEF Exact
  <2> QED
    BY <1>7, <2>4, <2>5, <2>6, <2>7 DEF Requests, Locks
<1> QED
  BY <1>6, <1>7

\* ... and so does unlock_sql.
LEMMA ReleaseIsExact ==
    ASSUME TypeInv, LockInv, Exact, NEW p \in Proc, Unlock(p),
           req[p] \in held[p]
    PROVE  Exact' /\ held'[p] = held[p] \ {req[p]}
<1> USE DEF TypeInv, TypeOK
<1>1. PICK l \in Locks : l = req[p]
  BY DEF Unlock, UnlockRequest
<1>2. PICK v : v = RobbedByRelease(p, l)
  OBVIOUS
<1>3. /\ row' = Released(l) /\ robbed' = robbed \cup v
      /\ \A q \in Proc : held'[q] = IF q = p THEN held[p] \ {l} ELSE held[q]
  BY <1>1, <1>2 DEF Unlock, Rob
<1>4. /\ Cardinality(Holders("R") \ {p}) =
            IF p \in Holders("R") THEN Cardinality(Holders("R")) - 1
                                  ELSE Cardinality(Holders("R"))
      /\ Cardinality(Holders("R")) \in Nat
  BY HoldersFinite, FS_RemoveElement
<1>5. v = {}
  <2>1. CASE l = "R"
    BY <1>1, <1>2, <1>4, <2>1, OnlyHolder DEF RobbedByRelease, Exact
  <2>2. CASE l # "R"
    BY <1>1, <1>2, <2>2, OnlyHolder DEF RobbedByRelease, Locks, Holders
  <2> QED
    BY <2>1, <2>2
<1>6. robbed' = {} /\ robbed = {}
  BY <1>3, <1>5 DEF Exact
<1>7. /\ Holders(l)' = Holders(l) \ {p} /\ p \in Holders(l)
      /\ \A m : m # l => Holders(m)' = Holders(m)
  BY <1>1, <1>3, <1>6 DEF Holders
<1>8. CASE l = "R"
  <2>1. /\ row'.read = row.read - 1 /\ row'.exclusive = row.exclusive
        /\ row'.advisory = row.advisory
    BY <1>3, <1>8 DEF Released
  <2> QED
    BY <1>1, <1>3, <1>4, <1>6, <1>7, <1>8, <2>1 DEF Exact
<1>9. CASE l = "A"
  <2>1. /\ row'.read = row.read /\ row'.exclusive = row.exclusive
        /\ row'.advisory = 0
    BY <1>3, <1>9 DEF Released
  <2> QED
    BY <1>1, <1>3, <1>6, <1>7, <1>9, <2>1 DEF Exact
<1>10. CASE l = "X"
  <2>1. /\ row'.read = row.read /\ row'.advisory = row.advisory
        /\ row'.exclusive = 0
    BY <1>3, <1>10 DEF Released
  <2> QED
    BY <1>1, <1>3, <1>6, <1>7, <1>10, <2>1 DEF Exact
<1> QED
  BY <1>8, <1>9, <1>10 DEF Locks

\* A holder finds its lock in the row.
LEMMA HeldIsReleasable ==
    ASSUME TypeInv, LockInv, Exact, NEW p \in Proc, NEW l \in held[p]
    PROVE  Releasable(l)
<1>1. p \in Holders(l) /\ l \in Locks
  BY OnlyHolder DEF TypeInv, TypeOK
<1>2. Cardinality(Holders("R")) = 0 <=> Holders("R") = {}
  BY HoldersFinite
<1>3. row.read \in Nat
  BY DEF TypeInv, TypeOK
<1>4. CASE l = "R"
  <2>1. row.read = Cardinality(Holders("R")) /\ row.read # 0
    BY <1>1, <1>2, <1>4 DEF Exact
  <2> QED
    BY <1>3, <1>4, <2>1 DEF Releasable
<1>5. CASE l = "A"
  BY <1>1, <1>5 DEF LockInv, RowCoversHolders, Releasable
<1>6. CASE l = "X"
  BY <1>1, <1>6 DEF LockInv, RowCoversHolders, Releasable
<1> QED
  BY <1>1, <1>4, <1>5, <1>6 DEF Locks

\* A downgrade of the lock one has is never refused.
LEMMA DowngradeGranted ==
    ASSUME TypeInv, LockInv, Exact, NEW p \in Proc, held[p] = {"A", "X"}
    PROVE  Grantable("XA")
<1>1. p \in Holders("A") /\ p \in Holders("X")
  BY OnlyHolder
<1>2. Holders("R") = {}
  BY OnlyHolder DEF Holders
<1>3. row.read = 0
  BY <1>2, FS_EmptySet DEF Exact
<1>4. row.exclusive = 1 /\ row.advisory = 1
  BY <1>1 DEF LockInv, RowCoversHolders
<1>5. row \in [exclusive : {0, 1}, advisory : {0, 1}, read : Nat]
  BY DEF TypeInv, TypeOK
<1>6. row = [exclusive |-> 1, advisory |-> 1, read |-> 0]
  BY <1>3, <1>4, <1>5
<1> QED
  BY <1>6 DEF Grantable

\* Where a process is when the pc says so.
LEMMA CourseIs ==
    ASSUME NEW p \in Proc, Course(p)
    PROVE  /\ pc[p] = "exited" => Gone(p)
           /\ pc[p] = "body" => Reads(p) \/ Executes(p)
           /\ pc[p] \in {"check", "reset"} => Obtains(p) \/ Upgrades(p)
           /\ pc[p] = "update" => Obtains(p) \/ Upgrades(p) \/ Downgrades(p)
           /\ pc[p] = "writepid" => Obtains(p)
           /\ pc[p] \in {"unlock", "rmpid"} => Executes(p) \/ Closes(p)
           /\ pc[p] # "drop"
           /\ Writes(p) => ~Lockless(p) /\ Home(p) = {"A"}
BY DEF Course, Gone, Obtains, Reads, Upgrades, Executes, Downgrades, Closes,
       Trying, Writes, Lockless, Home, BaseLock

\* A command starts.
LEMMA StartCourse ==
    ASSUME TypeInv, NEW p \in Proc, NEW c \in Commands, Course(p), Start(p, c)
    PROVE  Course(p)' /\ UNCHANGED <<row, held, robbed>>
<1>1. held[p] = {} /\ p \notin pids /\ UNCHANGED <<row, held, robbed, pids>>
  BY CourseIs DEF Start, Gone
<1>2. /\ cmd'[p] = c /\ req'[p] = BaseLock(c)
      /\ p \in Unprivileged => c = "reader"
      /\ IF c = "reader" /\ ~READ_LOCK
         THEN pc'[p] = "body" /\ stage'[p] = "granted"
         ELSE pc'[p] = "update" /\ stage'[p] = "start"
  BY DEF Start, TypeInv, TypeOK
<1>3. CASE c = "reader" /\ ~READ_LOCK
  <2>1. Reads(p)'
    BY <1>1, <1>2, <1>3 DEF Reads, Home, Lockless
  <2> QED
    BY <1>1, <1>2, <2>1 DEF Course
<1>4. CASE ~(c = "reader" /\ ~READ_LOCK)
  <2>1. Obtains(p)'
    BY <1>1, <1>2, <1>4 DEF Obtains, Trying
  <2> QED
    BY <1>1, <1>2, <2>1 DEF Course
<1> QED
  BY <1>1, <1>3, <1>4 DEF Start

\* The command itself: it wants to write, has written, or ends.
LEMMA BodyCourse ==
    ASSUME TypeInv, NEW p \in Proc, Course(p),
           Upgrade(p) \/ EndExecute(p) \/ Finish(p)
    PROVE  /\ Course(p)' /\ row' = row /\ pids' = pids
           /\ \/ UNCHANGED <<held, robbed>>
              \/ Exit(p) /\ held[p] = {}
<1>1. cmd' = cmd /\ pids' = pids /\ row' = row
  BY DEF Upgrade, EndExecute, Finish
<1>2. CASE Upgrade(p)
  <2>1. Reads(p) /\ stage[p] = "granted" /\ Writes(p) /\ held[p] = {"A"}
    BY <1>2, CourseIs DEF Upgrade, Reads, Executes, Writes
  <2>2. /\ pc'[p] = "update" /\ stage'[p] = "upgrading" /\ req'[p] = "AX"
        /\ UNCHANGED <<held, robbed>>
    BY <1>2 DEF Upgrade, TypeInv, TypeOK
  <2>3. Upgrades(p)'
    BY <1>1, <2>1, <2>2 DEF Upgrades, Trying, Writes
  <2> QED
    BY <1>1, <2>2, <2>3 DEF Course, Lockless
<1>3. CASE EndExecute(p)
  <2>1. Writes(p) /\ held[p] = {"A", "X"} /\ stage[p] = "upgraded"
    BY <1>3, CourseIs DEF EndExecute, Reads, Executes
  <2>2. /\ UNCHANGED <<held, robbed>>
        /\ IF cmd[p] = "jobs"
           THEN pc'[p] = "unlock" /\ req'[p] = "X" /\ stage'[p] = stage[p]
           ELSE /\ pc'[p] = "update" /\ req'[p] = "XA"
                /\ stage'[p] = "downgrading"
    BY <1>3 DEF EndExecute, TypeInv, TypeOK
  <2>3. Executes(p)' \/ Downgrades(p)'
    BY <1>1, <2>1, <2>2 DEF Executes, Downgrades, Writes
  <2> QED
    BY <1>1, <2>2, <2>3 DEF Course, Lockless
<1>4. CASE Finish(p)
  <2>1. held[p] = Home(p)
    BY <1>4, CourseIs DEF Finish, Reads, Executes
  <2>2. CASE cmd[p] = "reader" /\ ~READ_LOCK
    <3>1. held[p] = {} /\ Exit(p) /\ p \notin pids
      BY <1>4, <2>1, <2>2 DEF Finish, Home, Lockless, Course
    <3>2. pc'[p] = "exited" /\ held'[p] = {}
      BY <3>1 DEF Exit, TypeInv, TypeOK
    <3> QED
      BY <1>1, <3>1, <3>2 DEF Course, Gone, Lockless
  <2>3. CASE ~(cmd[p] = "reader" /\ ~READ_LOCK)
    <3>1. /\ pc'[p] = "unlock" /\ stage'[p] = "closing"
          /\ req'[p] = BaseLock(cmd[p]) /\ UNCHANGED <<held, robbed>>
      BY <1>4, <2>3 DEF Finish, TypeInv, TypeOK
    <3>2. Closes(p)'
      BY <1>1, <2>1, <2>3, <3>1 DEF Closes, Home, Lockless
    <3> QED
      BY <1>1, <3>1, <3>2 DEF Course, Lockless
  <2> QED
    BY <2>2, <2>3
<1> QED
  BY <1>1, <1>2, <1>3, <1>4

\* lock_sql succeeds.
LEMMA GrantCourse ==
    ASSUME TypeInv, LockInv, Exact, NEW p \in Proc, Course(p),
           UpdateGranted(p)
    PROVE  Course(p)' /\ Exact'
<1>1. cmd' = cmd /\ pids' = pids /\ req' = req
  BY DEF UpdateGranted
<1>2. Obtains(p) \/ Upgrades(p) \/ Downgrades(p)
  BY CourseIs DEF UpdateGranted
<1>3. CASE Obtains(p)
  <2>1. /\ req[p] = BaseLock(cmd[p]) /\ req[p] \in Locks /\ held[p] = {}
        /\ stage[p] = "start" /\ p \notin pids
        /\ (cmd[p] = "reader" => READ_LOCK) /\ p \notin Unprivileged
    BY <1>3 DEF Obtains, BaseLock, Locks, UpdateGranted
  <2>2. Exact' /\ held'[p] = {req[p]}
    <3>1. HeldAfter(held[p], req[p]) = {req[p]}
      BY <2>1 DEF HeldAfter, Locks
    <3> QED
      BY <2>1, <3>1, GrantIsExact
  <2>3. pc'[p] = "writepid" /\ stage' = stage
    BY <2>1 DEF UpdateGranted, TypeInv, TypeOK
  <2>4. Obtains(p)'
    BY <1>1, <2>1, <2>2, <2>3 DEF Obtains
  <2> QED
    BY <1>1, <2>1, <2>2, <2>4 DEF Course, Lockless
<1>4. CASE Upgrades(p)
  <2>1. /\ req[p] = "AX" /\ held[p] = {"A"} /\ stage[p] = "upgrading"
        /\ Writes(p)
    BY <1>4 DEF Upgrades
  <2>2. Exact' /\ held'[p] = {"A", "X"}
    BY <2>1, GrantIsExact DEF HeldAfter, Locks
  <2>3. pc'[p] = "body" /\ stage'[p] = "upgraded"
    BY <2>1 DEF UpdateGranted, ReturnOk, TypeInv, TypeOK, Locks
  <2>4. Executes(p)'
    BY <1>1, <2>1, <2>2, <2>3 DEF Executes, Writes
  <2> QED
    BY <1>1, <2>2, <2>4 DEF Course, Lockless
<1>5. CASE Downgrades(p)
  <2>1. /\ req[p] = "XA" /\ held[p] = {"A", "X"} /\ stage[p] = "downgrading"
        /\ cmd[p] = "check" /\ Writes(p)
    BY <1>5 DEF Downgrades, Writes
  <2>2. Exact' /\ held'[p] = {"A"}
    BY <2>1, GrantIsExact DEF HeldAfter, Locks
  <2>3. pc'[p] = "body" /\ stage'[p] = "granted"
    BY <2>1 DEF UpdateGranted, ReturnOk, TypeInv, TypeOK, Locks
  <2>4. Reads(p)'
    BY <1>1, <2>1, <2>2, <2>3, CourseIs DEF Reads, Home, Lockless
  <2> QED
    BY <1>1, <2>2, <2>4 DEF Course, Lockless
<1> QED
  BY <1>2, <1>3, <1>4, <1>5

\* It does not, and somebody else has the lock; or the file is read-only.
LEMMA RefusalCourse ==
    ASSUME TypeInv, LockInv, Exact, NEW p \in Proc, Course(p),
           \/ UpdateRefused(p) \/ UpdateReadonly(p)
           \/ CheckFound(p) \/ CheckEnd(p)
    PROVE  /\ Course(p)' /\ row' = row
           /\ \/ UNCHANGED <<held, robbed>>
              \/ Exit(p) /\ held[p] = {}
<1>1. cmd' = cmd /\ row' = row /\ req' = req /\ (p \in pids' => p \in pids)
  BY DEF UpdateRefused, UpdateReadonly, CheckFound, CheckEnd
<1>2. CASE UpdateRefused(p)
  <2>1. Obtains(p) \/ Upgrades(p)
    BY <1>2, CourseIs, DowngradeGranted DEF UpdateRefused, Downgrades
  <2>2. /\ pc'[p] = "check" /\ p \notin Unprivileged
        /\ UNCHANGED <<held, robbed, stage>>
    BY <1>2 DEF UpdateRefused, TypeInv, TypeOK
  <2>3. pc[p] = "update"
    BY <1>2 DEF UpdateRefused
  <2>4. Obtains(p)' \/ Upgrades(p)'
    BY <1>1, <2>1, <2>2, <2>3 DEF Obtains, Upgrades, Trying, Writes
  <2> QED
    BY <1>1, <2>2, <2>4 DEF Course, Lockless
<1>3. CASE UpdateReadonly(p)
  <2>1. Obtains(p) /\ p \in Unprivileged /\ pc[p] = "update"
    BY <1>3, CourseIs
       DEF UpdateReadonly, Upgrades, Downgrades, Writes, Course
  <2>2. held[p] = {} /\ stage[p] = "start" /\ Home(p) = {}
    BY <2>1 DEF Obtains, Home, Lockless
  <2>3. /\ pc'[p] = "body" /\ stage'[p] = "granted"
        /\ UNCHANGED <<held, robbed>>
    BY <1>3, <2>2 DEF UpdateReadonly, ReturnOk, TypeInv, TypeOK
  <2>4. Reads(p)'
    BY <1>1, <2>2, <2>3 DEF Reads, Home, Lockless
  <2> QED
    BY <1>1, <2>3, <2>4 DEF Course, Lockless
<1>4. CASE CheckFound(p) /\ pc'[p] = "update"
  <2>1. (Obtains(p) \/ Upgrades(p)) /\ pc[p] = "check"
    BY <1>4, CourseIs DEF CheckFound
  <2>2. UNCHANGED <<held, robbed, stage>>
    BY <1>4 DEF CheckFound, Retry, ReturnError, Exit, TypeInv, TypeOK
  <2>3. Obtains(p)' \/ Upgrades(p)'
    BY <1>1, <1>4, <2>1, <2>2 DEF Obtains, Upgrades, Trying, Writes
  <2> QED
    BY <1>1, <2>2, <2>3 DEF Course, Lockless
<1>5. CASE CheckFound(p) /\ pc'[p] # "update"
  <2>1. (Obtains(p) \/ Upgrades(p)) /\ pc[p] = "check"
    BY <1>5, CourseIs DEF CheckFound
  <2>2. ReturnError(p)
    BY <1>5 DEF CheckFound, Retry, TypeInv, TypeOK
  <2>3. CASE Obtains(p)
    <3>1. held[p] = {} /\ stage[p] = "start" /\ p \notin pids
      BY <2>1, <2>3 DEF Obtains
    <3>2. Exit(p)
      BY <2>2, <3>1 DEF ReturnError
    <3>3. pc'[p] = "exited" /\ held'[p] = {}
      BY <3>2 DEF Exit, TypeInv, TypeOK
    <3> QED
      BY <1>1, <3>1, <3>2, <3>3 DEF Course, Gone, Lockless
  <2>4. CASE Upgrades(p)
    <3>1. stage[p] = "upgrading" /\ held[p] = {"A"} /\ Writes(p)
      BY <2>4 DEF Upgrades
    <3>2. /\ pc'[p] = "body" /\ stage'[p] \in {"granted", "finished"}
          /\ UNCHANGED <<held, robbed>>
      BY <2>2, <3>1 DEF ReturnError, TypeInv, TypeOK
    <3>3. Reads(p)'
      BY <1>1, <3>1, <3>2, CourseIs DEF Reads, Home, Lockless
    <3> QED
      BY <1>1, <3>2, <3>3 DEF Course, Lockless
  <2> QED
    BY <2>1, <2>3, <2>4
<1>6. CASE CheckEnd(p)
  <2>1. (Obtains(p) \/ Upgrades(p)) /\ pc[p] = "check"
    BY <1>6, CourseIs DEF CheckEnd
  <2>2. /\ pc'[p] = "reset" /\ UNCHANGED <<held, robbed, stage>>
    BY <1>6 DEF CheckEnd, TypeInv, TypeOK
  <2>3. Obtains(p)' \/ Upgrades(p)'
    BY <1>1, <2>1, <2>2 DEF Obtains, Upgrades, Trying, Writes
  <2> QED
    BY <1>1, <2>2, <2>3 DEF Course, Lockless
<1> QED
  BY <1>1, <1>2, <1>3, <1>4, <1>5, <1>6

\* The pid is written: it is not there yet.
LEMMA PidCourse ==
    ASSUME TypeInv, NEW p \in Proc, Course(p), WritePid(p)
    PROVE  Course(p)' /\ UNCHANGED <<row, held, robbed>>
<1>1. /\ Obtains(p) /\ pc[p] = "writepid" /\ p \notin pids
      /\ stage[p] = "start" /\ held[p] = {BaseLock(cmd[p])}
      /\ ~Lockless(p)
  BY CourseIs DEF WritePid, Obtains, Trying, Lockless
<1>2. /\ UNCHANGED <<row, held, robbed, cmd>>
      /\ pc'[p] = "body" /\ stage'[p] = "granted"
  BY <1>1 DEF WritePid, ReturnOk, TypeInv, TypeOK
<1> QED
  BY <1>1, <1>2 DEF Course, Reads, Home, Lockless

\* The release.
LEMMA ReleaseCourse ==
    ASSUME TypeInv, LockInv, Exact, NEW p \in Proc, Course(p), Unlock(p)
    PROVE  Course(p)' /\ Exact'
<1>1. /\ cmd' = cmd /\ pids' = pids /\ stage' = stage
      /\ pc[p] = "unlock" /\ pc'[p] = "rmpid" /\ p \notin Unprivileged
  BY DEF Unlock, TypeInv, TypeOK
<1>2. Executes(p) \/ Closes(p)
  BY <1>1, CourseIs
<1>3. CASE Executes(p)
  <2>1. /\ stage[p] = "upgraded" /\ cmd[p] = "jobs" /\ req[p] = "X"
        /\ held[p] = {"A", "X"}
    BY <1>1, <1>3 DEF Executes
  <2>2. Exact' /\ held'[p] = {"A"}
    BY <2>1, ReleaseIsExact
  <2> QED
    BY <1>1, <2>1, <2>2 DEF Course, Executes, Writes, Lockless
<1>4. CASE Closes(p)
  <2>1. /\ stage[p] = "closing" /\ req[p] = BaseLock(cmd[p])
        /\ held[p] = {req[p]} /\ (cmd[p] = "reader" => READ_LOCK)
    BY <1>1, <1>4 DEF Closes, Home, Lockless
  <2>2. Exact' /\ held'[p] = {}
    BY <2>1, ReleaseIsExact
  <2> QED
    BY <1>1, <2>1, <2>2 DEF Course, Closes, Lockless
<1> QED
  BY <1>2, <1>3, <1>4

\* The end of a release.
LEMMA ReleasedCourse ==
    ASSUME TypeInv, LockInv, Exact, NEW p \in Proc, Course(p),
           UnlockEnd(p) \/ RemovePid(p)
    PROVE  /\ Course(p)' /\ row' = row
           /\ \/ UNCHANGED <<held, robbed>>
              \/ Exit(p) /\ held[p] = {}
<1>1. /\ cmd' = cmd /\ row' = row /\ ReturnRelease(p)
      /\ p \in pids' => p \in pids
  BY DEF UnlockEnd, RemovePid
<1>2. CASE UnlockEnd(p)
  <2>1. pc[p] = "unlock" /\ (p \in Unprivileged \/ ~Releasable(req[p]))
    BY <1>2 DEF UnlockEnd
  <2>2. req[p] \notin held[p] \/ p \in Unprivileged
    BY <2>1, HeldIsReleasable
  <2>3. Closes(p) /\ Lockless(p)
    BY <2>1, <2>2, CourseIs DEF Executes, Closes, Home, Lockless, Course, Writes
  <2>4. held[p] = {} /\ stage[p] = "closing" /\ p \notin pids
    BY <2>1, <2>3 DEF Closes, Home, Course
  <2>5. Exit(p)
    BY <1>1, <2>4 DEF ReturnRelease
  <2>6. pc'[p] = "exited" /\ held'[p] = {}
    BY <2>5 DEF Exit, TypeInv, TypeOK
  <2> QED
    BY <1>1, <2>4, <2>5, <2>6 DEF Course, Gone, Lockless
<1>3. CASE RemovePid(p)
  <2>1. pc[p] = "rmpid" /\ p \notin pids' /\ (Executes(p) \/ Closes(p))
    BY <1>3, CourseIs DEF RemovePid
  <2>2. CASE Executes(p)
    <3>1. stage[p] = "upgraded" /\ cmd[p] = "jobs" /\ held[p] = {"A"}
      BY <2>1, <2>2 DEF Executes
    <3>2. /\ pc'[p] = "body" /\ stage'[p] = "finished"
          /\ UNCHANGED <<held, robbed>>
      BY <1>1, <3>1 DEF ReturnRelease, TypeInv, TypeOK
    <3>3. Reads(p)'
      BY <1>1, <3>1, <3>2, CourseIs DEF Reads, Home, Lockless, Writes
    <3> QED
      BY <1>1, <3>2, <3>3 DEF Course, Lockless
  <2>3. CASE Closes(p)
    <3>1. stage[p] = "closing" /\ held[p] = {}
      BY <2>1, <2>3 DEF Closes
    <3>2. Exit(p)
      BY <1>1, <3>1 DEF ReturnRelease
    <3>3. pc'[p] = "exited" /\ held'[p] = {}
      BY <3>2 DEF Exit, TypeInv, TypeOK
    <3> QED
      BY <1>1, <2>1, <3>1, <3>2, <3>3 DEF Course, Gone, Lockless
  <2> QED
    BY <2>1, <2>2, <2>3
<1> QED
  BY <1>1, <1>2, <1>3

\* Without a mishap every command keeps to its course, and the row is exact.
LEMMA NextUndisturbed ==
    TypeInv /\ LockInv /\ Undisturbed /\ [Next]_vars => Undisturbed'
<1> SUFFICES ASSUME TypeInv, LockInv, Undisturbed, [Next]_vars, ~mishap'
             PROVE  Exact' /\ \A q \in Proc : Course(q)'
  BY DEF Undisturbed
<1>1. CASE UNCHANGED vars
  <2>1. Exact /\ \A p \in Proc : Course(p)
    BY <1>1 DEF Undisturbed, vars
  <2>2. Exact'
    BY <1>1, <2>1, ExactKept DEF vars, Exact
  <2>3. ASSUME NEW p \in Proc PROVE Course(p)'
    BY <1>1, <2>1, CourseKept DEF vars
  <2> QED
    BY <2>2, <2>3
<1>2. CASE Next
  <2>1. PICK p \in Proc : Moves(p)
    BY <1>2, MishapsAreNoted
  <2>2. Exact /\ \A q \in Proc : Course(q)
    BY <1>2, MishapsAreNoted DEF Undisturbed
  <2>3. \A q \in Proc : q # p => Course(q)'
    BY <2>1, <2>2, OthersKeepCourse
  <2>4. ASSUME row' = row,
               UNCHANGED <<held, robbed>> \/ (Exit(p) /\ held[p] = {})
        PROVE  Exact'
    <3>1. \A q \in Proc : held'[q] = held[q]
      BY <2>4 DEF Exit, TypeInv, TypeOK
    <3>2. robbed' = {}
      BY <2>2, <2>4 DEF Exit, Exact
    <3> QED
      BY <2>2, <2>4, <3>1, <3>2, ExactKept
  <2>5. CASE \E c \in Commands : Start(p, c)
    BY <2>2, <2>3, <2>4, <2>5, StartCourse
  <2>6. CASE Upgrade(p) \/ EndExecute(p) \/ Finish(p)
    BY <2>2, <2>3, <2>4, <2>6, BodyCourse
  <2>7. CASE UpdateGranted(p)
    BY <2>2, <2>3, <2>7, GrantCourse
  <2>8. CASE \/ UpdateRefused(p) \/ UpdateReadonly(p)
             \/ CheckFound(p) \/ CheckEnd(p)
    BY <2>2, <2>3, <2>4, <2>8, RefusalCourse
  <2>9. CASE WritePid(p)
    BY <2>2, <2>3, <2>4, <2>9, PidCourse
  <2>10. CASE Unlock(p)
    BY <2>2, <2>3, <2>10, ReleaseCourse
  <2>11. CASE UnlockEnd(p) \/ RemovePid(p)
    BY <2>2, <2>3, <2>4, <2>11, ReleasedCourse
  <2>12. ~Drop(p)
    BY <2>2, CourseIs DEF Drop
  <2> QED
    BY <2>1, <2>5, <2>6, <2>7, <2>8, <2>9, <2>10, <2>11, <2>12 DEF Moves
<1> QED
  BY <1>1, <1>2

\* Commands that ran to their end without a crash, a failed statement or a
\* reset leave no lock and no pid behind, however many ran at a time and
\* however often they converted their locks and tried again.
THEOREM QuietUnlocked == Spec => []QuietMeansUnlocked
<1>1. Init => Undisturbed
  <2> SUFFICES ASSUME Init PROVE Undisturbed
    OBVIOUS
  <2>1. \A l : Holders(l) = {}
    BY DEF Init, Holders
  <2>2. Exact
    BY <2>1, FS_EmptySet DEF Exact, Init, Unlocked
  <2>3. \A p \in Proc : Course(p)
    BY DEF Init, Course, Gone
  <2> QED
    BY <2>2, <2>3 DEF Undisturbed
<1>2. TypeInv /\ LockInv /\ Undisturbed => QuietMeansUnlocked
  <2> SUFFICES ASSUME TypeInv, Undisturbed, Alive = {}, ~mishap
               PROVE  row = Unlocked /\ pids = {}
    BY DEF QuietMeansUnlocked
  <2>1. Exact /\ \A p \in Proc : Gone(p)
    BY CourseIs DEF Undisturbed, Alive
  <2>2. \A l : Holders(l) = {}
    BY <2>1 DEF Gone, Holders
  <2>3. row.read = 0 /\ row.exclusive # 1 /\ row.advisory # 1
    BY <2>1, <2>2, FS_EmptySet DEF Exact
  <2>4. row \in [exclusive : {0, 1}, advisory : {0, 1}, read : Nat]
    BY DEF TypeInv, TypeOK
  <2>5. row = Unlocked
    BY <2>3, <2>4 DEF Unlocked
  <2>6. pids = {}
    BY <2>1 DEF Gone, TypeInv, TypeOK
  <2> QED
    BY <2>5, <2>6
<1> QED
  BY <1>1, <1>2, InitType, NextType, InitLock, NextLock, NextUndisturbed, PTL
     DEF Spec
=============================================================================
