------------------------- MODULE ApplyServiceProofs -------------------------
(***************************************************************************)
(* Theorems about module ApplyService, for any number of invocations, any  *)
(* names and texts, and any bounds on edits, faults and crashes.           *)
(***************************************************************************)
EXTENDS ApplyService, FiniteSetTheorems, TLAPS

Maybe == Files \cup {Absent}

(* normalize_newline makes a file of a file. *)
LEMMA NormalizeType ==
  ASSUME NEW f \in Maybe
  PROVE  Normalize(f) \in Maybe
BY NoFileAssumption DEF Normalize, Maybe, Files

(* Whatever happens to a backup, its record keeps its type. *)
LEMMA BackupUpdate ==
  ASSUME NEW b \in Backups
  PROVE  /\ [b EXCEPT !.written = TRUE] \in Backups
         /\ [b EXCEPT !.synced = TRUE] \in Backups
         /\ [b EXCEPT !.gone = TRUE] \in Backups
BY DEF Backups

(* An existing backup has a record, and what a reader gets of it is a file. *)
LEMMA ContentType ==
  ASSUME backups \in [Names -> Backups \cup {Unused}], NEW n \in Existing
  PROVE  /\ n \in Names /\ backups[n] \in Backups
         /\ ContentOf(n) \in Files
<1>1. n \in Names /\ backups[n] \in Backups
  BY DEF Existing
<1>2. backups[n].of \in Files
  BY <1>1 DEF Backups
<1>3. Truncated \in Files
  BY DEF Files, Truncated
<1> QED
  BY <1>1, <1>2, <1>3 DEF ContentOf

(* Marking a backup as deleted leaves it a record. *)
LEMMA WithoutType ==
  ASSUME backups \in [Names -> Backups \cup {Unused}], NEW n \in Existing
  PROVE  Without(n) \in [Names -> Backups \cup {Unused}]
<1>1. n \in Names /\ backups[n] \in Backups
  BY DEF Existing
<1>2. [backups[n] EXCEPT !.gone = TRUE] \in Backups
  BY <1>1, BackupUpdate
<1> QED
  BY <1>1, <1>2 DEF Without

(* Whatever happens to a plan, its record keeps its type. *)
LEMMA PlanUpdate ==
  ASSUME NEW r \in Plans, NEW f \in Maybe, NEW k \in Kinds
  PROVE  /\ [r EXCEPT !.generated = f] \in Plans
         /\ [r EXCEPT !.generated = f].kind = r.kind
         /\ [r EXCEPT !.kind = k, !.installed = f] \in Plans
         /\ [r EXCEPT !.kind = k, !.installed = f].kind = k
BY DEF Plans, Maybe

(* Being on the disk is a matter of the flag alone. *)
LEMMA OnDiskType ==
  ASSUME NEW b \in Backups \cup {Unused}
  PROVE  /\ OnDisk(b) \in Backups \cup {Unused}
         /\ b = Unused => OnDisk(b) = Unused
         /\ b # Unused => /\ b \in Backups /\ OnDisk(b) \in Backups /\ OnDisk(b) # Unused
                          /\ OnDisk(b) = [b EXCEPT !.synced = TRUE]
BY BackupUpdate, NoFileAssumption DEF OnDisk

(* A sync of the directory changes no type. *)
LEMMA SyncType ==
  ASSUME TypeOK, SyncDirectory
  PROVE  /\ target' \in Maybe /\ durable' \subseteq Maybe
         /\ backups' \in [Names -> Backups \cup {Unused}]
         /\ births' \in Nat
<1>1. \A n \in Names : OnDisk(backups[n]) \in Backups \cup {Unused}
  BY OnDiskType DEF TypeOK
<1> QED
  BY <1>1 DEF TypeOK, SyncDirectory, Maybe

(* The initial state has the types. *)
LEMMA TypeInit == Init => TypeOK
<1> SUFFICES ASSUME Init PROVE TypeOK
  OBVIOUS
<1>1. Whole \subseteq Files
  BY DEF Whole, Files
<1>2. IsFiniteSet(OldBackups) /\ Cardinality(OldBackups) \in Nat
  BY FS_Subset, FS_CardinalityType, ApplyAssumption
<1>3. backups \in [Names -> Backups \cup {Unused}]
  <2>1. PICK t \in Texts :
          backups = [n \in Names |->
            IF n \in OldBackups
            THEN [of |-> [text |-> t, nl |-> TRUE], written |-> TRUE, synced |-> TRUE,
                  gone |-> FALSE, born |-> Cardinality({m \in OldBackups : m < n})]
            ELSE Unused]
    BY DEF Init
  <2>2. ASSUME NEW n \in Names
        PROVE  Cardinality({m \in OldBackups : m < n}) \in Nat
    BY <1>2, FS_Subset, FS_CardinalityType, {m \in OldBackups : m < n} \subseteq OldBackups
  <2>3. [text |-> t, nl |-> TRUE] \in Files
    BY DEF Files
  <2> QED
    BY <2>1, <2>2, <2>3 DEF Backups
<1>4. plan \in [Procs -> Plans]
  BY DEF Init, Plans, Kinds
<1>5. pc \in [Procs -> Points] /\ \A p \in Procs : pc[p] = "start"
  BY DEF Init, Points, Before
<1> QED
  BY <1>1, <1>2, <1>3, <1>4, <1>5 DEF Init, TypeOK, Inside

(* Every step of an invocation and of its environment keeps the types. *)
LEMMA TypeStep == TypeOK /\ [Next]_vars => TypeOK'
<1> SUFFICES ASSUME TypeOK, [Next]_vars PROVE TypeOK'
  OBVIOUS
<1> USE DEF Before, Inside, Outside, Ended, Points, Go, Release, Dirs,
            fileVars, bakVars, procVars, counters
<1>1. ASSUME NEW p \in Procs, SelectBackup(p) PROVE TypeOK'
  <2>1. CASE UNCHANGED plan
    BY <1>1, <2>1 DEF TypeOK, SelectBackup
  <2>2. ASSUME NEW n \in Existing, Go(p, "start", "selected"),
               plan' = [plan EXCEPT ![p].generated = Normalize(ContentOf(n))]
        PROVE  TypeOK'
    <3>1. Normalize(ContentOf(n)) \in Maybe
      BY ContentType, NormalizeType DEF TypeOK, Maybe
    <3>2. plan[p] \in Plans /\ plan' = [plan EXCEPT ![p] = [plan[p] EXCEPT !.generated = Normalize(ContentOf(n))]]
      BY <2>2 DEF TypeOK
    <3>3. plan' \in [Procs -> Plans]
      BY <3>1, <3>2, PlanUpdate DEF TypeOK, Kinds
    <3> QED
      BY <1>1, <2>2, <3>2, <3>3 DEF TypeOK, SelectBackup
  <2> QED
    BY <1>1, <2>1, <2>2 DEF SelectBackup
<1>2. ASSUME NEW p \in Procs, RenderMenu(p) PROVE TypeOK'
  <2>1. PICK t \in Texts :
          plan' = [plan EXCEPT ![p] = [plan[p] EXCEPT !.generated = [text |-> t, nl |-> TRUE]]]
    BY <1>2 DEF TypeOK, RenderMenu
  <2>2. [text |-> t, nl |-> TRUE] \in Maybe
    BY DEF Maybe, Files
  <2>3. plan' \in [Procs -> Plans]
    BY <2>1, <2>2, PlanUpdate DEF TypeOK, Kinds
  <2> QED
    BY <1>2, <2>1, <2>3 DEF TypeOK, RenderMenu
<1>3. ASSUME NEW p \in Procs, BuildPlan(p) PROVE TypeOK'
  <2> DEFINE kind == ChangeKind(Normalize(target), plan[p].generated)
  <2>1. plan' = [plan EXCEPT ![p] = [plan[p] EXCEPT !.kind = kind, !.installed = Normalize(target)]]
    BY <1>3 DEF TypeOK, BuildPlan
  <2>2. Normalize(target) \in Maybe
    BY NormalizeType DEF TypeOK, Maybe
  <2>3. kind \in Kinds /\ (kind # "unchanged" => kind \in {"create", "update"})
    BY DEF ChangeKind, Kinds
  <2>4. plan[p] \in Plans
    BY DEF TypeOK
  <2> HIDE DEF kind
  <2>5. plan' \in [Procs -> Plans] /\ plan'[p].kind = kind
    <3> DEFINE r == [plan[p] EXCEPT !.kind = kind, !.installed = Normalize(target)]
    <3>1. r \in Plans /\ r.kind = kind
      BY <2>2, <2>3, <2>4 DEF Plans, Maybe
    <3>2. plan' = [plan EXCEPT ![p] = r]
      BY <2>1
    <3> HIDE DEF r
    <3> QED
      BY <3>1, <3>2 DEF TypeOK
  <2>6. pc' = [pc EXCEPT ![p] = IF kind = "unchanged" THEN "unchanged" ELSE "planned"]
    BY <1>3 DEF BuildPlan, kind
  <2>7. \A q \in Procs \ {p} : plan'[q] = plan[q]
    BY <2>1 DEF TypeOK
  <2>8. UNCHANGED <<fileVars, bakVars, lock, copy, backup, tmp, doomed, counters>>
    BY <1>3 DEF BuildPlan
  <2> QED
    BY <2>3, <2>5, <2>6, <2>7, <2>8 DEF TypeOK
<1>4. ASSUME NEW p \in Procs, TakeLock(p) PROVE TypeOK'
  BY <1>4 DEF TypeOK, TakeLock
<1>5. ASSUME NEW p \in Procs, Inspect(p) PROVE TypeOK'
  BY <1>5 DEF TypeOK, Inspect
<1>6. ASSUME NEW p \in Procs, Compare(p) PROVE TypeOK'
  BY <1>6 DEF TypeOK, Compare
<1>7. ASSUME NEW p \in Procs, CreateBackup(p) PROVE TypeOK'
  <2>1. CASE target = Absent
    BY <1>7, <2>1 DEF TypeOK, CreateBackup
  <2>2. CASE target # Absent
    <3>1. PICK n \in Names :
            /\ pc' = [pc EXCEPT ![p] = "copying"]
            /\ backups' = [backups EXCEPT ![n] =
                 [of |-> target, written |-> FALSE, synced |-> FALSE,
                  gone |-> FALSE, born |-> births]]
            /\ births' = births + 1
            /\ copy' = [copy EXCEPT ![p] = n]
      BY <1>7, <2>2 DEF CreateBackup
    <3>2. backups' \in [Names -> Backups \cup {Unused}]
      BY <2>2, <3>1 DEF TypeOK, Backups
    <3> QED
      BY <1>7, <3>1, <3>2 DEF TypeOK, CreateBackup
  <2> QED
    BY <2>1, <2>2
<1>8. ASSUME NEW p \in Procs, WriteBackup(p) PROVE TypeOK'
  <2>1. backups' \in [Names -> Backups \cup {Unused}]
    <3>1. CASE copy[p] \in Existing
      <4>1. copy[p] \in Names /\ backups[copy[p]] \in Backups
        BY <3>1 DEF TypeOK, Existing
      <4>2. backups' = [backups EXCEPT ![copy[p]] = [backups[copy[p]] EXCEPT !.written = TRUE]]
        BY <1>8, <3>1 DEF TypeOK, WriteBackup
      <4> QED
        BY <4>1, <4>2, BackupUpdate DEF TypeOK
    <3>2. CASE copy[p] \notin Existing
      BY <1>8, <3>2 DEF TypeOK, WriteBackup
    <3> QED
      BY <3>1, <3>2
  <2> QED
    BY <1>8, <2>1 DEF TypeOK, WriteBackup
<1>9. ASSUME NEW p \in Procs, SyncBackup(p) PROVE TypeOK'
  BY <1>9, SyncType DEF TypeOK, SyncBackup, Maybe
<1>10. ASSUME NEW p \in Procs, SkipBackup(p) PROVE TypeOK'
  BY <1>10 DEF TypeOK, SkipBackup
<1>11. ASSUME NEW p \in Procs, WriteTemporary(p) PROVE TypeOK'
  BY <1>11 DEF TypeOK, WriteTemporary
<1>12. ASSUME NEW p \in Procs, SyncTemporary(p) PROVE TypeOK'
  BY <1>12 DEF TypeOK, SyncTemporary
<1>13. ASSUME NEW p \in Procs, Rename(p) PROVE TypeOK'
  <2>1. plan[p].generated \in Maybe
    BY DEF TypeOK, Plans, Maybe
  <2>2. Truncated \in Maybe
    BY DEF Truncated, Files, Maybe
  <2>3. target' \in Maybe /\ durable' \subseteq Maybe
    BY <1>13, <2>1, <2>2 DEF TypeOK, Rename, Maybe
  <2> QED
    BY <1>13, <2>3 DEF TypeOK, Rename, Maybe
<1>14. ASSUME NEW p \in Procs, SyncRename(p) PROVE TypeOK'
  BY <1>14, SyncType DEF TypeOK, SyncRename, Maybe
<1>15. ASSUME NEW p \in Procs, Verify(p) PROVE TypeOK'
  BY <1>15 DEF TypeOK, Verify
<1>16. ASSUME NEW p \in Procs, RestoreBackup(p) PROVE TypeOK'
  <2>1. CASE backup[p] \in Existing
    <3>1. ContentOf(backup[p]) \in Files
      BY <2>1, ContentType DEF TypeOK
    <3> QED
      BY <1>16, <2>1, <3>1 DEF TypeOK, RestoreBackup
  <2>2. CASE backup[p] \notin Existing
    BY <1>16, <2>2 DEF TypeOK, RestoreBackup
  <2> QED
    BY <2>1, <2>2
<1>17. ASSUME NEW p \in Procs, NothingToRestore(p) PROVE TypeOK'
  BY <1>17 DEF TypeOK, NothingToRestore
<1>18. ASSUME NEW p \in Procs, RemoveCreated(p) PROVE TypeOK'
  BY <1>18 DEF TypeOK, RemoveCreated
<1>19. ASSUME NEW p \in Procs, SyncRestored(p) PROVE TypeOK'
  BY <1>19, SyncType DEF TypeOK, SyncRestored, Maybe
<1>20. ASSUME NEW p \in Procs, ListSurplus(p) PROVE TypeOK'
  <2>1. Surplus(Retention) \subseteq Names
    BY DEF Surplus, Existing
  <2>2. doomed' \in [Procs -> SUBSET Names]
    BY <1>20, <2>1 DEF TypeOK, ListSurplus
  <2> QED
    BY <1>20, <2>2 DEF TypeOK, ListSurplus
<1>21. ASSUME NEW p \in Procs, RemoveSurplus(p) PROVE TypeOK'
  <2>1. PICK n \in doomed[p] :
          /\ IF n \in Existing
             THEN /\ Go(p, "pruning", "pruning")
                  /\ backups' = Without(n)
                  /\ doomed' = [doomed EXCEPT ![p] = doomed[p] \ {n}]
             ELSE Go(p, "pruning", "prunefailed") /\ UNCHANGED <<backups, doomed>>
          /\ UNCHANGED <<fileVars, births, lock, plan, copy, backup, tmp, counters>>
    BY <1>21 DEF RemoveSurplus
  <2>2. backups' \in [Names -> Backups \cup {Unused}]
    BY <2>1, WithoutType DEF TypeOK
  <2> QED
    BY <2>1, <2>2 DEF TypeOK
<1>22. ASSUME NEW p \in Procs, PruneDone(p) PROVE TypeOK'
  BY <1>22 DEF TypeOK, PruneDone
<1>23. ASSUME NEW p \in Procs, IOError(p) PROVE TypeOK'
  <2>1. backups' \in [Names -> Backups \cup {Unused}]
    <3>1. \/ backups' = backups
          \/ copy[p] \in Existing /\ backups' = Without(copy[p])
      BY <1>23 DEF IOError
    <3> QED
      BY <3>1, WithoutType DEF TypeOK
  <2>2. tmp' \in [Procs -> {"none", "unsynced", "synced"}]
    <3>1. tmp' = tmp \/ tmp' = [tmp EXCEPT ![p] = "none"]
      BY <1>23 DEF IOError
    <3> QED
      BY <3>1 DEF TypeOK
  <2>3. \/ pc' = [pc EXCEPT ![p] = "failing"] /\ pc[p] \in Undoable
        \/ pc' = [pc EXCEPT ![p] = "removed"] /\ pc[p] = "failing"
        \/ \E e \in Ended : pc' = [pc EXCEPT ![p] = e]
    BY <1>23 DEF IOError
  <2>4. lock' = lock \/ lock' = [lock EXCEPT ![LockDir[p]] = Nobody]
    BY <1>23 DEF IOError
  <2>5. UNCHANGED <<fileVars, births, plan, copy, backup, doomed>> /\ edits' = edits
        /\ crashes' = crashes /\ faults' \in Nat
    BY <1>23 DEF IOError, TypeOK
  <2>6. pc' \in [Procs -> Points] /\ lock' \in [Dirs -> Procs \cup {Nobody}]
    BY <2>3, <2>4 DEF TypeOK
  <2>7. \A q \in Procs : pc'[q] \in Inside \cup {"planned"} => plan[q].kind \in {"create", "update"}
    BY <2>3 DEF TypeOK, Undoable
  <2> QED
    BY <2>1, <2>2, <2>5, <2>6, <2>7 DEF TypeOK
<1>24. ASSUME NEW p \in Procs, Kill(p) PROVE TypeOK'
  BY <1>24 DEF TypeOK, Kill
<1>25. CASE PowerLoss
  <2>1. PICK lost \in SUBSET {n \in Existing : ~backups[n].synced} :
          backups' = [n \in Names |-> IF n \in lost THEN [backups[n] EXCEPT !.gone = TRUE]
                                      ELSE OnDisk(backups[n])]
    BY <1>25 DEF PowerLoss
  <2>2. /\ \A n \in lost : [backups[n] EXCEPT !.gone = TRUE] \in Backups
        /\ \A n \in Names : OnDisk(backups[n]) \in Backups \cup {Unused}
    BY ContentType, BackupUpdate, OnDiskType DEF TypeOK
  <2>3. backups' \in [Names -> Backups \cup {Unused}]
    BY <2>1, <2>2 DEF TypeOK
  <2> QED
    BY <1>25, <2>3 DEF TypeOK, PowerLoss
<1>26. CASE ExternalEdit
  BY <1>26 DEF TypeOK, ExternalEdit, Whole, Files
<1>27. CASE UNCHANGED vars
  BY <1>27 DEF TypeOK, vars
<1> QED
  BY <1>1, <1>2, <1>3, <1>4, <1>5, <1>6, <1>7, <1>8, <1>9, <1>10, <1>11, <1>12, <1>13, <1>14, <1>15, <1>16, <1>17, <1>18, <1>19, <1>20, <1>21, <1>22, <1>23, <1>24, <1>25, <1>26, <1>27
     DEF Next, Step, Environment, Command, Apply, Prune

(***************************************************************************)
(* Type correctness, with the last part of TypeOK: whoever is past the     *)
(* planning of a change has a change to make.                              *)
(***************************************************************************)
THEOREM TypeCorrect == Spec => []TypeOK
<1>1. Init => TypeOK
  BY TypeInit
<1>2. TypeOK /\ [Next]_vars => TypeOK'
  BY TypeStep
<1> QED
  BY <1>1, <1>2, PTL DEF Spec

-----------------------------------------------------------------------------
(***************************************************************************)
(* Mutual exclusion.  The invariant: an invocation that is inside apply()  *)
(* holds the lock of its runtime directory.                                *)
(***************************************************************************)
LockInv == \A p \in Procs : pc[p] \in Inside => lock[LockDir[p]] = p

(* A step inside apply() that keeps the lock, or one outside. *)
LEMMA KeepsLock ==
  ASSUME TypeOK, LockInv, NEW p \in Procs, NEW to, pc' = [pc EXCEPT ![p] = to],
         UNCHANGED lock, pc[p] \in Inside \/ to \notin Inside
  PROVE  LockInv'
BY DEF TypeOK, LockInv

(* A step that leaves apply() and lets go of the lock. *)
LEMMA LetsGo ==
  ASSUME TypeOK, LockInv, NEW p \in Procs, NEW to, pc' = [pc EXCEPT ![p] = to],
         Release(p), pc[p] \in Inside, to \notin Inside
  PROVE  LockInv'
BY DEF TypeOK, LockInv, Release, Dirs

(* Every step keeps the invariant of the lock. *)
LEMMA LockStep == TypeOK /\ LockInv /\ [Next]_vars => LockInv'
<1> SUFFICES ASSUME TypeOK, LockInv, [Next]_vars PROVE LockInv'
  OBVIOUS
<1> USE DEF Go, Inside
<1>1. ASSUME NEW p \in Procs, SelectBackup(p) PROVE LockInv'
  BY <1>1, KeepsLock DEF SelectBackup
<1>2. ASSUME NEW p \in Procs, RenderMenu(p) PROVE LockInv'
  BY <1>2, KeepsLock DEF RenderMenu
<1>3. ASSUME NEW p \in Procs, BuildPlan(p) PROVE LockInv'
  BY <1>3, KeepsLock DEF BuildPlan
<1>4. ASSUME NEW p \in Procs, CreateBackup(p) PROVE LockInv'
  BY <1>4, KeepsLock DEF CreateBackup
<1>5. ASSUME NEW p \in Procs, WriteBackup(p) PROVE LockInv'
  BY <1>5, KeepsLock DEF WriteBackup
<1>6. ASSUME NEW p \in Procs, SyncBackup(p) PROVE LockInv'
  BY <1>6, KeepsLock DEF SyncBackup
<1>7. ASSUME NEW p \in Procs, SkipBackup(p) PROVE LockInv'
  BY <1>7, KeepsLock DEF SkipBackup
<1>8. ASSUME NEW p \in Procs, WriteTemporary(p) PROVE LockInv'
  BY <1>8, KeepsLock DEF WriteTemporary
<1>9. ASSUME NEW p \in Procs, SyncTemporary(p) PROVE LockInv'
  BY <1>9, KeepsLock DEF SyncTemporary
<1>10. ASSUME NEW p \in Procs, Rename(p) PROVE LockInv'
  BY <1>10, KeepsLock DEF Rename
<1>11. ASSUME NEW p \in Procs, SyncRename(p) PROVE LockInv'
  BY <1>11, KeepsLock DEF SyncRename
<1>12. ASSUME NEW p \in Procs, RemoveCreated(p) PROVE LockInv'
  BY <1>12, KeepsLock DEF RemoveCreated
<1>13. ASSUME NEW p \in Procs, ListSurplus(p) PROVE LockInv'
  BY <1>13, KeepsLock DEF ListSurplus
<1>14. ASSUME NEW p \in Procs, RemoveSurplus(p) PROVE LockInv'
  BY <1>14, KeepsLock DEF RemoveSurplus
<1>15. ASSUME NEW p \in Procs, PruneDone(p) PROVE LockInv'
  BY <1>15, KeepsLock DEF PruneDone
<1>16. ASSUME NEW p \in Procs, NothingToRestore(p) PROVE LockInv'
  BY <1>16, LetsGo DEF NothingToRestore
<1>17. ASSUME NEW p \in Procs, SyncRestored(p) PROVE LockInv'
  BY <1>17, LetsGo DEF SyncRestored
<1>18. ASSUME NEW p \in Procs, TakeLock(p) PROVE LockInv'
  <2>1. CASE LockIsFree(p)
    <3>1. \A q \in Procs : pc[q] \in Inside => LockDir[q] # LockDir[p]
      BY <2>1, ApplyAssumption DEF LockIsFree, LockInv
    <3> QED
      BY <1>18, <2>1, <3>1 DEF TakeLock, LockInv, TypeOK, Dirs
  <2>2. CASE ~LockIsFree(p)
    BY <1>18, <2>2, KeepsLock DEF TakeLock
  <2> QED
    BY <2>1, <2>2
<1>19. ASSUME NEW p \in Procs, Inspect(p) PROVE LockInv'
  BY <1>19, KeepsLock, LetsGo DEF Inspect
<1>20. ASSUME NEW p \in Procs, Compare(p) PROVE LockInv'
  BY <1>20, KeepsLock, LetsGo DEF Compare
<1>21. ASSUME NEW p \in Procs, Verify(p) PROVE LockInv'
  BY <1>21, KeepsLock, LetsGo DEF Verify
<1>22. ASSUME NEW p \in Procs, RestoreBackup(p) PROVE LockInv'
  BY <1>22, KeepsLock, LetsGo DEF RestoreBackup
<1>23. ASSUME NEW p \in Procs, IOError(p) PROVE LockInv'
  BY <1>23, KeepsLock, LetsGo DEF IOError, Undoable
<1>24. ASSUME NEW p \in Procs, Kill(p) PROVE LockInv'
  BY <1>24, KeepsLock, LetsGo DEF Kill
<1>25. CASE PowerLoss
  BY <1>25 DEF PowerLoss, LockInv, Ended, TypeOK
<1>26. CASE ExternalEdit
  BY <1>26 DEF ExternalEdit, LockInv
<1>27. CASE UNCHANGED vars
  BY <1>27 DEF vars, LockInv
<1> QED
  BY <1>1, <1>2, <1>3, <1>4, <1>5, <1>6, <1>7, <1>8, <1>9, <1>10, <1>11, <1>12, <1>13, <1>14, <1>15, <1>16, <1>17, <1>18, <1>19, <1>20, <1>21, <1>22, <1>23, <1>24, <1>25, <1>26, <1>27
     DEF Next, Step, Environment, Command, Apply, Prune

(***************************************************************************)
(* Never are two invocations inside apply() when all of them take the lock *)
(* in the same runtime directory.  (The restore command does not, when the *)
(* configuration names another directory than the default one.)            *)
(***************************************************************************)
THEOREM ExclusiveApply ==
  ASSUME \A p, q \in Procs : LockDir[p] = LockDir[q]
  PROVE  Spec => []Exclusive
<1>1. Init => LockInv
  BY DEF Init, LockInv, Inside
<1>2. TypeOK /\ LockInv /\ [Next]_vars => LockInv'
  BY LockStep
<1>3. LockInv => Exclusive
  BY DEF LockInv, Exclusive
<1> QED
  BY <1>1, <1>2, <1>3, TypeCorrect, PTL DEF Spec

-----------------------------------------------------------------------------
(***************************************************************************)
(* No torn boot file.  Sound: a whole menu, or no file.  Complete: backup  *)
(* n exists or existed, and while it exists it is a whole copy.            *)
(***************************************************************************)
Sound(f) == f # Absent => f.text # Partial
Complete(n) == n \in Names /\ backups[n] # Unused /\ (backups[n].gone \/ backups[n].written)

(***************************************************************************)
(* The invariant: everything that may be renamed over the boot file is     *)
(* whole.  A rendered menu is; a backup is a copy of the boot file; the    *)
(* error path only learns of a backup once the copy is complete, and a     *)
(* temporary file is synced by the time it is renamed.                     *)
(***************************************************************************)
SoundFiles == \A f \in {target} \cup durable : Sound(f)
SoundPlans == \A p \in Procs : Sound(plan[p].generated)
SoundCopies == \A n \in Names : backups[n] # Unused => Sound(backups[n].of)
CompleteBackups ==
  \A p \in Procs : /\ pc[p] = "copying" => copy[p] \in Names /\ backups[copy[p]] # Unused
                   /\ pc[p] = "copied" => Complete(copy[p])
                   /\ backup[p] # NoName => Complete(backup[p])
SyncedTemporary == \A p \in Procs : pc[p] = "flushed" => tmp[p] = "synced"
TornInv == SoundFiles /\ SoundPlans /\ SoundCopies /\ CompleteBackups /\ SyncedTemporary

(* A backup is never unmade or rewritten, and a complete one stays complete. *)
BackupsKept ==
  \A n \in Names : backups[n] # Unused =>
    /\ backups'[n] # Unused /\ backups'[n].of = backups[n].of
    /\ backups[n].gone => backups'[n].gone
    /\ backups[n].written => backups'[n].written

LEMMA CompleteKept ==
  ASSUME BackupsKept, NEW n, Complete(n)
  PROVE  Complete(n)'
BY DEF BackupsKept, Complete

(* Nothing new appears either. *)
BackupsOnly == \A n \in Names : backups'[n] # Unused => backups[n] # Unused

LEMMA CopiesKept ==
  ASSUME BackupsKept, BackupsOnly, SoundCopies
  PROVE  SoundCopies'
BY DEF BackupsKept, BackupsOnly, SoundCopies

LEMMA SyncKeeps ==
  ASSUME TypeOK, SyncDirectory, SoundFiles
  PROVE  BackupsKept /\ BackupsOnly /\ SoundFiles'
<1>1. \A n \in Names : backups'[n] = OnDisk(backups[n])
  BY DEF SyncDirectory
<1>2. BackupsKept /\ BackupsOnly
  BY <1>1, OnDiskType DEF BackupsKept, BackupsOnly, Backups, TypeOK
<1>3. SoundFiles'
  BY DEF SyncDirectory, SoundFiles
<1> QED
  BY <1>2, <1>3

(* Deleting, by a command or by a loss of power, keeps what there is. *)
LEMMA DeletionKeeps ==
  ASSUME TypeOK, NEW lost \in SUBSET Existing,
         \A n \in lost : backups'[n] = [backups[n] EXCEPT !.gone = TRUE],
         \A n \in Names \ lost : backups'[n] \in {backups[n], OnDisk(backups[n])}
  PROVE  BackupsKept /\ BackupsOnly
<1>1. ASSUME NEW n \in lost
      PROVE  /\ n \in Names /\ backups[n] \in Backups /\ backups[n] # Unused
             /\ backups'[n] = [backups[n] EXCEPT !.gone = TRUE] /\ backups'[n] # Unused
  <2>1. n \in Names /\ backups[n] \in Backups /\ [backups[n] EXCEPT !.gone = TRUE] \in Backups
    BY ContentType, BackupUpdate DEF TypeOK
  <2> QED
    BY <2>1, NoFileAssumption
<1>2. ASSUME NEW n \in Names \ lost
      PROVE  /\ backups[n] = Unused => backups'[n] = Unused
             /\ backups[n] # Unused => \/ backups'[n] = backups[n]
                                       \/ /\ backups[n] \in Backups /\ backups'[n] # Unused
                                          /\ backups'[n] = [backups[n] EXCEPT !.synced = TRUE]
  BY OnDiskType DEF TypeOK
<1>3. BackupsKept
  <2>1. ASSUME NEW n \in Names, backups[n] # Unused
        PROVE  /\ backups'[n] # Unused /\ backups'[n].of = backups[n].of
               /\ backups[n].gone => backups'[n].gone
               /\ backups[n].written => backups'[n].written
    <3>1. CASE n \in lost
      BY <1>1, <3>1 DEF Backups
    <3>2. CASE n \notin lost
      <4>1. CASE backups'[n] = backups[n]
        BY <2>1, <4>1
      <4>2. CASE backups'[n] # backups[n]
        <5>1. /\ backups[n] \in Backups /\ backups'[n] # Unused
              /\ backups'[n] = [backups[n] EXCEPT !.synced = TRUE]
          BY <1>2, <2>1, <3>2, <4>2
        <5> QED
          BY <5>1 DEF Backups
      <4> QED
        BY <4>1, <4>2
    <3> QED
      BY <3>1, <3>2
  <2> QED
    BY <2>1 DEF BackupsKept
<1>4. BackupsOnly
  BY <1>1, <1>2 DEF BackupsOnly
<1> QED
  BY <1>3, <1>4

LEMMA WithoutKeeps ==
  ASSUME TypeOK, NEW n \in Existing, backups' = Without(n)
  PROVE  BackupsKept /\ BackupsOnly
<1>1. n \in Names /\ backups'[n] = [backups[n] EXCEPT !.gone = TRUE]
  BY DEF Without, TypeOK, Existing
<1>2. \A m \in Names \ {n} : backups'[m] = backups[m]
  BY DEF Without, TypeOK
<1> DEFINE lost == {n}
<1>3. /\ lost \in SUBSET Existing
      /\ \A m \in lost : backups'[m] = [backups[m] EXCEPT !.gone = TRUE]
      /\ \A m \in Names \ lost : backups'[m] \in {backups[m], OnDisk(backups[m])}
  BY <1>1, <1>2
<1> HIDE DEF lost
<1> QED
  BY <1>3, DeletionKeeps

(* What a reader gets of a complete backup is whole. *)
LEMMA CompleteIsSound ==
  ASSUME TypeOK, SoundCopies, NEW n \in Existing, Complete(n)
  PROVE  Sound(ContentOf(n))
BY DEF Existing, Complete, ContentOf, SoundCopies

(* The steps that do not make a backup or sync a temporary file. *)
LEMMA TornFrame ==
  ASSUME TypeOK, TornInv, SoundFiles', SoundPlans', BackupsKept, BackupsOnly,
         NEW p \in Procs, NEW to, pc' = [pc EXCEPT ![p] = to],
         to \notin {"copying", "copied", "flushed"},
         UNCHANGED <<copy, backup>>, \A q \in Procs \ {p} : tmp'[q] = tmp[q]
  PROVE  TornInv'
<1>1. SoundCopies'
  BY CopiesKept DEF TornInv
<1>2. CompleteBackups'
  BY CompleteKept DEF TornInv, CompleteBackups, BackupsKept, TypeOK
<1>3. SyncedTemporary'
  BY DEF TornInv, SyncedTemporary, TypeOK
<1> QED
  BY <1>1, <1>2, <1>3 DEF TornInv

(* Nothing happens to the backups. *)
LEMMA SameBackups ==
  ASSUME UNCHANGED backups
  PROVE  BackupsKept /\ BackupsOnly
BY DEF BackupsKept, BackupsOnly

(* Every step keeps the invariant, when no invocation runs restore. *)
LEMMA TornStep ==
  ASSUME \A p \in Procs : Role[p] # "restore"
  PROVE  TypeOK /\ TornInv /\ [Next]_vars => TornInv'
<1> SUFFICES ASSUME TypeOK, TornInv, [Next]_vars PROVE TornInv'
  OBVIOUS
<1> USE DEF Go, fileVars, bakVars, procVars, counters
<1>a. ASSUME UNCHANGED fileVars PROVE SoundFiles'
  BY <1>a DEF TornInv, SoundFiles
<1>b. ASSUME UNCHANGED plan PROVE SoundPlans'
  BY <1>b DEF TornInv, SoundPlans
<1>1. ASSUME NEW p \in Procs, SelectBackup(p) PROVE TornInv'
  BY <1>1 DEF SelectBackup
<1>2. ASSUME NEW p \in Procs, RenderMenu(p) PROVE TornInv'
  <2>1. SoundPlans'
    BY <1>2, ApplyAssumption DEF RenderMenu, TornInv, SoundPlans, Sound, TypeOK
  <2> QED
    BY <1>2, <1>a, <2>1, SameBackups, TornFrame DEF RenderMenu, TypeOK
<1>3. ASSUME NEW p \in Procs, BuildPlan(p) PROVE TornInv'
  <2>1. \A q \in Procs : plan'[q].generated = plan[q].generated
    BY <1>3 DEF BuildPlan, TypeOK, Plans
  <2>2. SoundPlans'
    BY <2>1 DEF TornInv, SoundPlans, Sound
  <2> QED
    BY <1>3, <1>a, <2>2, SameBackups, TornFrame DEF BuildPlan
<1>4. ASSUME NEW p \in Procs, TakeLock(p) PROVE TornInv'
  BY <1>4, <1>a, <1>b, SameBackups, TornFrame DEF TakeLock
<1>5. ASSUME NEW p \in Procs, Inspect(p) PROVE TornInv'
  BY <1>5, <1>a, <1>b, SameBackups, TornFrame DEF Inspect
<1>6. ASSUME NEW p \in Procs, Compare(p) PROVE TornInv'
  BY <1>6, <1>a, <1>b, SameBackups, TornFrame DEF Compare
<1>7. ASSUME NEW p \in Procs, SkipBackup(p) PROVE TornInv'
  BY <1>7, <1>a, <1>b, SameBackups, TornFrame DEF SkipBackup
<1>8. ASSUME NEW p \in Procs, WriteTemporary(p) PROVE TornInv'
  BY <1>8, <1>a, <1>b, SameBackups, TornFrame DEF WriteTemporary, TypeOK
<1>9. ASSUME NEW p \in Procs, Verify(p) PROVE TornInv'
  BY <1>9, <1>a, <1>b, SameBackups, TornFrame DEF Verify
<1>10. ASSUME NEW p \in Procs, NothingToRestore(p) PROVE TornInv'
  BY <1>10, <1>a, <1>b, SameBackups, TornFrame DEF NothingToRestore, TypeOK
<1>11. ASSUME NEW p \in Procs, ListSurplus(p) PROVE TornInv'
  BY <1>11, <1>a, <1>b, SameBackups, TornFrame DEF ListSurplus
<1>12. ASSUME NEW p \in Procs, PruneDone(p) PROVE TornInv'
  BY <1>12, <1>a, <1>b, SameBackups, TornFrame DEF PruneDone
<1>13. ASSUME NEW p \in Procs, CreateBackup(p) PROVE TornInv'
  <2>1. CASE target = Absent
    BY <1>13, <2>1, <1>a, <1>b, SameBackups, TornFrame DEF CreateBackup
  <2>2. CASE target # Absent
    <3> DEFINE b == [of |-> target, written |-> FALSE, synced |-> FALSE,
                     gone |-> FALSE, born |-> births]
    <3>1. PICK n \in Names :
            /\ backups[n] = Unused
            /\ pc' = [pc EXCEPT ![p] = "copying"]
            /\ backups' = [backups EXCEPT ![n] = b]
            /\ copy' = [copy EXCEPT ![p] = n]
            /\ UNCHANGED <<fileVars, plan, backup, tmp>>
      BY <1>13, <2>2 DEF CreateBackup
    <3>2. b # Unused
      <4>1. b \in Backups
        BY <2>2 DEF TypeOK, Backups
      <4> QED
        BY <4>1, NoFileAssumption
    <3>3. BackupsKept
      BY <3>1 DEF BackupsKept, TypeOK
    <3>4. SoundCopies'
      BY <3>1 DEF TornInv, SoundFiles, SoundCopies, TypeOK
    <3>5. CompleteBackups'
      BY <3>1, <3>2, <3>3, CompleteKept DEF TornInv, CompleteBackups, BackupsKept, TypeOK
    <3>6. SyncedTemporary'
      BY <3>1 DEF TornInv, SyncedTemporary, TypeOK
    <3> QED
      BY <1>a, <1>b, <3>1, <3>4, <3>5, <3>6 DEF TornInv
  <2> QED
    BY <2>1, <2>2
<1>14. ASSUME NEW p \in Procs, WriteBackup(p) PROVE TornInv'
  <2>1. copy[p] \in Names /\ backups[copy[p]] # Unused /\ backups[copy[p]] \in Backups
    BY <1>14 DEF WriteBackup, TornInv, CompleteBackups, TypeOK
  <2>2. backups' = IF copy[p] \in Existing
                   THEN [backups EXCEPT ![copy[p]] = [backups[copy[p]] EXCEPT !.written = TRUE]]
                   ELSE backups
    BY <1>14, <2>1 DEF WriteBackup, TypeOK
  <2>3. [backups[copy[p]] EXCEPT !.written = TRUE] # Unused
    BY <2>1, BackupUpdate, NoFileAssumption
  <2>4. BackupsKept /\ BackupsOnly
    BY <2>1, <2>2, <2>3 DEF BackupsKept, BackupsOnly, TypeOK, Backups
  <2>5. Complete(copy[p])'
    BY <1>14, <2>1, <2>2, <2>3 DEF Complete, WriteBackup, TypeOK, Backups, Existing
  <2>6. CompleteBackups'
    BY <1>14, <2>4, <2>5, CompleteKept DEF WriteBackup, TornInv, CompleteBackups, BackupsKept, TypeOK
  <2>7. SyncedTemporary'
    BY <1>14 DEF WriteBackup, TornInv, SyncedTemporary, TypeOK
  <2> QED
    BY <1>14, <1>a, <1>b, <2>4, <2>6, <2>7, CopiesKept DEF WriteBackup, TornInv
<1>15. ASSUME NEW p \in Procs, SyncBackup(p) PROVE TornInv'
  <2>1. BackupsKept /\ BackupsOnly /\ SoundFiles'
    BY <1>15, SyncKeeps DEF SyncBackup, TornInv
  <2>2. Complete(copy[p])'
    BY <1>15, <2>1, CompleteKept DEF SyncBackup, TornInv, CompleteBackups
  <2>3. CompleteBackups'
    BY <1>15, <2>1, <2>2, CompleteKept DEF SyncBackup, TornInv, CompleteBackups, BackupsKept, TypeOK
  <2>4. SyncedTemporary'
    BY <1>15 DEF SyncBackup, TornInv, SyncedTemporary, TypeOK
  <2> QED
    BY <1>15, <1>b, <2>1, <2>3, <2>4, CopiesKept DEF SyncBackup, TornInv
<1>16. ASSUME NEW p \in Procs, SyncTemporary(p) PROVE TornInv'
  <2>1. SyncedTemporary'
    BY <1>16 DEF SyncTemporary, TornInv, SyncedTemporary, TypeOK
  <2>2. CompleteBackups'
    BY <1>16, SameBackups, CompleteKept DEF SyncTemporary, TornInv, CompleteBackups, TypeOK
  <2> QED
    BY <1>16, <1>a, <1>b, <2>1, <2>2, SameBackups, CopiesKept DEF SyncTemporary, TornInv
<1>17. ASSUME NEW p \in Procs, Rename(p) PROVE TornInv'
  <2>1. SoundFiles'
    BY <1>17 DEF Rename, TornInv, SoundFiles, SoundPlans, SyncedTemporary
  <2> QED
    BY <1>17, <1>b, <2>1, SameBackups, TornFrame DEF Rename, TypeOK
<1>18. ASSUME NEW p \in Procs, SyncRename(p) PROVE TornInv'
  BY <1>18, <1>b, SyncKeeps, TornFrame DEF SyncRename, TornInv
<1>19. ASSUME NEW p \in Procs, SyncRestored(p) PROVE TornInv'
  BY <1>19, <1>b, SyncKeeps, TornFrame DEF SyncRestored, TornInv
<1>20. ASSUME NEW p \in Procs, RestoreBackup(p) PROVE TornInv'
  <2>1. backup[p] \in Existing => Sound(ContentOf(backup[p]))
    BY <1>20, CompleteIsSound DEF RestoreBackup, TornInv, CompleteBackups
  <2>2. SoundFiles'
    BY <1>20, <2>1, <1>a DEF RestoreBackup, TornInv, SoundFiles
  <2> QED
    BY <1>20, <1>b, <2>2, SameBackups, TornFrame DEF RestoreBackup, TypeOK
<1>21. ASSUME NEW p \in Procs, RemoveCreated(p) PROVE TornInv'
  <2>1. SoundFiles'
    BY <1>21 DEF RemoveCreated, TornInv, SoundFiles, Sound
  <2> QED
    BY <1>21, <1>b, <2>1, SameBackups, TornFrame DEF RemoveCreated, TypeOK
<1>22. ASSUME NEW p \in Procs, RemoveSurplus(p) PROVE TornInv'
  <2>1. BackupsKept /\ BackupsOnly
    BY <1>22, SameBackups, WithoutKeeps DEF RemoveSurplus
  <2>2. \E to \in {"pruning", "prunefailed"} : pc' = [pc EXCEPT ![p] = to]
    BY <1>22 DEF RemoveSurplus
  <2> QED
    BY <1>22, <1>a, <1>b, <2>1, <2>2, TornFrame DEF RemoveSurplus
<1>23. ASSUME NEW p \in Procs, IOError(p) PROVE TornInv'
  <2>1. BackupsKept /\ BackupsOnly
    BY <1>23, SameBackups, WithoutKeeps DEF IOError
  <2>2. \E to : /\ to \notin {"copying", "copied", "flushed"}
                /\ pc' = [pc EXCEPT ![p] = to]
    BY <1>23 DEF IOError
  <2> QED
    BY <1>23, <1>a, <1>b, <2>1, <2>2, TornFrame DEF IOError, TypeOK
<1>24. ASSUME NEW p \in Procs, Kill(p) PROVE TornInv'
  BY <1>24, <1>a, <1>b, SameBackups, TornFrame DEF Kill
<1>25. CASE PowerLoss
  <2>1. BackupsKept /\ BackupsOnly
    <3>1. PICK lost \in SUBSET {n \in Existing : ~backups[n].synced} :
            backups' = [n \in Names |-> IF n \in lost THEN [backups[n] EXCEPT !.gone = TRUE]
                                        ELSE OnDisk(backups[n])]
      BY <1>25 DEF PowerLoss
    <3>2. /\ lost \in SUBSET Existing
          /\ \A n \in lost : n \in Names /\ backups'[n] = [backups[n] EXCEPT !.gone = TRUE]
          /\ \A n \in Names \ lost : backups'[n] \in {backups[n], OnDisk(backups[n])}
      BY <3>1 DEF Existing
    <3> QED
      BY <3>2, DeletionKeeps
  <2>2. SoundFiles'
    BY <1>25 DEF PowerLoss, TornInv, SoundFiles
  <2>3. CompleteBackups'
    BY <1>25, <2>1, CompleteKept DEF PowerLoss, TornInv, CompleteBackups, BackupsKept, TypeOK, Ended
  <2>4. SyncedTemporary'
    BY <1>25 DEF PowerLoss, TornInv, SyncedTemporary, TypeOK, Ended
  <2> QED
    BY <1>25, <1>b, <2>1, <2>2, <2>3, <2>4, CopiesKept DEF PowerLoss, TornInv
<1>26. CASE ExternalEdit
  <2>1. SoundFiles'
    BY <1>26, ApplyAssumption DEF ExternalEdit, TornInv, SoundFiles, Sound, Whole
  <2> QED
    BY <1>26, <2>1 DEF ExternalEdit, TornInv, SoundPlans, SoundCopies, CompleteBackups,
                   SyncedTemporary, Complete
<1>27. CASE UNCHANGED vars
  BY <1>27 DEF vars, TornInv, SoundFiles, SoundPlans, SoundCopies, CompleteBackups,
             SyncedTemporary, Complete
<1> QED
  BY <1>1, <1>2, <1>3, <1>4, <1>5, <1>6, <1>7, <1>8, <1>9, <1>10, <1>11, <1>12, <1>13, <1>14, <1>15, <1>16, <1>17, <1>18, <1>19, <1>20, <1>21, <1>22, <1>23, <1>24, <1>25, <1>26, <1>27
     DEF Next, Step, Environment, Command, Apply, Prune

(* The invariant holds at the start. *)
LEMMA TornInit == Init => TornInv
<1> SUFFICES ASSUME Init PROVE TornInv
  OBVIOUS
<1>1. SoundFiles
  BY ApplyAssumption DEF Init, SoundFiles, Sound, Whole
<1>2. SoundCopies
  BY ApplyAssumption DEF Init, SoundCopies, Sound
<1>3. SoundPlans /\ CompleteBackups /\ SyncedTemporary
  BY DEF Init, SoundPlans, Sound, CompleteBackups, SyncedTemporary
<1> QED
  BY <1>1, <1>2, <1>3 DEF TornInv

(***************************************************************************)
(* The boot file is never truncated, through any interleaving, I/O error,  *)
(* kill, power loss or edit by another program, as long as no restore      *)
(* command runs.  (A restore may read a backup that is still being copied: *)
(* with it the property does not hold.)                                    *)
(***************************************************************************)
THEOREM NeverTornApply ==
  ASSUME \A p \in Procs : Role[p] # "restore"
  PROVE  Spec => []NeverTorn
<1>1. Init => TornInv
  BY TornInit
<1>2. TypeOK /\ TornInv /\ [Next]_vars => TornInv'
  BY TornStep
<1>3. TornInv => NeverTorn
  BY DEF TornInv, SoundFiles, Sound, NeverTorn
<1> QED
  BY <1>1, <1>2, <1>3, TypeCorrect, PTL DEF Spec

-----------------------------------------------------------------------------
(***************************************************************************)
(* That apply() is a transaction, for any number of invocations that take  *)
(* the lock in one directory, any I/O errors, kills and power losses, as   *)
(* long as no other program edits the boot file and the clock of the file  *)
(* system tells two backups apart: a failure is undone, only a second one  *)
(* can break the undoing, and what is overwritten is in a backup.  At the  *)
(* end, what is left of that when other programs do edit it.               *)
(***************************************************************************)

OneLock == \A p, q \in Procs : LockDir[p] = LockDir[q]
NoEdits == MaxEdits = 0
FineClock == ClockGrain = 1
NoRestore == \A p \in Procs : Role[p] # "restore"

-----------------------------------------------------------------------------
(***************************************************************************)
(* The invariant.  Backups are created one after another, and a prune can  *)
(* only mean to delete those that existed when it listed them.             *)
(***************************************************************************)
BirthInv ==
  /\ \A n \in Names : backups[n] # Unused => backups[n].born < births
  /\ \A m, n \in Names :
       backups[m] # Unused /\ backups[n] # Unused /\ backups[m].born = backups[n].born => m = n

DoomedInv == \A p \in Procs : \A n \in doomed[p] : backups[n] # Unused

(* What is not on the disk yet is a copy of the file as it is. *)
AllSynced == \A n \in Existing : backups[n].synced
UnsyncedInv == \A n \in Existing : ~backups[n].synced => backups[n].of = target

(* What the plan says. *)
PlanInv ==
  \A p \in Procs : pc[p] \in Inside \cup {"planned"} =>
    /\ plan[p].kind = "create" => plan[p].installed = Absent
    /\ plan[p].kind = "update" => plan[p].installed # plan[p].generated

(***************************************************************************)
(* Where an invocation inside the lock is.  Reserved: its copy exists, is  *)
(* the newest of all, so that nobody means to prune it, and holds what the *)
(* plan was made for.  Copying: the copy is being made.  Kept: the copy    *)
(* can be restored.  Creating: there was no file, and nothing is needed.   *)
(***************************************************************************)
Fresh(p) == copy[p] = NoName /\ backup[p] = NoName

Newest(p) == /\ copy[p] \in Existing
             /\ backups[copy[p]].born = births - 1
             /\ \A q \in Procs : copy[p] \notin doomed[q]

Reserved(p) ==
  /\ plan[p].kind = "update"
  /\ copy[p] \in Existing
  /\ backups[copy[p]].born = births - 1
  /\ \A q \in Procs : copy[p] \notin doomed[q]
  /\ Normalize(backups[copy[p]].of) = plan[p].installed

Copying(p) == /\ Reserved(p)
              /\ backup[p] = NoName
              /\ ~backups[copy[p]].synced
              /\ target = backups[copy[p]].of

Kept(p) == Reserved(p) /\ backup[p] = copy[p] /\ backups[copy[p]].written /\ AllSynced

Creating(p) == plan[p].kind = "create" /\ Fresh(p) /\ AllSynced

Ready(p) == Creating(p) \/ Kept(p)

Old(p) == IF plan[p].kind = "create" THEN Absent ELSE backups[copy[p]].of
New(p) == plan[p].generated

Agrees(p) == (plan[p].kind = "update") = (target # Absent)
Untouched(p) == Normalize(target) = plan[p].installed /\ Agrees(p)

(* One conjunct for each stretch of the way. *)
Course(p) ==
  /\ pc[p] \in Before \cup {"locked"} => Fresh(p)
  /\ pc[p] = "inspected" => Fresh(p) /\ Agrees(p)
  /\ pc[p] = "checked" => Fresh(p) /\ Untouched(p)
  /\ pc[p] = "copying" => Copying(p) /\ ~backups[copy[p]].written
  /\ pc[p] = "copied" => Copying(p) /\ backups[copy[p]].written
  /\ pc[p] \in {"saved", "written", "flushed"} => Ready(p) /\ target = Old(p)
  /\ pc[p] = "flushed" => tmp[p] = "synced"
  /\ pc[p] \in {"renamed", "settled"} => Ready(p) /\ target = New(p)
  /\ pc[p] = "settled" => durable = {target}
  /\ pc[p] = "failing" =>
       \/ plan[p].kind = "update" /\ backup[p] = NoName /\ Untouched(p)
       \/ Ready(p) /\ target \in {Old(p), New(p)}
  /\ pc[p] = "restored" => Kept(p) /\ target = Old(p)
  /\ pc[p] = "removed" => Creating(p) /\ (target = Absent \/ (target = New(p) /\ faults >= 2))
  /\ pc[p] \in {"failing", "restored", "removed"} => faults >= 1
  /\ pc[p] = "rollbackfailed" => faults >= 2

CourseInv == \A p \in Procs : Course(p)

TransactionInv == BirthInv /\ DoomedInv /\ UnsyncedInv /\ PlanInv /\ CourseInv

-----------------------------------------------------------------------------
(* What the steps do to the backups.                                       *)

(* Save for the creation of one, backups only get written, synced or       *)
(* deleted.                                                                *)
Evolves ==
  \A n \in Names :
    /\ (backups'[n] = Unused) = (backups[n] = Unused)
    /\ backups[n] # Unused =>
         /\ backups'[n].of = backups[n].of /\ backups'[n].born = backups[n].born
         /\ backups[n].gone => backups'[n].gone
         /\ backups[n].written => backups'[n].written
         /\ backups[n].synced => backups'[n].synced

(* Deleting one backup touches no other. *)
LEMMA WithoutOne ==
  ASSUME TypeOK, NEW n \in Existing, backups' = Without(n)
  PROVE  /\ n \in Names /\ backups[n] \in Backups /\ backups'[n] = [backups[n] EXCEPT !.gone = TRUE]
         /\ backups'[n] # Unused /\ backups'[n].gone
         /\ \A m \in Names \ {n} : backups'[m] = backups[m]
         /\ Evolves
         /\ Existing' = Existing \ {n}
<1>1. n \in Names /\ backups[n] \in Backups /\ backups[n] # Unused
  BY NoFileAssumption DEF Existing, TypeOK
<1>2. /\ backups'[n] = [backups[n] EXCEPT !.gone = TRUE]
      /\ \A m \in Names \ {n} : backups'[m] = backups[m]
  BY <1>1 DEF Without, TypeOK
<1>3. backups'[n] \in Backups /\ backups'[n] # Unused /\ backups'[n].gone
  <2>1. backups'[n] \in Backups /\ backups'[n] # Unused
    BY <1>1, <1>2, BackupUpdate, NoFileAssumption
  <2>2. backups'[n].gone
    BY <1>1, <1>2 DEF Backups
  <2> QED
    BY <2>1, <2>2
<1>4. Evolves
  BY <1>1, <1>2, <1>3 DEF Evolves, Backups
<1>5. Existing' = Existing \ {n}
  BY <1>1, <1>2, <1>3 DEF Existing
<1> QED
  BY <1>1, <1>2, <1>3, <1>4, <1>5

(* Nor does a sync of the directory change anything but the flag. *)
LEMMA SyncAll ==
  ASSUME TypeOK, SyncDirectory
  PROVE  /\ Evolves /\ Existing' = Existing /\ AllSynced'
         /\ \A n \in Names : backups[n] # Unused =>
              backups[n] \in Backups /\ backups'[n] = [backups[n] EXCEPT !.synced = TRUE]
<1>1. ASSUME NEW n \in Names
      PROVE  /\ backups[n] = Unused => backups'[n] = Unused
             /\ backups[n] # Unused => /\ backups[n] \in Backups /\ backups'[n] # Unused
                                       /\ backups'[n] = [backups[n] EXCEPT !.synced = TRUE]
  BY OnDiskType DEF SyncDirectory, TypeOK
<1>2. ASSUME NEW n \in Names, backups[n] # Unused
      PROVE  /\ backups'[n].of = backups[n].of /\ backups'[n].born = backups[n].born
             /\ backups'[n].gone = backups[n].gone /\ backups'[n].written = backups[n].written
             /\ backups'[n].synced
  BY <1>1, <1>2 DEF Backups
<1>3. Evolves
  BY <1>1, <1>2 DEF Evolves
<1>4. Existing' = Existing
  BY <1>1, <1>2 DEF Existing
<1>5. AllSynced'
  BY <1>1, <1>2, <1>4 DEF AllSynced, Existing
<1> QED
  BY <1>1, <1>3, <1>4, <1>5

(* Writing a backup out. *)
LEMMA WriteOne ==
  ASSUME TypeOK, NEW n \in Existing, backups' = [backups EXCEPT ![n].written = TRUE]
  PROVE  /\ n \in Names /\ backups[n] \in Backups /\ backups'[n] = [backups[n] EXCEPT !.written = TRUE]
         /\ \A m \in Names \ {n} : backups'[m] = backups[m]
         /\ Evolves
         /\ Existing' = Existing
<1>1. n \in Names /\ backups[n] \in Backups /\ backups[n] # Unused
  BY NoFileAssumption DEF Existing, TypeOK
<1>2. /\ backups'[n] = [backups[n] EXCEPT !.written = TRUE]
      /\ \A m \in Names \ {n} : backups'[m] = backups[m]
  BY <1>1 DEF TypeOK
<1>3. backups'[n] \in Backups /\ backups'[n] # Unused
  BY <1>1, <1>2, BackupUpdate, NoFileAssumption
<1>4. Evolves
  BY <1>1, <1>2, <1>3 DEF Evolves, Backups
<1>5. Existing' = Existing
  BY <1>1, <1>2, <1>3 DEF Existing, Backups
<1> QED
  BY <1>1, <1>2, <1>3, <1>4, <1>5

(* A power loss deletes some that were not on the disk; the others are. *)
LEMMA LoseSome ==
  ASSUME TypeOK, PowerLoss
  PROVE  Evolves /\ AllSynced' /\ Existing' \subseteq Existing
<1>1. PICK lost \in SUBSET {n \in Existing : ~backups[n].synced} :
        backups' = [n \in Names |-> IF n \in lost THEN [backups[n] EXCEPT !.gone = TRUE]
                                    ELSE OnDisk(backups[n])]
  BY DEF PowerLoss
<1>2. ASSUME NEW n \in Names
      PROVE  /\ backups[n] = Unused => backups'[n] = Unused
             /\ backups[n] # Unused =>
                  /\ backups[n] \in Backups /\ backups'[n] # Unused
                  /\ \/ backups'[n] = [backups[n] EXCEPT !.synced = TRUE]
                     \/ backups'[n] = [backups[n] EXCEPT !.gone = TRUE]
  <2>1. CASE n \in lost
    <3>1. n \in Existing /\ backups[n] # Unused /\ backups[n] \in Backups
      BY <1>1, <2>1 DEF Existing, TypeOK
    <3>2. backups'[n] = [backups[n] EXCEPT !.gone = TRUE]
      BY <1>1, <2>1
    <3>3. backups'[n] # Unused
      BY <3>1, <3>2, BackupUpdate, NoFileAssumption
    <3> QED
      BY <3>1, <3>2, <3>3
  <2>2. CASE n \notin lost
    <3>1. backups'[n] = OnDisk(backups[n])
      BY <1>1, <2>2
    <3> QED
      BY <3>1, OnDiskType DEF TypeOK
  <2> QED
    BY <2>1, <2>2
<1>3. ASSUME NEW n \in Names, backups[n] # Unused
      PROVE  /\ backups'[n].of = backups[n].of /\ backups'[n].born = backups[n].born
             /\ backups[n].gone => backups'[n].gone
             /\ backups[n].written => backups'[n].written
             /\ backups[n].synced => backups'[n].synced
             /\ backups'[n].synced \/ backups'[n].gone
  <2>1. CASE backups'[n] = [backups[n] EXCEPT !.synced = TRUE]
    BY <1>2, <1>3, <2>1 DEF Backups
  <2>2. CASE backups'[n] = [backups[n] EXCEPT !.gone = TRUE]
    BY <1>2, <1>3, <2>2 DEF Backups
  <2> QED
    BY <1>2, <1>3, <2>1, <2>2
<1>4. Evolves
  BY <1>2, <1>3 DEF Evolves
<1>5. Existing' \subseteq Existing
  BY <1>2, <1>3 DEF Existing
<1>6. AllSynced'
  BY <1>2, <1>3 DEF AllSynced, Existing
<1> QED
  BY <1>4, <1>5, <1>6

(* The new backup. *)
NewBackup == [of |-> target, written |-> FALSE, synced |-> FALSE, gone |-> FALSE, born |-> births]

LEMMA CreateOne ==
  ASSUME TypeOK, target # Absent, NEW n \in Names, backups[n] = Unused,
         backups' = [backups EXCEPT ![n] = NewBackup]
  PROVE  /\ NewBackup \in Backups /\ NewBackup # Unused
         /\ backups'[n] = NewBackup
         /\ \A m \in Names \ {n} : backups'[m] = backups[m]
         /\ Existing' = Existing \cup {n}
<1>1. NewBackup \in Backups
  BY DEF TypeOK, Backups, NewBackup
<1>2. NewBackup # Unused
  BY <1>1, NoFileAssumption
<1>3. backups'[n] = NewBackup /\ \A m \in Names \ {n} : backups'[m] = backups[m]
  BY DEF TypeOK
<1>4. ~NewBackup.gone
  BY DEF NewBackup
<1>5. Existing' = Existing \cup {n}
  BY <1>2, <1>3, <1>4 DEF Existing
<1> QED
  BY <1>1, <1>2, <1>3, <1>5

(***************************************************************************)
(* Every step but the creation of a backup lets the backups evolve and     *)
(* creates none.                                                           *)
(***************************************************************************)
LEMMA EvolveStep ==
  ASSUME TypeOK, [Next]_vars, \A p \in Procs : ~CreateBackup(p)
  PROVE  Evolves /\ UNCHANGED births
<1> USE DEF bakVars
<1>a. UNCHANGED bakVars => Evolves /\ UNCHANGED births
  BY DEF Evolves
<1>1. ASSUME NEW p \in Procs, Apply(p) PROVE Evolves /\ UNCHANGED births
  <2>1. CASE WriteBackup(p)
    <3>1. \/ UNCHANGED backups
          \/ copy[p] \in Existing /\ backups' = [backups EXCEPT ![copy[p]].written = TRUE]
      BY <2>1 DEF WriteBackup
    <3> QED
      BY <2>1, <3>1, <1>a, WriteOne DEF WriteBackup
  <2>2. CASE SyncBackup(p) \/ SyncRename(p) \/ SyncRestored(p)
    BY <2>2, SyncAll DEF SyncBackup, SyncRename, SyncRestored, SyncDirectory
  <2>3. CASE ~WriteBackup(p) /\ ~SyncBackup(p) /\ ~SyncRename(p) /\ ~SyncRestored(p)
    BY <1>1, <2>3, <1>a DEF Apply, TakeLock, Inspect, Compare, SkipBackup, WriteTemporary,
         SyncTemporary, Rename, Verify, RestoreBackup, NothingToRestore, RemoveCreated
  <2> QED
    BY <2>1, <2>2, <2>3
<1>2. ASSUME NEW p \in Procs, Command(p) PROVE Evolves /\ UNCHANGED births
  BY <1>2, <1>a DEF Command, SelectBackup, RenderMenu, BuildPlan
<1>3. ASSUME NEW p \in Procs, Prune(p) PROVE Evolves /\ UNCHANGED births
  BY <1>3, <1>a, WithoutOne DEF Prune, ListSurplus, RemoveSurplus, PruneDone
<1>4. ASSUME NEW p \in Procs, IOError(p) PROVE Evolves /\ UNCHANGED births
  BY <1>4, <1>a, WithoutOne DEF IOError
<1>5. ASSUME NEW p \in Procs, Kill(p) PROVE Evolves /\ UNCHANGED births
  BY <1>5, <1>a DEF Kill
<1>6. CASE PowerLoss
  BY <1>6, LoseSome DEF PowerLoss
<1>7. CASE ExternalEdit \/ UNCHANGED vars
  BY <1>7, <1>a DEF ExternalEdit, vars
<1> QED
  BY <1>1, <1>2, <1>3, <1>4, <1>5, <1>6, <1>7 DEF Next, Step, Environment

-----------------------------------------------------------------------------
(* The parts of the invariant that concern the backups.                    *)

LEMMA BirthStep ==
  ASSUME TypeOK, BirthInv, [Next]_vars
  PROVE  BirthInv'
<1>1. CASE \A p \in Procs : ~CreateBackup(p)
  BY <1>1, EvolveStep DEF BirthInv, Evolves
<1>2. ASSUME NEW p \in Procs, CreateBackup(p) PROVE BirthInv'
  <2>1. CASE target = Absent
    BY <1>2, <2>1 DEF CreateBackup, BirthInv, bakVars
  <2>2. CASE target # Absent
    <3>1. PICK n \in Names : /\ backups[n] = Unused
                             /\ backups' = [backups EXCEPT ![n] = NewBackup]
                             /\ births' = births + 1
      BY <1>2, <2>2 DEF CreateBackup, NewBackup
    <3>2. /\ backups'[n] = NewBackup /\ NewBackup.born = births
          /\ \A m \in Names \ {n} : backups'[m] = backups[m]
      BY <2>2, <3>1, CreateOne DEF NewBackup
    <3>3. births \in Nat /\ \A m \in Names : backups[m] # Unused => backups[m].born \in Nat
      BY DEF TypeOK, Backups
    <3> QED
      BY <3>1, <3>2, <3>3 DEF BirthInv
  <2> QED
    BY <2>1, <2>2
<1> QED
  BY <1>1, <1>2

(* What Surplus lists exists. *)
LEMMA SurplusExists == Surplus(Retention) \subseteq Existing
BY DEF Surplus

LEMMA DoomedStep ==
  ASSUME TypeOK, DoomedInv, [Next]_vars
  PROVE  DoomedInv'
<1>1. \A n \in Names : backups[n] # Unused => backups'[n] # Unused
  <2>1. CASE \A p \in Procs : ~CreateBackup(p)
    BY <2>1, EvolveStep DEF Evolves
  <2>2. ASSUME NEW p \in Procs, CreateBackup(p), NEW n \in Names, backups[n] # Unused
        PROVE  backups'[n] # Unused
    <3>1. CASE target = Absent
      BY <2>2, <3>1 DEF CreateBackup, bakVars
    <3>2. CASE target # Absent
      <4>1. PICK m \in Names : backups[m] = Unused /\ backups' = [backups EXCEPT ![m] = NewBackup]
        BY <2>2, <3>2 DEF CreateBackup, NewBackup
      <4> QED
        BY <2>2, <3>2, <4>1, CreateOne
    <3> QED
      BY <3>1, <3>2
  <2> QED
    BY <2>1, <2>2
<1>2. ASSUME NEW q \in Procs PROVE doomed'[q] \subseteq doomed[q] \/ doomed'[q] \subseteq Existing
  <2>1. ASSUME NEW p \in Procs, ListSurplus(p) PROVE doomed'[q] = doomed[q] \/ doomed'[q] \subseteq Existing
    BY <2>1, SurplusExists DEF ListSurplus, TypeOK
  <2>2. ASSUME NEW p \in Procs, RemoveSurplus(p) PROVE doomed'[q] \subseteq doomed[q]
    BY <2>2 DEF RemoveSurplus, TypeOK
  <2>3. CASE \A p \in Procs : ~ListSurplus(p) /\ ~RemoveSurplus(p)
    BY <2>3 DEF Next, vars, procVars, Step, Environment, Command, Apply, Prune, TakeLock, Inspect,
         Compare, CreateBackup, WriteBackup, SyncBackup, SkipBackup, WriteTemporary, SyncTemporary,
         Rename, SyncRename, Verify, RestoreBackup, NothingToRestore, RemoveCreated, SyncRestored,
         PruneDone, SelectBackup, RenderMenu, BuildPlan, IOError, Kill, PowerLoss, ExternalEdit
  <2> QED
    BY <2>1, <2>2, <2>3
<1>3. \A q \in Procs : doomed'[q] \subseteq Names /\ doomed[q] \subseteq Names
  BY TypeStep DEF TypeOK
<1> QED
  BY <1>1, <1>2, <1>3 DEF DoomedInv, Existing

(***************************************************************************)
(* With a clock fine enough backups are listed in the order in which they  *)
(* were created, and the newest of all is never surplus.                   *)
(***************************************************************************)
LEMMA ListedByBirth ==
  ASSUME TypeOK, BirthInv, FineClock, NEW m \in Existing, NEW n \in Existing
  PROVE  /\ backups[m].born \in Nat /\ backups[n].born \in Nat
         /\ m # n => backups[m].born # backups[n].born
         /\ ListedBefore(m, n) <=> backups[m].born > backups[n].born
<1>1. /\ backups[m].born \in Nat /\ backups[n].born \in Nat
      /\ m \in Names /\ n \in Names /\ backups[m] # Unused /\ backups[n] # Unused
  BY DEF Existing, TypeOK, Backups
<1>2. Modified(m) = backups[m].born /\ Modified(n) = backups[n].born
  BY <1>1 DEF Modified, FineClock
<1>3. m \in Nat /\ n \in Nat
  BY <1>1, ApplyAssumption
<1>4. backups[m].born = backups[n].born => m = n
  BY <1>1 DEF BirthInv
<1> QED
  BY <1>1, <1>2, <1>3, <1>4 DEF ListedBefore

LEMMA NewestIsKept ==
  ASSUME TypeOK, BirthInv, FineClock, Retention # 0,
         NEW n \in Existing, backups[n].born = births - 1
  PROVE  n \notin Surplus(Retention)
<1>1. ASSUME NEW m \in Existing PROVE ~ListedBefore(m, n)
  <2>1. backups[m].born < births
    BY DEF BirthInv, Existing
  <2>2. births \in Nat
    BY DEF TypeOK
  <2> QED
    BY <2>1, <2>2, ListedByBirth
<1>2. {m \in Existing : ListedBefore(m, n)} = {}
  BY <1>1
<1>3. Cardinality({m \in Existing : ListedBefore(m, n)}) = 0
  BY <1>2, FS_EmptySet
<1> QED
  BY <1>3, ApplyAssumption DEF Surplus

-----------------------------------------------------------------------------
(* Plans.                                                                  *)

LEMMA PlanStep ==
  ASSUME TypeOK, PlanInv, [Next]_vars
  PROVE  PlanInv'
<1> USE DEF Inside, Before, Outside, Ended, Go
<1>1. ASSUME NEW p \in Procs, BuildPlan(p) PROVE PlanInv'
  <2> DEFINE installed == Normalize(target)
             kind == ChangeKind(installed, plan[p].generated)
  <2>1. /\ plan'[p] = [plan[p] EXCEPT !.kind = kind, !.installed = installed]
        /\ \A q \in Procs \ {p} : plan'[q] = plan[q] /\ pc'[q] = pc[q]
    BY <1>1 DEF BuildPlan, TypeOK
  <2>2. plan[p] \in Plans
    BY DEF TypeOK
  <2> HIDE DEF kind, installed
  <2>3. plan'[p].kind = kind /\ plan'[p].installed = installed
        /\ plan'[p].generated = plan[p].generated
    BY <2>1, <2>2 DEF Plans
  <2>4. /\ kind = "create" => installed = Absent
        /\ kind = "update" => installed # plan[p].generated
    BY DEF kind, ChangeKind
  <2> QED
    BY <2>1, <2>3, <2>4 DEF PlanInv
<1>2. ASSUME NEW p \in Procs, SelectBackup(p) \/ RenderMenu(p) PROVE PlanInv'
  <2>1. /\ pc'[p] \notin Inside \cup {"planned"}
        /\ \A q \in Procs \ {p} : plan'[q] = plan[q] /\ pc'[q] = pc[q]
    BY <1>2 DEF SelectBackup, RenderMenu, TypeOK
  <2> QED
    BY <2>1 DEF PlanInv
<1>3. ASSUME UNCHANGED plan,
             \A q \in Procs : pc'[q] \in Inside \cup {"planned"} => pc[q] \in Inside \cup {"planned"}
      PROVE  PlanInv'
  BY <1>3 DEF PlanInv
<1>4. ASSUME NEW p \in Procs, Apply(p) PROVE PlanInv'
  BY <1>4, <1>3 DEF TypeOK, Apply, procVars, TakeLock, Inspect, Compare, CreateBackup, WriteBackup,
       SyncBackup, SkipBackup, WriteTemporary, SyncTemporary, Rename, SyncRename, Verify,
       RestoreBackup, NothingToRestore, RemoveCreated, SyncRestored
<1>5. ASSUME NEW p \in Procs, Prune(p) PROVE PlanInv'
  BY <1>5, <1>3 DEF TypeOK, procVars, Prune, ListSurplus, RemoveSurplus, PruneDone
<1>6. ASSUME NEW p \in Procs, IOError(p) PROVE PlanInv'
  BY <1>6, <1>3 DEF TypeOK, IOError, Undoable
<1>7. ASSUME NEW p \in Procs, Kill(p) PROVE PlanInv'
  BY <1>7, <1>3 DEF TypeOK, procVars, Kill
<1>8. CASE PowerLoss \/ ExternalEdit \/ UNCHANGED vars
  BY <1>8, <1>3 DEF TypeOK, procVars, PowerLoss, ExternalEdit, vars
<1> QED
  BY <1>1, <1>2, <1>4, <1>5, <1>6, <1>7, <1>8 DEF Next, Step, Environment, Command

-----------------------------------------------------------------------------
(* The ways of the others.                                                 *)

(* Who is not inside only has faults to count. *)
LEMMA Idle ==
  ASSUME TypeOK, TypeOK', NEW p \in Procs, Course(p), pc[p] \notin Inside,
         pc'[p] = pc[p], copy'[p] = copy[p], backup'[p] = backup[p], faults' >= faults
  PROVE  Course(p)'
<1>1. pc'[p] \notin Inside
  OBVIOUS
<1>2. faults \in Nat /\ faults' \in Nat
  BY DEF TypeOK
<1> QED
  BY <1>1, <1>2 DEF Course, Fresh, Inside, Before

(* What an invocation can do that holds no lock. *)
OutsiderActs(p) ==
  /\ UNCHANGED <<target, durable, births, copy, backup, tmp>>
  /\ faults' >= faults
  /\ \A q \in Procs \ {p} : pc'[q] = pc[q] /\ plan'[q] = plan[q]
  /\ UNCHANGED backups \/ \E n \in Existing \cap doomed[p] : backups' = Without(n)
  /\ \A q \in Procs : \/ doomed'[q] \subseteq doomed[q]
                      \/ Retention # 0 /\ doomed'[q] \subseteq Surplus(Retention)

LEMMA OutsiderStep ==
  ASSUME TypeOK, NEW p \in Procs, pc[p] \notin Inside, Step(p)
  PROVE  OutsiderActs(p)
<1> USE DEF Inside, Go, fileVars, bakVars, procVars, counters
<1>0. faults \in Nat
  BY DEF TypeOK
<1>1. CASE Command(p)
  BY <1>0, <1>1 DEF Command, SelectBackup, RenderMenu, BuildPlan, OutsiderActs, TypeOK
<1>2. CASE Apply(p)
  <2>1. TakeLock(p)
    BY <1>2 DEF Apply, Inspect, Compare, CreateBackup, WriteBackup, SyncBackup, SkipBackup,
         WriteTemporary, SyncTemporary, Rename, SyncRename, Verify, RestoreBackup,
         NothingToRestore, RemoveCreated, SyncRestored
  <2> QED
    BY <1>0, <2>1 DEF TakeLock, OutsiderActs, TypeOK
<1>3. CASE ListSurplus(p)
  BY <1>0, <1>3 DEF ListSurplus, OutsiderActs, TypeOK
<1>4. CASE RemoveSurplus(p)
  <2>1. PICK n \in doomed[p] :
          /\ IF n \in Existing
             THEN /\ Go(p, "pruning", "pruning")
                  /\ backups' = Without(n)
                  /\ doomed' = [doomed EXCEPT ![p] = @ \ {n}]
             ELSE Go(p, "pruning", "prunefailed") /\ UNCHANGED <<backups, doomed>>
          /\ UNCHANGED <<fileVars, births, lock, plan, copy, backup, tmp, counters>>
    BY <1>4 DEF RemoveSurplus
  <2>2. UNCHANGED backups \/ \E m \in Existing \cap doomed[p] : backups' = Without(m)
    BY <2>1
  <2>3. \A q \in Procs : doomed'[q] \subseteq doomed[q]
    BY <2>1 DEF TypeOK
  <2> QED
    BY <1>0, <2>1, <2>2, <2>3 DEF OutsiderActs, TypeOK
<1>5. CASE PruneDone(p)
  BY <1>0, <1>5 DEF PruneDone, OutsiderActs, TypeOK
<1>6. CASE IOError(p)
  BY <1>0, <1>6 DEF IOError, Undoable, OutsiderActs, TypeOK
<1>7. CASE Kill(p)
  BY <1>0, <1>7 DEF Kill, OutsiderActs, TypeOK
<1> QED
  BY <1>1, <1>2, <1>3, <1>4, <1>5, <1>6, <1>7 DEF Step, Prune

(***************************************************************************)
(* Nothing that others do without the lock disturbs the one that holds it: *)
(* its copy is not among the backups that anybody prunes.                  *)
(***************************************************************************)
LEMMA NewestStays ==
  ASSUME TypeOK, BirthInv, FineClock, NEW p \in Procs, OutsiderActs(p),
         NEW q \in Procs \ {p}, Newest(q)
  PROVE  /\ Newest(q)'
         /\ backups'[copy[q]] = backups[copy[q]]
<1>1. copy[q] \in Existing /\ copy[q] \in Names
  BY DEF Newest, Existing
<1>2. copy[q] \in Existing' /\ backups'[copy[q]] = backups[copy[q]]
  <2>1. CASE UNCHANGED backups
    BY <1>1, <2>1 DEF Existing
  <2>2. ASSUME NEW n \in Existing \cap doomed[p], backups' = Without(n)
        PROVE  copy[q] \in Existing' /\ backups'[copy[q]] = backups[copy[q]]
    <3>1. n # copy[q]
      BY DEF Newest
    <3> QED
      BY <1>1, <2>2, <3>1, WithoutOne
  <2> QED
    BY <2>1, <2>2 DEF OutsiderActs
<1>3. ASSUME NEW r \in Procs PROVE copy[q] \notin doomed'[r]
  <2>1. Retention # 0 => copy[q] \notin Surplus(Retention)
    BY <1>1, NewestIsKept DEF Newest
  <2> QED
    BY <2>1 DEF OutsiderActs, Newest
<1> QED
  BY <1>1, <1>2, <1>3 DEF Newest, OutsiderActs

LEMMA ReserveStays ==
  ASSUME TypeOK, BirthInv, FineClock, NEW p \in Procs, OutsiderActs(p),
         NEW q \in Procs \ {p}, Reserved(q)
  PROVE  /\ Reserved(q)'
         /\ backups'[copy[q]] = backups[copy[q]]
<1>1. Newest(q)' /\ backups'[copy[q]] = backups[copy[q]]
  BY NewestStays DEF Reserved, Newest
<1> QED
  BY <1>1 DEF Reserved, Newest, OutsiderActs, Normalize

LEMMA ReadyStays ==
  ASSUME TypeOK, BirthInv, FineClock, NEW p \in Procs, OutsiderActs(p), NEW q \in Procs \ {p}
  PROVE  /\ Kept(q) => Kept(q)' /\ Old(q)' = Old(q)
         /\ Creating(q) => Creating(q)' /\ Old(q)' = Old(q)
         /\ Ready(q) => Ready(q)' /\ Old(q)' = Old(q)
<1>1. plan'[q] = plan[q] /\ copy'[q] = copy[q] /\ backup'[q] = backup[q]
  BY DEF OutsiderActs
<1>2. AllSynced => AllSynced'
  <2>1. CASE UNCHANGED backups
    BY <2>1 DEF AllSynced, Existing
  <2>2. ASSUME NEW n \in Existing, backups' = Without(n), AllSynced PROVE AllSynced'
    BY <2>2, WithoutOne DEF AllSynced, Existing
  <2> QED
    BY <2>1, <2>2 DEF OutsiderActs
<1>3. Reserved(q) => Reserved(q)' /\ backups'[copy[q]] = backups[copy[q]]
  BY ReserveStays
<1>4. Kept(q) => Kept(q)' /\ Old(q)' = Old(q)
  BY <1>1, <1>2, <1>3 DEF Kept, Old, Reserved
<1>5. Creating(q) => Creating(q)' /\ Old(q)' = Old(q)
  BY <1>1, <1>2 DEF Creating, Fresh, Old
<1> QED
  BY <1>4, <1>5 DEF Ready

LEMMA Bystander ==
  ASSUME TypeOK, TypeOK', BirthInv, FineClock, NEW p \in Procs, OutsiderActs(p),
         NEW q \in Procs \ {p}, Course(q)
  PROVE  Course(q)'
<1>1. /\ pc'[q] = pc[q] /\ plan'[q] = plan[q] /\ copy'[q] = copy[q] /\ backup'[q] = backup[q]
      /\ tmp'[q] = tmp[q] /\ UNCHANGED <<target, durable>>
  BY DEF OutsiderActs
<1>2. faults \in Nat /\ faults' \in Nat /\ faults' >= faults
  BY DEF TypeOK, OutsiderActs
<1>3. Reserved(q) => Reserved(q)' /\ backups'[copy[q]] = backups[copy[q]]
  BY ReserveStays
<1>4. Copying(q) => Copying(q)' /\ backups'[copy[q]] = backups[copy[q]]
  BY <1>1, <1>3 DEF Copying
<1>5. /\ Kept(q) => Kept(q)' /\ Old(q)' = Old(q)
      /\ Creating(q) => Creating(q)' /\ Old(q)' = Old(q)
      /\ Ready(q) => Ready(q)' /\ Old(q)' = Old(q)
  BY ReadyStays
<1>6. /\ Fresh(q)' = Fresh(q) /\ Agrees(q)' = Agrees(q) /\ Untouched(q)' = Untouched(q)
      /\ New(q)' = New(q)
  BY <1>1 DEF Fresh, Agrees, Untouched, New, Normalize
<1> QED
  BY <1>1, <1>2, <1>4, <1>5, <1>6 DEF Course

-----------------------------------------------------------------------------
(* The steps of the one inside.                                            *)

(* Nothing is asked of who has left, unless its rollback has failed. *)
LEMMA Left ==
  ASSUME NEW p \in Procs, pc'[p] \in Points \ (Inside \cup Before \cup {"rollbackfailed"})
  PROVE  Course(p)'
BY DEF Course, Inside, Before

(* What a step that leaves the backups alone does not change. *)
LEMMA Still ==
  ASSUME NEW p \in Procs, UNCHANGED <<backups, births, plan, copy, backup, doomed>>
  PROVE  /\ Fresh(p)' = Fresh(p) /\ Reserved(p)' = Reserved(p) /\ Kept(p)' = Kept(p)
         /\ Creating(p)' = Creating(p) /\ Ready(p)' = Ready(p)
         /\ Old(p)' = Old(p) /\ New(p)' = New(p)
         /\ target' = target => /\ Agrees(p)' = Agrees(p) /\ Untouched(p)' = Untouched(p)
                                /\ Copying(p)' = Copying(p)
<1>1. /\ Fresh(p)' = Fresh(p) /\ Reserved(p)' = Reserved(p) /\ (AllSynced)' = AllSynced
      /\ Old(p)' = Old(p) /\ New(p)' = New(p)
  BY DEF Fresh, Reserved, AllSynced, Existing, Normalize, Old, New
<1>2. Kept(p)' = Kept(p) /\ Creating(p)' = Creating(p)
  BY <1>1 DEF Kept, Creating
<1>3. Ready(p)' = Ready(p)
  BY <1>2 DEF Ready
<1>4. target' = target => /\ Agrees(p)' = Agrees(p) /\ Untouched(p)' = Untouched(p)
                          /\ Copying(p)' = Copying(p)
  BY <1>1 DEF Agrees, Untouched, Copying, Normalize
<1> QED
  BY <1>1, <1>2, <1>3, <1>4

(* A file and the lack of one are told apart, also when normalized. *)
LEMMA NormalizeTells ==
  ASSUME NEW f \in Maybe
  PROVE  /\ Normalize(f) = Absent <=> f = Absent
         /\ f # Absent => f \in Files
BY NoFileAssumption DEF Normalize, Maybe, Files

LEMMA ReservedFacts ==
  ASSUME TypeOK, NEW p \in Procs, Reserved(p)
  PROVE  /\ copy[p] \in Names /\ backups[copy[p]] \in Backups
         /\ backups[copy[p]].of \in Files /\ backups[copy[p]].of # Absent
         /\ copy[p] # NoName
<1>1. copy[p] \in Names /\ backups[copy[p]] \in Backups
  BY DEF Reserved, Existing, TypeOK
<1>2. backups[copy[p]].of \in Files
  BY <1>1 DEF Backups
<1> QED
  BY <1>1, <1>2, NoFileAssumption, ApplyAssumption

(* When there is no file, nothing waits to be synced. *)
LEMMA AbsentSynced ==
  ASSUME TypeOK, UnsyncedInv, target = Absent
  PROVE  AllSynced
<1>1. \A n \in Existing : backups[n].of # Absent
  BY NoFileAssumption DEF Existing, TypeOK, Backups
<1> QED
  BY <1>1 DEF UnsyncedInv, AllSynced

(* A sync keeps what is kept. *)
LEMMA SyncStill ==
  ASSUME TypeOK, NEW p \in Procs, SyncDirectory, UNCHANGED <<plan, copy, backup, doomed>>
  PROVE  /\ Reserved(p) => Reserved(p)' /\ backups'[copy[p]].written = backups[copy[p]].written
                           /\ backups'[copy[p]].of = backups[copy[p]].of
         /\ Kept(p) => Kept(p)' /\ Old(p)' = Old(p)
         /\ Creating(p) => Creating(p)' /\ Old(p)' = Old(p)
         /\ Ready(p) => Ready(p)' /\ Old(p)' = Old(p)
         /\ New(p)' = New(p)
<1>1. Evolves /\ Existing' = Existing /\ AllSynced' /\ births' = births
  BY SyncAll DEF SyncDirectory
<1>2. ASSUME Reserved(p)
      PROVE  /\ Reserved(p)' /\ backups'[copy[p]].written = backups[copy[p]].written
             /\ backups'[copy[p]].of = backups[copy[p]].of
  <2>1. /\ copy[p] \in Names /\ backups[copy[p]] \in Backups /\ backups[copy[p]] # Unused
        /\ backups'[copy[p]] = [backups[copy[p]] EXCEPT !.synced = TRUE]
    BY <1>2, ReservedFacts, SyncAll, NoFileAssumption
  <2>2. /\ backups'[copy[p]].written = backups[copy[p]].written
        /\ backups'[copy[p]].of = backups[copy[p]].of
        /\ backups'[copy[p]].born = backups[copy[p]].born
    BY <2>1 DEF Backups
  <2> QED
    BY <1>1, <1>2, <2>2 DEF Reserved, Normalize
<1>3. Kept(p) => Kept(p)' /\ Old(p)' = Old(p)
  BY <1>1, <1>2 DEF Kept, Old, Reserved
<1>4. Creating(p) => Creating(p)' /\ Old(p)' = Old(p)
  BY <1>1 DEF Creating, Old, Fresh
<1>5. Ready(p) => Ready(p)' /\ Old(p)' = Old(p)
  BY <1>3, <1>4 DEF Ready
<1>6. New(p)' = New(p)
  BY DEF New
<1> QED
  BY <1>2, <1>3, <1>4, <1>5, <1>6

(* Each step of the one inside leads it on its course. *)
LEMMA InsideStep ==
  ASSUME TypeOK, TypeOK', BirthInv, DoomedInv, UnsyncedInv, PlanInv,
         NEW p \in Procs, pc[p] \in Inside, Course(p), Step(p)
  PROVE  Course(p)'
<1> USE DEF Go, fileVars, bakVars, procVars, counters
<1>0. /\ target \in Maybe /\ faults \in Nat /\ faults' \in Nat
      /\ plan[p].kind \in {"create", "update"}
      /\ plan[p].kind = "create" => plan[p].installed = Absent
      /\ pc \in [Procs -> Points]
  BY DEF TypeOK, PlanInv, Maybe
<1>1. CASE Inspect(p)
  <2>1. CASE Agrees(p)
    <3>1. pc'[p] = "inspected" /\ Fresh(p)' /\ Agrees(p)'
      BY <1>0, <1>1, <2>1, Still DEF Inspect, Agrees, Course
    <3> QED
      BY <3>1 DEF Course, Before
  <2>2. CASE ~Agrees(p)
    <3>1. pc'[p] = "refused"
      BY <1>0, <1>1, <2>2 DEF Inspect, Agrees
    <3> QED
      BY <3>1, Left DEF Points, Ended, Inside, Before
  <2> QED
    BY <2>1, <2>2
<1>2. CASE Compare(p)
  <2>1. CASE PlanIsCurrent(p)
    <3>1. Untouched(p)
      BY <1>0, <1>2, <2>1 DEF Compare, PlanIsCurrent, Course, Untouched, Agrees, Normalize
    <3>2. pc'[p] = "checked" /\ Fresh(p)' /\ Untouched(p)'
      BY <1>0, <1>2, <2>1, <3>1, Still DEF Compare, Course
    <3> QED
      BY <3>2 DEF Course, Before
  <2>2. CASE ~PlanIsCurrent(p)
    <3>1. pc'[p] = "refused"
      BY <1>0, <1>2, <2>2 DEF Compare
    <3> QED
      BY <3>1, Left DEF Points, Ended, Inside, Before
  <2> QED
    BY <2>1, <2>2
<1>3. CASE CreateBackup(p)
  <2>1. Untouched(p) /\ Fresh(p) /\ target # Absent /\ plan[p].kind = "update"
    BY <1>3 DEF CreateBackup, Course, Untouched, Agrees
  <2>2. PICK n \in Names :
          /\ backups[n] = Unused /\ pc' = [pc EXCEPT ![p] = "copying"]
          /\ backups' = [backups EXCEPT ![n] = NewBackup]
          /\ births' = births + 1 /\ copy' = [copy EXCEPT ![p] = n]
          /\ UNCHANGED <<fileVars, lock, plan, backup, tmp, doomed, counters>>
    BY <1>3, <2>1 DEF CreateBackup, NewBackup
  <2>3. backups'[n] = NewBackup /\ n \in Existing'
    BY <2>1, <2>2, CreateOne
  <2>4. copy'[p] = n /\ pc'[p] = "copying" /\ births \in Nat
    BY <2>2 DEF TypeOK
  <2>5. \A q \in Procs : n \notin doomed'[q]
    BY <2>2 DEF DoomedInv, TypeOK
  <2>6. Reserved(p)'
    <3>1. backups'[n].of = target /\ backups'[n].born = births
      BY <2>3 DEF NewBackup
    <3>2. backups'[n].born = births' - 1
      BY <2>2, <2>4, <3>1
    <3>3. Normalize(backups'[n].of) = plan'[p].installed
      BY <2>1, <2>2, <3>1 DEF Untouched
    <3> QED
      BY <2>1, <2>2, <2>3, <2>4, <2>5, <3>2, <3>3 DEF Reserved, Normalize
  <2>7. Copying(p)' /\ ~backups'[copy'[p]].written
    BY <2>1, <2>2, <2>3, <2>4, <2>6 DEF Copying, NewBackup, Fresh
  <2> QED
    BY <2>4, <2>7 DEF Course, Before
<1>4. CASE WriteBackup(p)
  <2>1. Copying(p) /\ copy[p] \in Existing
    BY <1>4 DEF WriteBackup, Course, Copying, Reserved
  <2>2. /\ copy[p] \in Names /\ backups[copy[p]] \in Backups
        /\ backups'[copy[p]] = [backups[copy[p]] EXCEPT !.written = TRUE]
        /\ Existing' = Existing
    BY <1>4, <2>1, WriteOne DEF WriteBackup
  <2>3. /\ backups'[copy[p]].written /\ backups'[copy[p]].of = backups[copy[p]].of
        /\ backups'[copy[p]].born = backups[copy[p]].born
        /\ backups'[copy[p]].synced = backups[copy[p]].synced
    BY <2>2 DEF Backups
  <2>4. pc'[p] = "copied" /\ UNCHANGED <<target, births, plan, copy, backup, doomed>>
    BY <1>0, <1>4 DEF WriteBackup
  <2>5. Copying(p)'
    BY <2>1, <2>2, <2>3, <2>4 DEF Copying, Reserved, Normalize
  <2> QED
    BY <2>3, <2>4, <2>5 DEF Course, Before
<1>5. CASE SyncBackup(p)
  <2>1. Copying(p) /\ backups[copy[p]].written /\ SyncDirectory
    BY <1>5 DEF SyncBackup, Course
  <2>2. /\ pc'[p] = "saved" /\ backup'[p] = copy[p]
        /\ UNCHANGED <<target, births, plan, copy, doomed>>
    BY <1>0, <1>5 DEF SyncBackup, SyncDirectory, TypeOK
  <2>3. Existing' = Existing /\ AllSynced'
    BY <2>1, SyncAll
  <2>4. /\ backups'[copy[p]].written /\ backups'[copy[p]].of = backups[copy[p]].of
        /\ backups'[copy[p]].born = backups[copy[p]].born
    <3>1. /\ backups[copy[p]] \in Backups
          /\ backups'[copy[p]] = [backups[copy[p]] EXCEPT !.synced = TRUE]
      BY <2>1, ReservedFacts, SyncAll, NoFileAssumption DEF Copying
    <3> QED
      BY <2>1, <3>1 DEF Backups
  <2>5. Kept(p)' /\ target' = Old(p)'
    BY <2>1, <2>2, <2>3, <2>4 DEF Copying, Kept, Reserved, Old, Normalize
  <2> QED
    BY <2>2, <2>5 DEF Course, Before, Ready
<1>6. CASE SkipBackup(p)
  <2>1. plan[p].kind = "create" /\ Fresh(p) /\ target = Absent
    BY <1>6 DEF SkipBackup, Course, Untouched, Agrees
  <2>2. Creating(p) /\ target = Old(p)
    BY <2>1, AbsentSynced DEF Creating, Old
  <2>3. pc'[p] = "saved" /\ Creating(p)' /\ target' = Old(p)'
    BY <1>0, <1>6, <2>2, Still DEF SkipBackup
  <2> QED
    BY <2>3 DEF Course, Before, Ready
<1>7. CASE WriteTemporary(p)
  <2>1. pc'[p] = "written" /\ Ready(p)' /\ target' = Old(p)'
    BY <1>0, <1>7, Still DEF WriteTemporary, Course
  <2> QED
    BY <2>1 DEF Course, Before
<1>8. CASE SyncTemporary(p)
  <2>1. pc'[p] = "flushed" /\ Ready(p)' /\ target' = Old(p)' /\ tmp'[p] = "synced"
    BY <1>0, <1>8, Still DEF SyncTemporary, Course, TypeOK
  <2> QED
    BY <2>1 DEF Course, Before
<1>9. CASE Rename(p)
  <2>1. pc'[p] = "renamed" /\ Ready(p)' /\ target' = New(p)'
    BY <1>0, <1>9, Still DEF Rename, Course, New
  <2> QED
    BY <2>1 DEF Course, Before
<1>10. CASE SyncRename(p)
  <2>1. pc'[p] = "settled" /\ Ready(p)' /\ target' = New(p)' /\ durable' = {target'}
    BY <1>0, <1>10, SyncStill DEF SyncRename, Course, SyncDirectory
  <2> QED
    BY <2>1 DEF Course, Before
<1>11. CASE Verify(p)
  <2>1. pc'[p] = "applied"
    BY <1>0, <1>11 DEF Verify, Course, New
  <2> QED
    BY <2>1, Left DEF Points, Outside, Inside, Before
<1>12. CASE RestoreBackup(p)
  <2>1. Kept(p) /\ backup[p] = copy[p] /\ backup[p] \in Existing /\ faults >= 1
    BY <1>12 DEF RestoreBackup, Course, Ready, Kept, Creating, Reserved
  <2>2. /\ pc'[p] = "restored" /\ target' = ContentOf(backup[p])
        /\ UNCHANGED <<backups, births, plan, copy, backup, doomed, counters>>
    BY <1>0, <1>12, <2>1 DEF RestoreBackup
  <2>3. Kept(p)' /\ target' = Old(p)'
    BY <2>1, <2>2, Still DEF ContentOf, Kept, Old, Reserved
  <2> QED
    BY <2>1, <2>2, <2>3 DEF Course, Before
<1>13. CASE NothingToRestore(p)
  <2>1. pc'[p] = "failed"
    BY <1>0, <1>13 DEF NothingToRestore
  <2> QED
    BY <2>1, Left DEF Points, Ended, Inside, Before
<1>14. CASE RemoveCreated(p)
  <2>1. /\ pc'[p] = "removed" /\ target' = Absent
        /\ UNCHANGED <<backups, births, plan, copy, backup, doomed, counters>>
    BY <1>0, <1>14 DEF RemoveCreated
  <2>2. Creating(p) /\ faults >= 1
    BY <1>14 DEF RemoveCreated, Course, Ready, Kept, Reserved
  <2>3. Creating(p)'
    BY <2>1, <2>2, Still
  <2> QED
    BY <2>1, <2>2, <2>3 DEF Course, Before
<1>15. CASE SyncRestored(p)
  <2>1. pc'[p] = "failed"
    BY <1>0, <1>15 DEF SyncRestored
  <2> QED
    BY <2>1, Left DEF Points, Ended, Inside, Before
<1>16. CASE Kill(p)
  <2>1. pc'[p] = "dead"
    BY <1>0, <1>16 DEF Kill
  <2> QED
    BY <2>1, Left DEF Points, Ended, Inside, Before
<1>17. CASE IOError(p)
  <2>0. faults' = faults + 1 /\ UNCHANGED <<target, durable, births, plan, copy, backup, doomed>>
    BY <1>17 DEF IOError
  <2>1. CASE pc[p] \in Undoable /\ pc'[p] = "failing"
    <3>1. CASE pc[p] \in {"copying", "copied"}
      <4>1. Copying(p)
        BY <3>1 DEF Course
      <4>2. Normalize(target) = plan[p].installed /\ target # Absent /\ plan[p].kind = "update"
        BY <4>1, ReservedFacts DEF Copying, Reserved
      <4>3. plan'[p].kind = "update" /\ backup'[p] = NoName /\ Untouched(p)'
        BY <2>0, <4>1, <4>2 DEF Copying, Untouched, Agrees, Normalize
      <4> QED
        BY <1>0, <2>0, <2>1, <4>3 DEF Course, Before
    <3>2. CASE pc[p] \notin {"copying", "copied"}
      <4>1. UNCHANGED backups
        BY <1>17, <3>2 DEF IOError
      <4>2. \/ plan[p].kind = "update" /\ backup[p] = NoName /\ Untouched(p)
            \/ Ready(p) /\ target \in {Old(p), New(p)}
        <5>1. CASE pc[p] = "checked"
          <6>1. Fresh(p) /\ Untouched(p)
            BY <5>1 DEF Course
          <6>2. plan[p].kind = "create" => target = Absent
            BY <6>1 DEF Untouched, Agrees
          <6> QED
            BY <1>0, <6>1, <6>2, AbsentSynced DEF Ready, Creating, Fresh, Old
        <5>2. CASE pc[p] # "checked"
          BY <2>1, <3>2, <5>2 DEF Course, Undoable
        <5> QED
          BY <5>1, <5>2
      <4>3. \/ plan'[p].kind = "update" /\ backup'[p] = NoName /\ Untouched(p)'
            \/ Ready(p)' /\ target' \in {Old(p)', New(p)'}
        BY <2>0, <4>1, <4>2, Still
      <4> QED
        BY <1>0, <2>0, <2>1, <4>3 DEF Course, Before
    <3> QED
      BY <3>1, <3>2
  <2>2. CASE pc[p] \in {"locked", "inspected"} /\ pc'[p] = "refused"
    BY <2>2, Left DEF Points, Ended, Inside, Before
  <2>3. CASE pc[p] \in {"failing", "restored"} /\ pc'[p] = "rollbackfailed"
    <3>1. faults >= 1
      BY <2>3 DEF Course
    <3> QED
      BY <1>0, <2>0, <2>3, <3>1 DEF Course, Before
  <2>4. CASE pc[p] = "failing" /\ plan[p].kind = "create" /\ pc'[p] = "removed"
    <3>1. Creating(p) /\ target \in {Absent, New(p)} /\ faults >= 1
      BY <2>4 DEF Course, Ready, Kept, Reserved, Old
    <3>2. UNCHANGED backups
      BY <1>17, <2>4 DEF IOError
    <3>3. Creating(p)' /\ target' \in {Absent, New(p)'}
      BY <2>0, <3>1, <3>2, Still
    <3> QED
      BY <1>0, <2>0, <2>4, <3>1, <3>3 DEF Course, Before
  <2>5. CASE pc[p] = "removed" /\ pc'[p] = "failed"
    BY <2>5, Left DEF Points, Ended, Inside, Before
  <2> QED
    BY <1>0, <1>17, <2>1, <2>2, <2>3, <2>4, <2>5 DEF IOError, Inside
<1>18. ~Command(p) /\ ~Prune(p) /\ ~TakeLock(p)
  BY DEF Command, Prune, TakeLock, SelectBackup, RenderMenu, BuildPlan, ListSurplus, RemoveSurplus,
         PruneDone, Inside
<1> QED
  BY <1>1, <1>2, <1>3, <1>4, <1>5, <1>6, <1>7, <1>8, <1>9, <1>10, <1>11, <1>12, <1>13, <1>14, <1>15, <1>16, <1>17, <1>18
     DEF Step, Apply

-----------------------------------------------------------------------------
(* All of them together.                                                   *)

(* A step of one invocation moves no other. *)
LEMMA OwnStep ==
  ASSUME TypeOK, NEW p \in Procs, Step(p), NEW q \in Procs \ {p}
  PROVE  /\ pc'[q] = pc[q] /\ copy'[q] = copy[q] /\ backup'[q] = backup[q]
         /\ plan'[q] = plan[q] /\ faults' >= faults
<1> USE DEF Go, fileVars, bakVars, procVars, counters
<1>0. faults \in Nat
  BY DEF TypeOK
<1>1. CASE Command(p)
  BY <1>0, <1>1 DEF TypeOK, Command, SelectBackup, RenderMenu, BuildPlan
<1>2. CASE Apply(p)
  BY <1>0, <1>2 DEF TypeOK, Apply, TakeLock, Inspect, Compare, CreateBackup, WriteBackup, SyncBackup,
       SkipBackup, WriteTemporary, SyncTemporary, Rename, SyncRename, Verify, RestoreBackup,
       NothingToRestore, RemoveCreated, SyncRestored
<1>3. CASE Prune(p)
  BY <1>0, <1>3 DEF TypeOK, Prune, ListSurplus, RemoveSurplus, PruneDone
<1>4. CASE IOError(p)
  BY <1>0, <1>4 DEF TypeOK, IOError
<1>5. CASE Kill(p)
  BY <1>0, <1>5 DEF TypeOK, Kill
<1> QED
  BY <1>1, <1>2, <1>3, <1>4, <1>5 DEF Step

(* Outside the lock nothing is expected but that no copy is made yet. *)
LEMMA OutsiderSelf ==
  ASSUME TypeOK, NEW p \in Procs, Course(p), pc[p] \notin Inside, Step(p)
  PROVE  Course(p)'
<1> USE DEF Go, fileVars, bakVars, procVars, counters
<1>1. UNCHANGED <<copy, backup>>
  BY OutsiderStep DEF OutsiderActs
<1>2. ASSUME pc'[p] \in Before \cup {"locked"}, pc[p] \in Before PROVE Course(p)'
  <2>1. Fresh(p)'
    BY <1>1, <1>2 DEF Course, Fresh
  <2> QED
    BY <1>2, <2>1 DEF Course, Before
<1>3. CASE Command(p)
  <2>1. pc[p] \in Before /\ pc'[p] \in Before \cup {"nobackup", "unchanged"}
    BY <1>3 DEF Command, SelectBackup, RenderMenu, BuildPlan, Before, TypeOK
  <2> QED
    BY <1>2, <2>1, Left DEF Points, Ended, Inside, Before
<1>4. CASE Apply(p)
  <2>1. TakeLock(p)
    BY <1>4 DEF Inside, Apply, Inspect, Compare, CreateBackup, WriteBackup, SyncBackup, SkipBackup,
         WriteTemporary, SyncTemporary, Rename, SyncRename, Verify, RestoreBackup,
         NothingToRestore, RemoveCreated, SyncRestored
  <2>2. pc[p] \in Before /\ pc'[p] \in {"locked", "busy"}
    BY <2>1 DEF TakeLock, Before, TypeOK
  <2> QED
    BY <1>2, <2>2, Left DEF Points, Ended, Inside, Before
<1>5. CASE Prune(p)
  <2>1. pc'[p] \in {"pruning", "prunefailed", "done"}
    BY <1>5 DEF Prune, ListSurplus, RemoveSurplus, PruneDone, TypeOK
  <2> QED
    BY <2>1, Left DEF Points, Ended, Outside, Inside, Before
<1>6. CASE IOError(p) \/ Kill(p)
  <2>1. pc'[p] \in {"refused", "prunefailed", "dead"}
    BY <1>6 DEF IOError, Kill, Undoable, Inside, TypeOK
  <2> QED
    BY <2>1, Left DEF Points, Ended, Inside, Before
<1> QED
  BY <1>3, <1>4, <1>5, <1>6 DEF Step

LEMMA CourseStep ==
  ASSUME OneLock, NoEdits, FineClock, TypeOK, TypeOK', LockInv, TransactionInv, [Next]_vars
  PROVE  CourseInv'
<1>1. ASSUME NEW p \in Procs, Step(p), NEW q \in Procs PROVE Course(q)'
  <2>1. CASE pc[p] \in Inside
    <3>1. CASE q = p
      BY <1>1, <2>1, <3>1, InsideStep DEF TransactionInv, CourseInv
    <3>2. CASE q # p
      <4>1. pc[q] \notin Inside
        BY <2>1, <3>2 DEF LockInv, OneLock
      <4> QED
        BY <1>1, <3>2, <4>1, OwnStep, Idle DEF TransactionInv, CourseInv
    <3> QED
      BY <3>1, <3>2
  <2>2. CASE pc[p] \notin Inside
    <3>1. CASE q = p
      BY <1>1, <2>2, <3>1, OutsiderSelf DEF TransactionInv, CourseInv
    <3>2. CASE q # p
      BY <1>1, <2>2, <3>2, OutsiderStep, Bystander DEF TransactionInv, CourseInv
    <3> QED
      BY <3>1, <3>2
  <2> QED
    BY <2>1, <2>2
<1>2. ASSUME PowerLoss, NEW q \in Procs PROVE Course(q)'
  <2>1. (pc'[q] = pc[q] /\ pc[q] \in Ended) \/ pc'[q] = "dead"
    BY <1>2 DEF PowerLoss
  <2>2. faults' = faults
    BY <1>2 DEF PowerLoss
  <2> QED
    BY <2>1, <2>2 DEF TransactionInv, CourseInv, Course, Ended, Before
<1>3. ~ExternalEdit
  BY DEF ExternalEdit, NoEdits, TypeOK
<1>4. ASSUME UNCHANGED vars, NEW q \in Procs PROVE Course(q)'
  <2>1. /\ Fresh(q)' = Fresh(q) /\ Agrees(q)' = Agrees(q) /\ Untouched(q)' = Untouched(q)
        /\ Copying(q)' = Copying(q) /\ Kept(q)' = Kept(q) /\ Creating(q)' = Creating(q)
        /\ Ready(q)' = Ready(q) /\ Old(q)' = Old(q) /\ New(q)' = New(q)
    BY <1>4, Still DEF vars, fileVars, bakVars, procVars
  <2> QED
    BY <1>4, <2>1 DEF vars, fileVars, bakVars, procVars, counters, TransactionInv, CourseInv, Course
<1> QED
  BY <1>1, <1>2, <1>3, <1>4 DEF CourseInv, Next, Environment

(* The boot file only changes when everything is on the disk. *)
LEMMA ReplacesWhenSynced ==
  ASSUME TypeOK, NEW p \in Procs, Course(p), Step(p), target' # target
  PROVE  /\ Rename(p) \/ RestoreBackup(p) \/ RemoveCreated(p)
         /\ AllSynced /\ UNCHANGED backups
<1> USE DEF Go, fileVars, bakVars, procVars, counters
<1>1. Rename(p) \/ RestoreBackup(p) \/ RemoveCreated(p)
  BY DEF Step, Command, SelectBackup, RenderMenu, BuildPlan, Apply, TakeLock, Inspect, Compare,
         CreateBackup, WriteBackup, SyncBackup, SkipBackup, WriteTemporary, SyncTemporary,
         SyncRename, Verify, NothingToRestore, SyncRestored, SyncDirectory, Prune, ListSurplus,
         RemoveSurplus, PruneDone, IOError, Kill
<1>2. Ready(p)
  BY <1>1 DEF Rename, RestoreBackup, RemoveCreated, Course
<1>3. AllSynced
  BY <1>2 DEF Ready, Creating, Kept
<1>4. UNCHANGED backups
  BY <1>1 DEF Rename, RestoreBackup, RemoveCreated
<1> QED
  BY <1>1, <1>3, <1>4

LEMMA UnsyncedStep ==
  ASSUME NoEdits, TypeOK, TransactionInv, [Next]_vars
  PROVE  UnsyncedInv'
<1>a. (AllSynced)' => UnsyncedInv'
  BY DEF AllSynced, UnsyncedInv
<1>1. ASSUME target' = target, \A p \in Procs : ~CreateBackup(p) PROVE UnsyncedInv'
  BY <1>1, EvolveStep DEF Evolves, Existing, UnsyncedInv, TransactionInv
<1>2. ASSUME NEW p \in Procs, CreateBackup(p) PROVE UnsyncedInv'
  <2>1. CASE target = Absent
    BY <1>2, <2>1 DEF CreateBackup, bakVars, fileVars, Existing, UnsyncedInv, TransactionInv
  <2>2. CASE target # Absent
    <3>1. PICK n \in Names : /\ backups[n] = Unused
                             /\ backups' = [backups EXCEPT ![n] = NewBackup]
      BY <1>2, <2>2 DEF CreateBackup, NewBackup
    <3>2. target' = target
      BY <1>2 DEF CreateBackup, fileVars
    <3>3. /\ backups'[n] = NewBackup /\ Existing' = Existing \cup {n}
          /\ \A m \in Names \ {n} : backups'[m] = backups[m]
      BY <2>2, <3>1, CreateOne
    <3>4. \A m \in Existing : m \in Names /\ m # n
      BY <3>1 DEF Existing
    <3>5. backups'[n].of = target
      BY <3>3 DEF NewBackup
    <3> QED
      BY <3>2, <3>3, <3>4, <3>5 DEF UnsyncedInv, TransactionInv
  <2> QED
    BY <2>1, <2>2
<1>3. ASSUME NEW p \in Procs, Step(p), target' # target PROVE UnsyncedInv'
  <2>1. AllSynced /\ UNCHANGED backups
    BY <1>3, ReplacesWhenSynced DEF TransactionInv, CourseInv
  <2>2. (AllSynced)'
    BY <2>1 DEF AllSynced, Existing
  <2> QED
    BY <1>a, <2>2
<1>4. CASE PowerLoss
  BY <1>4, <1>a, LoseSome
<1>5. ~ExternalEdit
  BY DEF ExternalEdit, NoEdits, TypeOK
<1>6. UNCHANGED vars => target' = target
  BY DEF vars, fileVars
<1> QED
  BY <1>1, <1>2, <1>3, <1>4, <1>5, <1>6 DEF Next, Environment

(* The invariant, for any step. *)
LEMMA TransactionStep ==
  ASSUME OneLock, NoEdits, FineClock
  PROVE  TypeOK /\ TypeOK' /\ LockInv /\ TransactionInv /\ [Next]_vars => TransactionInv'
BY BirthStep, DoomedStep, PlanStep, CourseStep, UnsyncedStep DEF TransactionInv

(* The backups there are at the start were created in the order of their   *)
(* names.                                                                  *)
LEMMA TransactionInit == Init => TransactionInv
<1> SUFFICES ASSUME Init PROVE TransactionInv
  OBVIOUS
<1>1. PICK t \in Texts :
        backups = [n \in Names |->
          IF n \in OldBackups
          THEN [of |-> [text |-> t, nl |-> TRUE], written |-> TRUE, synced |-> TRUE,
                gone |-> FALSE, born |-> Cardinality({m \in OldBackups : m < n})]
          ELSE Unused]
  BY DEF Init
<1> DEFINE Older(n) == {m \in OldBackups : m < n}
<1>2. ASSUME NEW n \in Names, backups[n] # Unused
      PROVE  n \in OldBackups /\ backups[n].born = Cardinality(Older(n)) /\ backups[n].synced
  BY <1>1, <1>2
<1>3. IsFiniteSet(OldBackups) /\ OldBackups \subseteq Nat
  BY FS_Subset, ApplyAssumption
<1>4. ASSUME NEW n \in OldBackups, NEW S \in SUBSET OldBackups, Older(n) \subseteq S, n \in S
      PROVE  Cardinality(Older(n)) < Cardinality(S)
  <2>1. n \notin Older(n)
    BY <1>3
  <2>2. IsFiniteSet(S) /\ Older(n) # S
    BY <1>3, <1>4, <2>1, FS_Subset
  <2>3. /\ Cardinality(Older(n)) <= Cardinality(S) /\ Cardinality(Older(n)) # Cardinality(S)
        /\ Cardinality(Older(n)) \in Nat /\ Cardinality(S) \in Nat
    BY <1>4, <2>2, FS_Subset, FS_CardinalityType
  <2> QED
    BY <2>3
<1>5. BirthInv
  <2>1. ASSUME NEW n \in OldBackups PROVE Cardinality(Older(n)) < births
    BY <1>4 DEF Init
  <2>2. ASSUME NEW m \in OldBackups, NEW n \in OldBackups, m < n
        PROVE  Cardinality(Older(m)) < Cardinality(Older(n))
    <3>1. Older(m) \subseteq Older(n) /\ m \in Older(n) /\ Older(n) \subseteq OldBackups
      <4>1. m \in Nat /\ n \in Nat /\ \A k \in OldBackups : k \in Nat
        BY <1>3
      <4>2. \A k \in OldBackups : k < m => k < n
        BY <2>2, <4>1
      <4> QED
        BY <2>2, <4>2
    <3> QED
      BY <1>4, <3>1
  <2>3. \A n \in OldBackups : Cardinality(Older(n)) \in Nat
    BY <1>3, FS_Subset, FS_CardinalityType
  <2> HIDE DEF Older
  <2>4. ASSUME NEW m \in OldBackups, NEW n \in OldBackups,
               Cardinality(Older(m)) = Cardinality(Older(n))
        PROVE  m = n
    <3>1. m \in Nat /\ n \in Nat
      BY <1>3
    <3>2. ~(m < n) /\ ~(n < m)
      BY <2>2, <2>3, <2>4
    <3> QED
      BY <3>1, <3>2
  <2>5. ASSUME NEW m \in Names, NEW n \in Names, backups[m] # Unused, backups[n] # Unused,
               backups[m].born = backups[n].born
        PROVE  m = n
    <3>1. /\ m \in OldBackups /\ backups[m].born = Cardinality(Older(m))
          /\ n \in OldBackups /\ backups[n].born = Cardinality(Older(n))
      BY <1>2, <2>5
    <3> QED
      BY <2>4, <2>5, <3>1
  <2>6. ASSUME NEW n \in Names, backups[n] # Unused PROVE backups[n].born < births
    <3>1. n \in OldBackups /\ backups[n].born = Cardinality(Older(n))
      BY <1>2, <2>6
    <3> QED
      BY <2>1, <3>1
  <2> QED
    BY <2>5, <2>6 DEF BirthInv
<1>6. UnsyncedInv
  BY <1>2 DEF UnsyncedInv, Existing
<1>7. DoomedInv
  BY DEF Init, DoomedInv
<1>8. PlanInv
  BY DEF Init, PlanInv, Inside
<1>9. CourseInv
  BY DEF Init, CourseInv, Course, Fresh, Before
<1> QED
  BY <1>5, <1>6, <1>7, <1>8, <1>9 DEF TransactionInv

-----------------------------------------------------------------------------
(* What follows from the invariant.                                        *)

(* The invariant holds in every reachable state. *)
LEMMA Transactional ==
  ASSUME OneLock, NoEdits, FineClock
  PROVE  Spec => [](TypeOK /\ LockInv /\ TransactionInv)
<1>1. Init => TypeOK /\ LockInv /\ TransactionInv
  BY TypeInit, TransactionInit DEF Init, LockInv, Inside
<1>2. TypeOK /\ LockInv /\ TransactionInv /\ [Next]_vars => (TypeOK /\ LockInv /\ TransactionInv)'
  BY TypeStep, LockStep, TransactionStep DEF OneLock
<1> QED
  BY <1>1, <1>2, PTL DEF Spec

(***************************************************************************)
(* "apply failed and automatic rollback also failed" takes two I/O errors: *)
(* the backup that is being relied on is never pruned, and without an I/O  *)
(* error nothing fails.                                                    *)
(***************************************************************************)
THEOREM OnlyTwoErrorsBreakRollback ==
  ASSUME OneLock, NoEdits, FineClock
  PROVE  Spec => []RollbackBreaksOnlyTwice
<1>1. TransactionInv => RollbackBreaksOnlyTwice
  BY DEF TransactionInv, CourseInv, Course, RollbackBreaksOnlyTwice
<1> QED
  BY <1>1, Transactional, PTL

(* Which steps are answers of apply(). *)
LEMMA AnswersGiven ==
  ASSUME TypeOK, NEW p \in Procs, [Next]_vars, pc'[p] # pc[p]
  PROVE  /\ pc'[p] = "applied" => Verify(p)
         /\ pc'[p] = "failed" => \/ NothingToRestore(p) \/ SyncRestored(p)
                                 \/ IOError(p) /\ pc[p] = "removed"
<1> USE DEF Go, fileVars, bakVars, procVars, counters
<1>1. CASE Step(p)
  <2>1. CASE Apply(p)
    BY <2>1 DEF TypeOK, Apply, TakeLock, Inspect, Compare, CreateBackup, WriteBackup, SyncBackup,
         SkipBackup, WriteTemporary, SyncTemporary, Rename, SyncRename, Verify, RestoreBackup,
         NothingToRestore, RemoveCreated, SyncRestored
  <2>2. CASE Command(p) \/ Prune(p) \/ Kill(p)
    BY <2>2 DEF TypeOK, Command, SelectBackup, RenderMenu, BuildPlan, Prune, ListSurplus,
         RemoveSurplus, PruneDone, Kill
  <2>3. CASE IOError(p)
    BY <2>3 DEF TypeOK, IOError
  <2> QED
    BY <1>1, <2>1, <2>2, <2>3 DEF Step
<1>2. ASSUME NEW q \in Procs \ {p}, Step(q) PROVE FALSE
  BY <1>2, OwnStep
<1>3. CASE PowerLoss \/ ExternalEdit \/ UNCHANGED vars
  BY <1>3 DEF PowerLoss, ExternalEdit, vars
<1> QED
  BY <1>1, <1>2, <1>3 DEF Next, Environment

(***************************************************************************)
(* apply() returns only with the planned content in place, and throws only *)
(* with the previous content back in place, save for a created file whose  *)
(* unlink fails as well.                                                   *)
(***************************************************************************)
THEOREM AppliedOrUndone ==
  ASSUME OneLock, NoEdits, FineClock
  PROVE  Spec => AllOrNothing
<1> USE DEF Go, fileVars, bakVars, procVars, counters
<1> DEFINE Told1(p) == /\ pc'[p] = "applied" => target' = plan[p].generated
                       /\ pc'[p] = "failed" => \/ Normalize(target') = plan[p].installed
                                               \/ plan[p].kind = "create" /\ faults' >= 2
<1>1. ASSUME TypeOK, TransactionInv, [Next]_vars, NEW p \in Procs, pc'[p] # pc[p]
      PROVE  Told1(p)
  <2>0. /\ Course(p) /\ faults \in Nat /\ target \in Maybe
        /\ pc[p] \in Inside /\ plan[p].kind = "create" => plan[p].installed = Absent
    BY <1>1 DEF TransactionInv, CourseInv, PlanInv, TypeOK, Maybe
  <2>1. ASSUME pc'[p] = "applied" PROVE target' = plan[p].generated
    BY <1>1, <2>1, AnswersGiven DEF Verify, TypeOK
  <2>2. ASSUME NothingToRestore(p) PROVE Normalize(target') = plan[p].installed
    <3>1. Untouched(p)
      <4>1. ~Creating(p) /\ ~Kept(p)
        BY <1>1, <2>2, ReservedFacts DEF NothingToRestore, Creating, Kept
      <4> QED
        BY <2>0, <2>2, <4>1 DEF NothingToRestore, Course, Ready
    <3> QED
      BY <2>2, <3>1 DEF NothingToRestore, Untouched
  <2>3. ASSUME SyncRestored(p), pc[p] = "restored" PROVE Normalize(target') = plan[p].installed
    BY <2>0, <2>3 DEF SyncRestored, SyncDirectory, Course, Kept, Reserved, Old
  <2>4. ASSUME SyncRestored(p) \/ IOError(p), pc[p] = "removed"
        PROVE  \/ Normalize(target') = plan[p].installed
               \/ plan[p].kind = "create" /\ faults' >= 2
    <3>1. Creating(p) /\ (target = Absent \/ faults >= 2)
      BY <2>0, <2>4 DEF Course
    <3>2. target' = target /\ faults' >= faults /\ faults' \in Nat
      BY <2>0, <2>4 DEF SyncRestored, SyncDirectory, IOError
    <3> QED
      BY <2>0, <2>4, <3>1, <3>2 DEF Creating, Inside, Normalize
  <2>5. ASSUME pc'[p] = "failed"
        PROVE  \/ Normalize(target') = plan[p].installed
               \/ plan[p].kind = "create" /\ faults' >= 2
    BY <1>1, <2>2, <2>3, <2>4, <2>5, AnswersGiven DEF SyncRestored
  <2> QED
    BY <2>1, <2>5
<1>2. TypeOK /\ TransactionInv /\ [Next]_vars => [\A p \in Procs : pc'[p] # pc[p] => Told1(p)]_vars
  BY <1>1
<1> HIDE DEF Told1
<1>3. Spec => [][\A p \in Procs : pc'[p] # pc[p] => Told1(p)]_vars
  BY <1>2, Transactional, PTL DEF Spec
<1> QED
  BY <1>3, PTL DEF AllOrNothing, Told1

(***************************************************************************)
(* What the program overwrites is on the disk in a whole backup at that    *)
(* moment, byte for byte, unless it is what the same, failing invocation   *)
(* has just written.                                                       *)
(***************************************************************************)
THEOREM NothingIsLost ==
  ASSUME OneLock, NoEdits, FineClock
  PROVE  Spec => NothingLost
<1> USE DEF Go, fileVars, bakVars, procVars, counters
<1>1. ASSUME TypeOK, TransactionInv, [Next]_vars, Overwrites
      PROVE  \/ HeldIn(backups', target)
             \/ \E p \in Procs : pc[p] = "failing" /\ target = plan[p].generated
  <2>1. PICK p \in Procs : Step(p)
    BY <1>1 DEF Overwrites, Next, Environment, PowerLoss, ExternalEdit, vars, TypeOK
  <2>2. Course(p) /\ target # Absent
    BY <1>1 DEF TransactionInv, CourseInv, Overwrites
  <2>3. /\ Rename(p) \/ RestoreBackup(p) \/ RemoveCreated(p)
        /\ UNCHANGED backups
    BY <1>1, <2>1, <2>2, ReplacesWhenSynced DEF Overwrites
  <2>4. /\ Ready(p)
        /\ \/ target = Old(p)
           \/ pc[p] = "failing" /\ target = plan[p].generated
    BY <2>2, <2>3 DEF Rename, RestoreBackup, RemoveCreated, Course, New
  <2>5. ASSUME target = Old(p) PROVE HeldIn(backups, target)
    <3>1. Kept(p) /\ target = backups[copy[p]].of
      BY <2>2, <2>4, <2>5 DEF Ready, Creating, Kept, Reserved, Old
    <3> QED
      BY <3>1 DEF Kept, Reserved, AllSynced, Existing, HeldIn
  <2> QED
    BY <2>3, <2>4, <2>5 DEF HeldIn
<1>2. TypeOK /\ TransactionInv /\ [Next]_vars =>
        [Overwrites => \/ HeldIn(backups', target)
                       \/ \E p \in Procs : pc[p] = "failing" /\ target = plan[p].generated]_vars
  BY <1>1
<1> QED
  BY <1>2, Transactional, PTL DEF Spec, NothingLost

-----------------------------------------------------------------------------
(***************************************************************************)
(* Pruning.  The invariant: whoever means to delete a backup also means to *)
(* delete every older one that exists.                                     *)
(***************************************************************************)
OlderDoomed ==
  \A p \in Procs : \A n \in doomed[p], m \in Existing :
    backups[m].born < backups[n].born => m \in doomed[p]

(* The surplus is the tail of the list. *)
LEMMA SurplusIsTail ==
  ASSUME TypeOK, BirthInv, FineClock,
         NEW n \in Surplus(Retention), NEW m \in Existing, backups[m].born < backups[n].born
  PROVE  m \in Surplus(Retention)
<1> DEFINE Ahead(k) == {l \in Existing : ListedBefore(l, k)}
<1>1. n \in Existing /\ Cardinality(Ahead(n)) >= Retention
  BY DEF Surplus
<1>2. Ahead(n) \subseteq Ahead(m)
  <2>1. ASSUME NEW l \in Existing, ListedBefore(l, n) PROVE ListedBefore(l, m)
    <3>1. backups[l].born > backups[n].born /\ backups[l].born \in Nat /\ backups[n].born \in Nat
      BY <1>1, <2>1, ListedByBirth
    <3>2. backups[m].born \in Nat /\ (ListedBefore(l, m) <=> backups[l].born > backups[m].born)
      BY ListedByBirth
    <3> QED
      BY <3>1, <3>2
  <2> QED
    BY <2>1
<1>3. IsFiniteSet(Existing)
  BY FS_Subset, ApplyAssumption DEF Existing
<1>4. /\ Cardinality(Ahead(n)) <= Cardinality(Ahead(m))
      /\ Cardinality(Ahead(n)) \in Nat /\ Cardinality(Ahead(m)) \in Nat
  <2>1. IsFiniteSet(Ahead(m)) /\ IsFiniteSet(Ahead(n))
    BY <1>3, FS_Subset
  <2> QED
    BY <1>2, <2>1, FS_Subset, FS_CardinalityType
<1>5. Cardinality(Ahead(m)) >= Retention
  BY <1>1, <1>4, ApplyAssumption
<1> QED
  BY <1>5 DEF Surplus

(* A step that lists, deletes or creates nothing, or creates the newest. *)
LEMMA OlderDoomedFrame ==
  ASSUME TypeOK, BirthInv, DoomedInv, OlderDoomed, UNCHANGED doomed, [Next]_vars
  PROVE  OlderDoomed'
<1>1. CASE \A p \in Procs : ~CreateBackup(p)
  <2>1. Evolves
    BY <1>1, EvolveStep
  <2>2. \A n \in Existing' : n \in Existing /\ backups'[n].born = backups[n].born
    BY <2>1 DEF Evolves, Existing
  <2>3. \A p \in Procs : \A n \in doomed[p] : backups'[n].born = backups[n].born
    BY <2>1 DEF Evolves, DoomedInv, TypeOK
  <2> QED
    BY <2>2, <2>3 DEF OlderDoomed
<1>2. ASSUME NEW p \in Procs, CreateBackup(p) PROVE OlderDoomed'
  <2>1. CASE target = Absent
    BY <1>2, <2>1 DEF CreateBackup, bakVars, OlderDoomed, Existing
  <2>2. CASE target # Absent
    <3>1. PICK n \in Names : /\ backups[n] = Unused
                             /\ backups' = [backups EXCEPT ![n] = NewBackup]
      BY <1>2, <2>2 DEF CreateBackup, NewBackup
    <3>2. /\ backups'[n] = NewBackup /\ Existing' = Existing \cup {n}
          /\ \A m \in Names \ {n} : backups'[m] = backups[m]
      BY <2>2, <3>1, CreateOne
    <3>3. backups'[n].born = births
      BY <3>2 DEF NewBackup
    <3>4. ASSUME NEW q \in Procs, NEW k \in doomed[q]
          PROVE  k \in Names \ {n} /\ backups'[k] = backups[k] /\ backups[k].born < births
      BY <3>1, <3>2 DEF DoomedInv, BirthInv, TypeOK
    <3>5. births \in Nat /\ \A k \in Names : backups[k] # Unused => backups[k].born \in Nat
      BY DEF TypeOK, Backups
    <3>6. ASSUME NEW q \in Procs, NEW k \in doomed[q], NEW m \in Existing',
                 backups'[m].born < backups'[k].born
          PROVE  m \in doomed[q]
      <4>1. backups[k].born \in Nat
        BY <3>4, <3>5 DEF DoomedInv
      <4>2. m # n
        BY <3>3, <3>4, <3>5, <3>6, <4>1
      <4>3. m \in Existing /\ backups'[m] = backups[m]
        BY <3>2, <4>2 DEF Existing
      <4> QED
        BY <3>4, <3>6, <4>3 DEF OlderDoomed
    <3> QED
      BY <3>6 DEF OlderDoomed
  <2> QED
    BY <2>1, <2>2
<1> QED
  BY <1>1, <1>2

LEMMA OlderDoomedStep ==
  ASSUME FineClock, TypeOK, BirthInv, DoomedInv, OlderDoomed, [Next]_vars
  PROVE  OlderDoomed'
<1> USE DEF Go, fileVars, bakVars, procVars, counters
<1>1. ASSUME NEW p \in Procs, ListSurplus(p) PROVE OlderDoomed'
  <2>1. /\ UNCHANGED backups
        /\ doomed'[p] = {} \/ doomed'[p] = Surplus(Retention)
        /\ \A q \in Procs \ {p} : doomed'[q] = doomed[q]
    BY <1>1 DEF ListSurplus, TypeOK
  <2>2. ASSUME NEW n \in doomed'[p], NEW m \in Existing, backups[m].born < backups[n].born
        PROVE  m \in doomed'[p]
    BY <2>1, <2>2, SurplusIsTail
  <2> QED
    BY <2>1, <2>2 DEF OlderDoomed, Existing
<1>2. ASSUME NEW p \in Procs, RemoveSurplus(p) PROVE OlderDoomed'
  <2>1. PICK n \in doomed[p] :
          /\ \A m \in doomed[p] \ {n} : ListedBefore(n, m)
          /\ IF n \in Existing
             THEN /\ backups' = Without(n)
                  /\ doomed' = [doomed EXCEPT ![p] = doomed[p] \ {n}]
             ELSE UNCHANGED <<backups, doomed>>
    BY <1>2 DEF RemoveSurplus
  <2>2. CASE n \notin Existing
    BY <2>1, <2>2 DEF OlderDoomed, Existing
  <2>3. CASE n \in Existing
    <3>1. Existing' = Existing \ {n} /\ Evolves
      BY <2>1, <2>3, WithoutOne
    <3>2. /\ doomed'[p] = doomed[p] \ {n}
          /\ \A q \in Procs \ {p} : doomed'[q] = doomed[q]
      BY <2>1, <2>3 DEF TypeOK
    <3>3. \A q \in Procs : \A k \in doomed[q] : backups'[k].born = backups[k].born
      BY <3>1 DEF Evolves, DoomedInv, TypeOK
    <3>4. \A m \in Existing : backups'[m].born = backups[m].born
      BY <3>1 DEF Evolves, Existing
    <3> QED
      BY <3>1, <3>2, <3>3, <3>4 DEF OlderDoomed
  <2> QED
    BY <2>2, <2>3
<1>3. CASE \A p \in Procs : ~ListSurplus(p) /\ ~RemoveSurplus(p)
  <2>1. UNCHANGED doomed
    BY <1>3 DEF Next, vars, Step, Environment, Command, Apply, Prune, TakeLock, Inspect,
         Compare, CreateBackup, WriteBackup, SyncBackup, SkipBackup, WriteTemporary, SyncTemporary,
         Rename, SyncRename, Verify, RestoreBackup, NothingToRestore, RemoveCreated, SyncRestored,
         PruneDone, SelectBackup, RenderMenu, BuildPlan, IOError, Kill, PowerLoss, ExternalEdit
  <2> QED
    BY <2>1, OlderDoomedFrame
<1> QED
  BY <1>1, <1>2, <1>3

(***************************************************************************)
(* Pruning never deletes a backup while it means to keep an older one,     *)
(* with any number of prunes, applies and restores at the same time.       *)
(***************************************************************************)
THEOREM PrunesOldestFirst ==
  ASSUME FineClock
  PROVE  Spec => OldestGoFirst
<1> DEFINE Inv == TypeOK /\ BirthInv /\ DoomedInv /\ OlderDoomed
           Kept1 == \A p \in Procs, n \in Existing :
             pc[p] = "pruning" /\ doomed'[p] # doomed[p] /\ n \in doomed[p] \ doomed'[p]
               => \A m \in Existing : backups[m].born < backups[n].born => m \in doomed[p]
<1>1. Init => Inv
  BY TypeInit, TransactionInit DEF TransactionInv, Init, OlderDoomed
<1>2. Inv /\ [Next]_vars => Inv'
  BY TypeStep, BirthStep, DoomedStep, OlderDoomedStep
<1>3. Inv => [Kept1]_vars
  BY DEF OlderDoomed
<1> HIDE DEF Inv, Kept1
<1>4. Spec => [][Kept1]_vars
  BY <1>1, <1>2, <1>3, PTL DEF Spec
<1> QED
  BY <1>4, PTL DEF Kept1, OldestGoFirst

-----------------------------------------------------------------------------
(***************************************************************************)
(* When other programs edit the file and restores run.  What an invocation *)
(* found may be gone by the time it renames, but its copy is not: that is  *)
(* the newest backup until the rename, and what the error path restores    *)
(* is that copy.                                                           *)
(***************************************************************************)
Restorable(p) == /\ copy[p] \in Names /\ backup[p] = copy[p]
                 /\ backups[copy[p]] # Unused /\ backups[copy[p]].written

CopyCourse(p) ==
  /\ pc[p] \in Before \cup {"locked", "inspected", "checked"} => Fresh(p)
  /\ pc[p] \in Inside /\ plan[p].kind = "create" => Fresh(p)
  /\ pc[p] \in {"copying", "copied"} => Newest(p) /\ backup[p] = NoName
  /\ pc[p] = "copied" => backups[copy[p]].written
  /\ pc[p] \in {"saved", "written", "flushed"} /\ plan[p].kind = "update" =>
       Newest(p) /\ Restorable(p) /\ backups[copy[p]].synced
  /\ pc[p] \in {"renamed", "settled", "failing"} /\ backup[p] # NoName => Restorable(p)

CopyInv == BirthInv /\ DoomedInv /\ \A p \in Procs : CopyCourse(p)

(* Who is not inside has no copy yet, or needs it no more. *)
LEMMA CopyIdle ==
  ASSUME NEW p \in Procs, CopyCourse(p), pc[p] \notin Inside,
         pc'[p] \in Ended \cup Outside \/ (pc'[p] = pc[p] /\ copy'[p] = copy[p] /\ backup'[p] = backup[p])
  PROVE  CopyCourse(p)'
BY DEF CopyCourse, Fresh, Inside, Before, Outside, Ended

LEMMA CopyBystander ==
  ASSUME TypeOK, BirthInv, FineClock, NEW p \in Procs, OutsiderActs(p),
         NEW q \in Procs \ {p}, CopyCourse(q)
  PROVE  CopyCourse(q)'
<1>1. pc'[q] = pc[q] /\ plan'[q] = plan[q] /\ copy'[q] = copy[q] /\ backup'[q] = backup[q]
  BY DEF OutsiderActs
<1>2. Newest(q) => Newest(q)' /\ backups'[copy[q]] = backups[copy[q]]
  BY NewestStays
<1>3. Restorable(q) => Restorable(q)'
  <2>1. Evolves
    <3>1. CASE UNCHANGED backups
      BY <3>1 DEF Evolves
    <3>2. ASSUME NEW n \in Existing \cap doomed[p], backups' = Without(n) PROVE Evolves
      BY <3>2, WithoutOne
    <3> QED
      BY <3>1, <3>2 DEF OutsiderActs
  <2> QED
    BY <1>1, <2>1 DEF Restorable, Evolves
<1> QED
  BY <1>1, <1>2, <1>3 DEF CopyCourse, Fresh

(* Outside the lock nothing is copied. *)
LEMMA CopyOutsider ==
  ASSUME TypeOK, NEW p \in Procs, CopyCourse(p), pc[p] \notin Inside, Step(p)
  PROVE  CopyCourse(p)'
<1>1. UNCHANGED <<copy, backup>>
  BY OutsiderStep DEF OutsiderActs
<1>2. \/ pc'[p] \in Ended \cup Outside
      \/ pc[p] \in Before /\ pc'[p] \in Before \cup {"locked"}
  BY DEF Step, Command, SelectBackup, RenderMenu, BuildPlan, Apply, TakeLock, Inspect, Compare, CreateBackup,
     WriteBackup, SyncBackup, SkipBackup, WriteTemporary, SyncTemporary, Rename, SyncRename, Verify,
     RestoreBackup, NothingToRestore, RemoveCreated, SyncRestored, Prune, ListSurplus, RemoveSurplus,
     PruneDone, IOError, Undoable, Kill, Go, Inside, Before, Outside, Ended, TypeOK
<1>3. CASE pc'[p] \in Ended \cup Outside
  BY <1>3, CopyIdle
<1>4. CASE pc[p] \in Before /\ pc'[p] \in Before \cup {"locked"}
  BY <1>1, <1>4 DEF CopyCourse, Fresh, Before
<1> QED
  BY <1>2, <1>3, <1>4

LEMMA CopyInside ==
  ASSUME TypeOK, TypeOK', BirthInv, DoomedInv, NEW p \in Procs, pc[p] \in Inside, CopyCourse(p), Step(p)
  PROVE  CopyCourse(p)'
<1> USE DEF Go, fileVars, bakVars, procVars, counters
<1>0. plan' = plan
  BY DEF Inside, Step, Command, SelectBackup, RenderMenu, BuildPlan, Apply, TakeLock, Inspect, Compare,
     CreateBackup, WriteBackup, SyncBackup, SkipBackup, WriteTemporary, SyncTemporary, Rename, SyncRename,
     Verify, RestoreBackup, NothingToRestore, RemoveCreated, SyncRestored, Prune, ListSurplus, RemoveSurplus,
     PruneDone, IOError, Kill
<1>1. CASE Inspect(p) \/ Compare(p) \/ SkipBackup(p)
  BY <1>0, <1>1 DEF Inspect, Compare, SkipBackup, CopyCourse, Fresh, Before, Inside, TypeOK
<1>2. CASE CreateBackup(p)
  <2>1. Fresh(p) /\ plan[p].kind = "update" /\ backup' = backup /\ pc[p] = "checked"
    BY <1>2 DEF CreateBackup, CopyCourse
  <2>2. CASE target = Absent
    BY <1>0, <1>2, <2>1, <2>2 DEF CreateBackup, CopyCourse, Fresh, Before, TypeOK
  <2>3. CASE target # Absent
    <3>1. PICK n \in Names : /\ backups[n] = Unused
                             /\ backups' = [backups EXCEPT ![n] = NewBackup]
                             /\ births' = births + 1
                             /\ copy' = [copy EXCEPT ![p] = n]
                             /\ pc' = [pc EXCEPT ![p] = "copying"]
      BY <1>2, <2>3 DEF CreateBackup, NewBackup
    <3>2. backups'[n] = NewBackup /\ Existing' = Existing \cup {n}
      BY <2>3, <3>1, CreateOne
    <3>3. copy'[p] = n /\ pc'[p] = "copying" /\ births' - 1 = births
      BY <3>1 DEF TypeOK
    <3>4. NewBackup.born = births
      BY DEF NewBackup
    <3>5. \A q \in Procs : n \notin doomed'[q]
      BY <1>2, <3>1 DEF CreateBackup, DoomedInv
    <3>6. Newest(p)'
      BY <3>2, <3>3, <3>4, <3>5 DEF Newest
    <3> QED
      BY <1>0, <2>1, <3>3, <3>6 DEF CopyCourse, Fresh, Before
  <2> QED
    BY <2>2, <2>3
<1>3. CASE WriteBackup(p)
  <2>1. Newest(p) /\ backup[p] = NoName /\ plan[p].kind = "update"
    BY <1>3, ApplyAssumption DEF WriteBackup, CopyCourse, Newest, Existing, Fresh, Inside, TypeOK
  <2>2. backups' = [backups EXCEPT ![copy[p]].written = TRUE] /\ copy[p] \in Existing
    BY <1>3, <2>1 DEF WriteBackup, Newest
  <2>3. backups[copy[p]] \in Backups /\ backups'[copy[p]] = [backups[copy[p]] EXCEPT !.written = TRUE]
        /\ Existing' = Existing
    BY <2>2, WriteOne
  <2>4. Newest(p)' /\ backups'[copy[p]].written
    BY <1>3, <2>1, <2>3 DEF WriteBackup, Newest, Backups
  <2> QED
    BY <1>0, <1>3, <2>1, <2>4 DEF WriteBackup, CopyCourse, Before, TypeOK
<1>4. CASE SyncBackup(p)
  <2>1. Newest(p) /\ backups[copy[p]].written /\ plan[p].kind = "update" /\ copy[p] \in Names
    BY <1>4, ApplyAssumption DEF SyncBackup, CopyCourse, Newest, Existing, Fresh, Inside, TypeOK
  <2>2. /\ Existing' = Existing /\ backups[copy[p]] \in Backups
        /\ backups'[copy[p]] = [backups[copy[p]] EXCEPT !.synced = TRUE]
    BY <1>4, <2>1, SyncAll DEF SyncBackup, Newest, Existing
  <2>3. /\ backups'[copy[p]].synced /\ backups'[copy[p]].written
        /\ backups'[copy[p]].born = backups[copy[p]].born
    BY <2>1, <2>2 DEF Backups
  <2>4. Newest(p)'
    BY <1>4, <2>1, <2>2, <2>3 DEF SyncBackup, SyncDirectory, Newest
  <2>5. backup'[p] = copy[p] /\ copy'[p] = copy[p] /\ pc'[p] = "saved"
    BY <1>4 DEF SyncBackup, TypeOK
  <2>6. Restorable(p)'
    BY <2>1, <2>2, <2>3, <2>4, <2>5 DEF Restorable, Newest, Existing
  <2> QED
    BY <1>0, <2>1, <2>3, <2>4, <2>5, <2>6 DEF CopyCourse, Before
<1>5. CASE WriteTemporary(p) \/ SyncTemporary(p) \/ Rename(p) \/ Verify(p)
  <2>1. UNCHANGED <<backups, births, copy, backup, doomed>>
    BY <1>5 DEF WriteTemporary, SyncTemporary, Rename, Verify
  <2>2. /\ Newest(p)' = Newest(p) /\ Restorable(p)' = Restorable(p) /\ Fresh(p)' = Fresh(p)
        /\ backups'[copy'[p]] = backups[copy[p]]
    BY <2>1 DEF Newest, Restorable, Fresh, Existing
  <2>3. /\ pc[p] \in {"saved", "written", "flushed", "settled"}
        /\ pc'[p] \in {"written", "flushed", "renamed", "applied", "failing"}
        /\ pc'[p] \in {"written", "flushed", "renamed"} => pc[p] \in {"saved", "written", "flushed"}
        /\ pc'[p] = "failing" => pc[p] = "settled"
    BY <1>5 DEF WriteTemporary, SyncTemporary, Rename, Verify, TypeOK
  <2>4. plan[p].kind \in {"create", "update"}
    BY DEF TypeOK
  <2> QED
    BY <1>0, <2>1, <2>2, <2>3, <2>4 DEF CopyCourse, Before, Inside, Fresh
<1>6. CASE SyncRename(p)
  <2>1. pc[p] = "renamed" /\ pc'[p] = "settled" /\ UNCHANGED <<copy, backup>>
    BY <1>6 DEF SyncRename, TypeOK
  <2>2. \A n \in Names : backups[n] # Unused => backups'[n] # Unused /\ backups'[n].written = backups[n].written
    BY <1>6, SyncAll DEF SyncRename, Evolves, Backups
  <2>3. Restorable(p) => Restorable(p)'
    BY <2>1, <2>2 DEF Restorable
  <2> QED
    BY <1>0, <2>1, <2>3 DEF CopyCourse, Fresh, Before, Inside
<1>7. CASE RestoreBackup(p) \/ NothingToRestore(p) \/ RemoveCreated(p) \/ SyncRestored(p)
  <2>1. UNCHANGED <<copy, backup>> /\ pc'[p] \in {"restored", "removed", "failed", "rollbackfailed"}
    BY <1>7 DEF RestoreBackup, NothingToRestore, RemoveCreated, SyncRestored, TypeOK
  <2> QED
    BY <1>0, <2>1 DEF CopyCourse, Fresh, Before, Inside
<1>8. CASE IOError(p)
  <2>1. UNCHANGED <<copy, backup>>
        /\ \/ pc'[p] = "failing" /\ pc[p] \in Undoable
           \/ pc'[p] \in {"refused", "rollbackfailed", "removed", "failed", "prunefailed"}
    BY <1>8 DEF IOError, TypeOK
  <2>2. Restorable(p) => Restorable(p)'
    BY <1>8, <2>1, WithoutOne DEF IOError, Restorable, Backups
  <2>3. pc'[p] = "failing" /\ backup[p] # NoName => Restorable(p)
    BY <2>1 DEF Undoable, CopyCourse, Fresh, Inside, TypeOK
  <2> QED
    BY <1>0, <2>1, <2>2, <2>3 DEF Undoable, CopyCourse, Fresh, Before, Inside
<1>9. CASE Kill(p)
  BY <1>9 DEF Kill, CopyCourse, Before, Inside, TypeOK
<1> QED
  BY <1>1, <1>2, <1>3, <1>4, <1>5, <1>6, <1>7, <1>8, <1>9 DEF Step, Command, SelectBackup, RenderMenu,
     BuildPlan, Apply, TakeLock, Prune, ListSurplus, RemoveSurplus, PruneDone, Inside

LEMMA CopyStep ==
  ASSUME OneLock, FineClock, TypeOK, TypeOK', LockInv, CopyInv, [Next]_vars
  PROVE  CopyInv'
<1>1. BirthInv' /\ DoomedInv'
  BY BirthStep, DoomedStep DEF CopyInv
<1>2. ASSUME NEW p \in Procs, Step(p), NEW q \in Procs PROVE CopyCourse(q)'
  <2>1. CASE q = p
    BY <1>2, <2>1, CopyInside, CopyOutsider DEF CopyInv
  <2>2. CASE q # p /\ pc[p] \in Inside
    <3>1. pc[q] \notin Inside
      BY <2>2 DEF LockInv, OneLock
    <3> QED
      BY <1>2, <2>2, <3>1, OwnStep, CopyIdle DEF CopyInv
  <2>3. CASE q # p /\ pc[p] \notin Inside
    BY <1>2, <2>3, OutsiderStep, CopyBystander DEF CopyInv
  <2> QED
    BY <2>1, <2>2, <2>3
<1>3. ASSUME PowerLoss, NEW q \in Procs PROVE CopyCourse(q)'
  BY <1>3 DEF PowerLoss, CopyCourse, Ended, Before, Inside
<1>4. ASSUME ExternalEdit \/ UNCHANGED vars, NEW q \in Procs PROVE CopyCourse(q)'
  <2>1. UNCHANGED <<backups, births, pc, plan, copy, backup, doomed>>
    BY <1>4 DEF ExternalEdit, vars, bakVars, procVars
  <2>2. Newest(q)' = Newest(q) /\ Restorable(q)' = Restorable(q) /\ Fresh(q)' = Fresh(q)
    BY <2>1 DEF Newest, Restorable, Fresh, Existing
  <2> QED
    BY <2>1, <2>2 DEF CopyInv, CopyCourse
<1> QED
  BY <1>1, <1>2, <1>3, <1>4 DEF CopyInv, Next, Environment

(***************************************************************************)
(* With edits by other programs and with restores, a content can be lost   *)
(* only if it appeared after the invocation that overwrites it had made    *)
(* its copy.                                                               *)
(***************************************************************************)
THEOREM OnlyTheWindowLoses ==
  ASSUME OneLock, FineClock
  PROVE  Spec => LostOnlyInWindow
<1> DEFINE Excused(p) == /\ pc[p] \in {"flushed", "failing"}
                         /\ copy[p] # NoName => target # backups[copy[p]].of
<1>1. Init => TypeOK /\ LockInv /\ CopyInv
  <2>1. SUFFICES ASSUME Init PROVE \A p \in Procs : CopyCourse(p)
    BY <2>1, TypeInit, TransactionInit DEF CopyInv, TransactionInv, Init, LockInv, Inside
  <2> QED
    BY <2>1 DEF Init, CopyCourse, Fresh, Inside
<1>2. TypeOK /\ LockInv /\ CopyInv /\ [Next]_vars => (TypeOK /\ LockInv /\ CopyInv)'
  BY TypeStep, LockStep, CopyStep
<1>3. ASSUME TypeOK, CopyInv, Next, Overwrites
      PROVE  HeldIn(backups', target) \/ \E p \in Procs : Excused(p)
  <2>1. PICK p \in Procs : Step(p)
    BY <1>3 DEF Next, Environment, PowerLoss, ExternalEdit, Overwrites, TypeOK
  <2>2. Rename(p) \/ RestoreBackup(p) \/ RemoveCreated(p)
    BY <1>3, <2>1 DEF Overwrites, Step, Command, SelectBackup, RenderMenu, BuildPlan, Apply, TakeLock, Inspect,
       Compare, CreateBackup, WriteBackup, SyncBackup, SkipBackup, WriteTemporary, SyncTemporary, SyncRename,
       Verify, NothingToRestore, SyncRestored, SyncDirectory, Prune, ListSurplus, RemoveSurplus, PruneDone,
       IOError, Kill, fileVars
  <2>3. backups' = backups /\ CopyCourse(p) /\ pc[p] \in {"flushed", "failing"}
        /\ plan[p].kind \in {"create", "update"}
    BY <1>3, <2>2 DEF Rename, RestoreBackup, RemoveCreated, bakVars, Go, CopyInv, TypeOK, Inside
  <2>4. CASE copy[p] = NoName
    BY <2>3, <2>4
  <2>5. CASE copy[p] # NoName /\ target # backups[copy[p]].of
    BY <2>3, <2>5
  <2>6. CASE copy[p] # NoName /\ target = backups[copy[p]].of
    <3>1. plan[p].kind = "update"
      BY <2>3, <2>6 DEF CopyCourse, Fresh, Inside
    <3>2. CASE Rename(p)
      <4>1. Newest(p) /\ Restorable(p) /\ backups[copy[p]].synced
        BY <2>3, <3>1, <3>2 DEF Rename, Go, CopyCourse
      <4> QED
        BY <2>3, <2>6, <4>1 DEF Newest, Restorable, Existing, HeldIn
    <3>3. CASE RestoreBackup(p)
      <4>1. Restorable(p)
        BY <2>3, <3>3 DEF RestoreBackup, Go, CopyCourse
      <4>2. target' = target
        BY <2>6, <3>3, <4>1 DEF RestoreBackup, Restorable, ContentOf, fileVars
      <4> QED
        BY <1>3, <4>2 DEF Overwrites
    <3>4. CASE RemoveCreated(p)
      BY <3>1, <3>4 DEF RemoveCreated
    <3> QED
      BY <2>2, <3>2, <3>3, <3>4
  <2> QED
    BY <2>4, <2>5, <2>6
<1>4. TypeOK /\ CopyInv /\ [Next]_vars =>
        [Overwrites => HeldIn(backups', target) \/ \E p \in Procs : Excused(p)]_vars
  BY <1>3
<1> HIDE DEF Excused
<1>5. Spec => [][Overwrites => HeldIn(backups', target) \/ \E p \in Procs : Excused(p)]_vars
  BY <1>1, <1>2, <1>4, PTL DEF Spec
<1> QED
  BY <1>5, PTL DEF LostOnlyInWindow, Excused

-----------------------------------------------------------------------------
(***************************************************************************)
(* ApplyService implements AtomicReplace: with one lock and nobody else    *)
(* who edits the boot file, apply, refresh and prune-backups are, for      *)
(* whoever looks at the file, the archive and the answers, a sequence of   *)
(* atomic replacements.  The refinement mapping is that of the instance    *)
(* Replacement in module ApplyService.                                     *)
(***************************************************************************)

(* The mapped variables archive and answer. *)
WholeCopies == {m \in Existing : backups[m].written /\ backups[m].synced}
Archived == {backups[n].of : n \in WholeCopies}
Answered == [p \in Procs |-> Told(p)]

(* A step of the abstract specification, or none. *)
Refines == [Replacement!Next]_(Replacement!vars)

-----------------------------------------------------------------------------
(***************************************************************************)
(* The invariant: that of the transaction and of the whole files, and that *)
(* only an apply gets past its plan, with a complete menu.                 *)
(***************************************************************************)
MenuInv ==
  \A p \in Procs : pc[p] \in Inside \cup {"selected", "planned"} =>
    Role[p] = "apply" /\ plan[p].generated \in Whole /\ plan[p].generated.nl

LEMMA MenuStep ==
  ASSUME NoRestore, TypeOK, MenuInv, [Next]_vars
  PROVE  MenuInv'
<1> USE DEF Inside, Before, Outside, Ended, Go, fileVars, bakVars, procVars, counters
<1>1. ASSUME NEW p \in Procs, BuildPlan(p) PROVE MenuInv'
  <2>1. /\ plan[p] \in Plans /\ plan'[p].generated = plan[p].generated
        /\ \A q \in Procs \ {p} : plan'[q] = plan[q] /\ pc'[q] = pc[q]
    BY <1>1 DEF BuildPlan, TypeOK, Plans
  <2> QED
    BY <1>1, <2>1 DEF BuildPlan, MenuInv
<1>2. ASSUME NEW p \in Procs, RenderMenu(p) PROVE MenuInv'
  <2>1. PICK t \in Texts : plan' = [plan EXCEPT ![p].generated = [text |-> t, nl |-> TRUE]]
    BY <1>2 DEF RenderMenu
  <2>2. plan[p] \in Plans /\ [text |-> t, nl |-> TRUE] \in Whole
    BY DEF TypeOK, Whole
  <2>3. plan'[p].generated = [text |-> t, nl |-> TRUE]
    BY <2>1, <2>2 DEF TypeOK, Plans
  <2>4. /\ Role[p] = "apply" /\ plan'[p].generated \in Whole /\ plan'[p].generated.nl
        /\ \A q \in Procs \ {p} : plan'[q] = plan[q] /\ pc'[q] = pc[q]
    BY <1>2, <2>1, <2>2, <2>3 DEF RenderMenu, TypeOK
  <2> QED
    BY <2>4 DEF MenuInv
<1>3. ASSUME UNCHANGED plan,
             \A q \in Procs : pc'[q] \in Inside \cup {"selected", "planned"} =>
                              pc[q] \in Inside \cup {"selected", "planned"}
      PROVE  MenuInv'
  BY <1>3 DEF MenuInv
<1>4. ASSUME NEW p \in Procs, Apply(p) PROVE MenuInv'
  BY <1>4, <1>3 DEF TypeOK, Apply, TakeLock, Inspect, Compare, CreateBackup, WriteBackup,
       SyncBackup, SkipBackup, WriteTemporary, SyncTemporary, Rename, SyncRename, Verify,
       RestoreBackup, NothingToRestore, RemoveCreated, SyncRestored
<1>5. ASSUME NEW p \in Procs, Prune(p) PROVE MenuInv'
  BY <1>5, <1>3 DEF TypeOK, Prune, ListSurplus, RemoveSurplus, PruneDone
<1>6. ASSUME NEW p \in Procs, IOError(p) PROVE MenuInv'
  BY <1>6, <1>3 DEF TypeOK, IOError, Undoable
<1>7. ASSUME NEW p \in Procs, Kill(p) PROVE MenuInv'
  BY <1>7, <1>3 DEF TypeOK, Kill
<1>8. CASE PowerLoss \/ ExternalEdit \/ UNCHANGED vars
  BY <1>8, <1>3 DEF TypeOK, PowerLoss, ExternalEdit, vars
<1>9. \A p \in Procs : ~SelectBackup(p)
  BY DEF NoRestore, SelectBackup
<1> QED
  BY <1>1, <1>2, <1>4, <1>5, <1>6, <1>7, <1>8, <1>9 DEF Next, Step, Environment, Command

RefinementInv == TypeOK /\ LockInv /\ TransactionInv /\ TornInv /\ MenuInv

(* Whatever is in place, or in a backup, is a complete menu. *)
LEMMA WholeFiles ==
  ASSUME TypeOK, TornInv
  PROVE  /\ target \in Whole \cup {Absent}
         /\ Archived \subseteq Whole
<1>1. \A f \in Files : f.text # Partial => f \in Whole
  BY DEF Files, Whole
<1>2. target \in Whole \cup {Absent}
  BY <1>1 DEF TypeOK, TornInv, SoundFiles, Sound
<1>3. ASSUME NEW n \in Existing PROVE backups[n].of \in Whole
  <2>1. n \in Names /\ backups[n] # Unused /\ backups[n].of \in Files
    BY DEF Existing, TypeOK, Backups
  <2>2. backups[n].of.text # Partial
    BY <2>1, NoFileAssumption DEF TornInv, SoundCopies, Sound
  <2> QED
    BY <1>1, <2>1, <2>2
<1> QED
  BY <1>2, <1>3 DEF Archived, WholeCopies

-----------------------------------------------------------------------------
(* The archive.                                                            *)

(* Nothing is archived or forgotten when no backup changes. *)
LEMMA SameArchive ==
  ASSUME UNCHANGED backups
  PROVE  Archived' = Archived
BY DEF Archived, WholeCopies, Existing

(* A backup that is created, or written out before it is synced, is not    *)
(* archived yet.                                                           *)
LEMMA CreatedArchive ==
  ASSUME TypeOK, target # Absent, NEW n \in Names, backups[n] = Unused,
         backups' = [backups EXCEPT ![n] = NewBackup]
  PROVE  Archived' = Archived
<1>1. /\ backups'[n] = NewBackup /\ Existing' = Existing \cup {n}
      /\ \A m \in Names \ {n} : backups'[m] = backups[m]
  BY CreateOne
<1>2. ~backups'[n].written
  BY <1>1 DEF NewBackup
<1>3. \A m \in Existing : m \in Names \ {n}
  BY DEF Existing
<1>4. WholeCopies' = WholeCopies /\ \A m \in WholeCopies : backups'[m] = backups[m]
  BY <1>1, <1>2, <1>3 DEF WholeCopies
<1> QED
  BY <1>4 DEF Archived

LEMMA WrittenArchive ==
  ASSUME TypeOK, NEW n \in Existing, ~backups[n].synced,
         backups' = [backups EXCEPT ![n].written = TRUE]
  PROVE  Archived' = Archived
<1>1. /\ n \in Names /\ backups[n] \in Backups /\ Existing' = Existing
      /\ backups'[n] = [backups[n] EXCEPT !.written = TRUE]
      /\ \A m \in Names \ {n} : backups'[m] = backups[m]
  BY WriteOne
<1>2. ~backups'[n].synced
  BY <1>1 DEF Backups
<1>3. Existing \subseteq Names
  BY DEF Existing
<1>4. WholeCopies' = WholeCopies /\ \A m \in WholeCopies : backups'[m] = backups[m]
  BY <1>1, <1>2, <1>3 DEF WholeCopies
<1> QED
  BY <1>4 DEF Archived

(* A deletion can only shrink the archive, and leaves the other copies. *)
LEMMA DeletedArchive ==
  ASSUME TypeOK, NEW n \in Existing, backups' = Without(n)
  PROVE  /\ Archived' \subseteq Archived
         /\ n \notin WholeCopies => Archived' = Archived
         /\ \A m \in WholeCopies \ {n} : backups[m].of \in Archived'
<1>1. /\ Existing' = Existing \ {n}
      /\ \A m \in Names \ {n} : backups'[m] = backups[m]
  BY WithoutOne
<1>2. Existing \subseteq Names
  BY DEF Existing
<1>3. WholeCopies' = WholeCopies \ {n} /\ \A m \in WholeCopies \ {n} : backups'[m] = backups[m]
  BY <1>1, <1>2 DEF WholeCopies
<1> QED
  BY <1>3 DEF Archived

(* When everything that is left is synced, a copy of the file as it is may *)
(* have come to the archive, and nothing else.                             *)
LEMMA SyncedArchive ==
  ASSUME TypeOK, UnsyncedInv, Existing' \subseteq Existing, (AllSynced)',
         \A n \in Existing : /\ backups'[n].of = backups[n].of
                             /\ backups'[n].written = backups[n].written
                             /\ backups[n].synced => n \in Existing'
  PROVE  Archived' = Archived \/ (target # Absent /\ Archived' = Archived \cup {target})
<1>1. Archived \subseteq Archived'
  <2>1. ASSUME NEW n \in WholeCopies PROVE backups[n].of \in Archived'
    <3>1. n \in Existing' /\ backups'[n].of = backups[n].of /\ backups'[n].written
      BY DEF WholeCopies
    <3>2. n \in WholeCopies'
      BY <3>1 DEF WholeCopies, AllSynced
    <3> QED
      BY <3>1, <3>2 DEF Archived
  <2> QED
    BY <2>1 DEF Archived
<1>2. ASSUME NEW n \in WholeCopies' PROVE backups'[n].of \in Archived \cup {target}
  <2>1. n \in Existing /\ backups'[n].of = backups[n].of /\ backups[n].written
    BY DEF WholeCopies
  <2>2. CASE backups[n].synced
    BY <2>1, <2>2 DEF Archived, WholeCopies
  <2>3. CASE ~backups[n].synced
    BY <2>1, <2>3 DEF UnsyncedInv
  <2> QED
    BY <2>2, <2>3
<1>3. \A n \in WholeCopies' : backups'[n].of # Absent
  BY NoFileAssumption DEF WholeCopies, Existing, TypeOK, Backups
<1>4. Archived' \subseteq Archived \cup {target}
  BY <1>2 DEF Archived
<1>5. Absent \notin Archived'
  BY <1>3 DEF Archived
<1> QED
  BY <1>1, <1>4, <1>5

LEMMA SyncArchive ==
  ASSUME TypeOK, UnsyncedInv, SyncDirectory
  PROVE  /\ durable' = {target} /\ target' = target
         /\ Archived' = Archived \/ (target # Absent /\ Archived' = Archived \cup {target})
<1>1. /\ Existing' = Existing /\ (AllSynced)'
      /\ \A n \in Names : backups[n] # Unused =>
              backups[n] \in Backups /\ backups'[n] = [backups[n] EXCEPT !.synced = TRUE]
  BY SyncAll
<1>2. \A n \in Existing : /\ backups'[n].of = backups[n].of
                          /\ backups'[n].written = backups[n].written
  BY <1>1 DEF Existing, Backups
<1>3. Archived' = Archived \/ (target # Absent /\ Archived' = Archived \cup {target})
  BY <1>1, <1>2, SyncedArchive
<1> QED
  BY <1>3 DEF SyncDirectory

LEMMA LossArchive ==
  ASSUME TypeOK, UnsyncedInv, PowerLoss
  PROVE  Archived' = Archived \/ (target # Absent /\ Archived' = Archived \cup {target})
<1>1. PICK lost \in SUBSET {n \in Existing : ~backups[n].synced} :
        backups' = [n \in Names |-> IF n \in lost THEN [backups[n] EXCEPT !.gone = TRUE]
                                    ELSE OnDisk(backups[n])]
  BY DEF PowerLoss
<1>2. ASSUME NEW n \in Existing
      PROVE  /\ backups'[n].of = backups[n].of /\ backups'[n].written = backups[n].written
             /\ backups[n].synced => n \in Existing'
  <2>1. n \in Names /\ backups[n] \in Backups /\ backups[n] # Unused /\ ~backups[n].gone
    BY NoFileAssumption DEF Existing, TypeOK
  <2>2. CASE n \in lost
    <3>1. backups'[n] = [backups[n] EXCEPT !.gone = TRUE] /\ ~backups[n].synced
      BY <1>1, <2>1, <2>2
    <3> QED
      BY <2>1, <3>1 DEF Backups
  <2>3. CASE n \notin lost
    <3>0. backups'[n] = OnDisk(backups[n])
      BY <1>1, <2>1, <2>3
    <3>1. backups'[n] = [backups[n] EXCEPT !.synced = TRUE] /\ backups'[n] # Unused
      BY <2>1, <3>0, OnDiskType, backups[n] \in Backups \cup {Unused}
    <3>2. /\ backups'[n].of = backups[n].of /\ backups'[n].written = backups[n].written
          /\ ~backups'[n].gone
      BY <2>1, <3>1 DEF Backups
    <3> QED
      BY <2>1, <3>1, <3>2 DEF Existing
  <2> QED
    BY <2>2, <2>3
<1> QED
  BY <1>2, LoseSome, SyncedArchive

-----------------------------------------------------------------------------
(* Turns and answers.                                                      *)

Resting == [client |-> Nobody, old |-> Absent, new |-> Absent]
TurnOf(p) == [client |-> p, new |-> plan[p].generated,
              old |-> IF plan[p].kind = "create" THEN Absent ELSE backups[backup[p]].of]

(* Whoever has the turn is inside, so that it has it alone. *)
LEMMA TurnInside ==
  ASSUME NEW p \in Procs
  PROVE  /\ HasTurn(p) => pc[p] \in Inside
         /\ HasTurn(p)' => pc'[p] \in Inside
BY DEF HasTurn

LEMMA TurnIs ==
  ASSUME NEW p \in Procs, HasTurn(p), \A q \in Procs : HasTurn(q) => q = p
  PROVE  Turn = TurnOf(p)
<1>1. (CHOOSE q \in Procs : HasTurn(q)) = p
  OBVIOUS
<1> QED
  BY <1>1 DEF Turn, TurnOf

LEMMA TurnBecomes ==
  ASSUME NEW p \in Procs, HasTurn(p)', \A q \in Procs : HasTurn(q)' => q = p
  PROVE  Turn' = TurnOf(p)'
<1>1. (CHOOSE q \in Procs : HasTurn(q)') = p
  OBVIOUS
<1> QED
  BY <1>1 DEF Turn, TurnOf

LEMMA NoTurn ==
  /\ (\A q \in Procs : ~HasTurn(q)) => Turn = Resting
  /\ (\A q \in Procs : ~HasTurn(q)') => Turn' = Resting
BY DEF Turn, Resting

LEMMA ClientHasTurn ==
  ASSUME NEW p \in Procs, Turn.client = p
  PROVE  HasTurn(p)
<1>1. CASE \E q \in Procs : HasTurn(q)
  <2> DEFINE q == CHOOSE q \in Procs : HasTurn(q)
  <2>1. HasTurn(q)
    BY <1>1
  <2>2. Turn.client = q
    BY <1>1 DEF Turn
  <2> QED
    BY <2>1, <2>2
<1>2. CASE ~\E q \in Procs : HasTurn(q)
  BY <1>2, ApplyAssumption DEF Turn
<1> QED
  BY <1>1, <1>2

(* The turn at a step of the one inside is its own or nobody's. *)
LEMMA InsideTurn ==
  ASSUME OneLock, TypeOK, LockInv, NEW p \in Procs, pc[p] \in Inside, Step(p)
  PROVE  /\ Turn = IF HasTurn(p) THEN TurnOf(p) ELSE Resting
         /\ Turn' = IF HasTurn(p)' THEN TurnOf(p)' ELSE Resting
<1>1. ASSUME NEW q \in Procs \ {p} PROVE ~HasTurn(q) /\ ~HasTurn(q)'
  <2>1. pc[q] \notin Inside
    BY DEF LockInv, OneLock
  <2>2. pc'[q] = pc[q]
    BY OwnStep
  <2> QED
    BY <2>1, <2>2, TurnInside
<1> QED
  BY <1>1, TurnIs, TurnBecomes, NoTurn

(* A step of one outside does not move the turn. *)
LEMMA OutsideTurn ==
  ASSUME OneLock, TypeOK, LockInv, TransactionInv, [Next]_vars,
         NEW p \in Procs, pc[p] \notin Inside, Step(p), TypeOK', TransactionInv'
  PROVE  /\ Turn' = Turn /\ ~HasTurn(p) /\ ~HasTurn(p)'
         /\ \A q \in Procs : HasTurn(q) => q # p /\ (Kept(q) \/ Creating(q))
<1>1. ~HasTurn(p)
  BY TurnInside
<1>2. pc'[p] \in Inside => pc'[p] = "locked"
  <2>1. CASE Apply(p)
    BY <2>1 DEF Apply, TakeLock, Inspect, Compare, CreateBackup, WriteBackup, SyncBackup, SkipBackup,
         WriteTemporary, SyncTemporary, Rename, SyncRename, Verify, RestoreBackup,
         NothingToRestore, RemoveCreated, SyncRestored, Go, Inside, TypeOK
  <2>2. CASE Command(p) \/ Prune(p)
    BY <2>2 DEF Command, SelectBackup, RenderMenu, BuildPlan, Prune, ListSurplus, RemoveSurplus,
         PruneDone, Go, Inside, TypeOK
  <2>3. CASE IOError(p) \/ Kill(p)
    BY <2>3 DEF IOError, Kill, Undoable, Go, Inside, TypeOK
  <2> QED
    BY <2>1, <2>2, <2>3 DEF Step
<1>3. ~HasTurn(p)'
  <2>1. CASE pc'[p] \in Inside
    <3>1. pc'[p] = "locked" /\ Fresh(p)'
      BY <1>2, <2>1 DEF TransactionInv, CourseInv, Course
    <3> QED
      BY <3>1 DEF HasTurn, Fresh
  <2> QED
    BY <2>1, TurnInside
<1>4. ~CreateBackup(p)
  BY DEF CreateBackup, Go, Inside
<1>5. \A q \in Procs : ~CreateBackup(q)
  BY <1>4, OwnStep DEF CreateBackup, Go, TypeOK
<1>6. Evolves
  BY <1>5, EvolveStep
<1>7. ASSUME NEW q \in Procs, HasTurn(q) PROVE q # p /\ (Kept(q) \/ Creating(q))
  <2>1. q # p
    BY <1>1, <1>7
  <2>2. Course(q) /\ pc[q] \in Inside
    BY <1>7, TurnInside DEF TransactionInv, CourseInv
  <2>3. Ready(q)
    BY <1>7, <2>2 DEF HasTurn, Course, Inside, Copying, Ready, Fresh, Before, Reserved
  <2> QED
    BY <2>1, <2>3 DEF Ready
<1>8. ASSUME NEW q \in Procs \ {p} PROVE HasTurn(q)' = HasTurn(q)
  BY OwnStep DEF HasTurn
<1>9. Turn' = Turn
  <2>1. ASSUME NEW q \in Procs, HasTurn(q) PROVE Turn' = Turn
    <3>1. \A r \in Procs : HasTurn(r) => r = q
      BY <2>1, TurnInside DEF LockInv, OneLock
    <3>2. HasTurn(q)' /\ q # p /\ \A r \in Procs : HasTurn(r)' => r = q
      BY <1>3, <1>7, <1>8, <2>1, <3>1
    <3>3. plan'[q] = plan[q] /\ backup'[q] = backup[q]
      BY <3>2, OwnStep
    <3>4. plan[q].kind # "create" => backups'[backup[q]].of = backups[backup[q]].of
      BY <1>6, <1>7, <2>1 DEF Kept, Creating, Reserved, Existing, Evolves
    <3>5. TurnOf(q)' = TurnOf(q)
      BY <3>3, <3>4 DEF TurnOf
    <3> QED
      BY <2>1, <3>1, <3>2, <3>5, TurnIs, TurnBecomes
  <2>2. ASSUME \A q \in Procs : ~HasTurn(q) PROVE Turn' = Turn
    BY <1>3, <1>8, <2>2, NoTurn
  <2> QED
    BY <2>1, <2>2
<1> QED
  BY <1>1, <1>3, <1>7, <1>9

(* What is told at each program point. *)
LEMMA ToldIs ==
  ASSUME NEW p \in Procs
  PROVE  /\ pc[p] \in Before \cup Inside \cup {"unchanged", "nobackup"} => Told(p) = "none"
         /\ pc[p] \in {"busy", "refused", "failed"} => Told(p) = "undone"
         /\ pc[p] = "rollbackfailed" => Told(p) = "stuck"
         /\ pc[p] = "dead" => Told(p) = "dead"
         /\ pc[p] \in {"applied", "pruning", "done", "prunefailed"} =>
              Told(p) = IF Role[p] # "prune" THEN "done" ELSE "none"
BY DEF Told, Before, Inside

LEMMA ToldBecomes ==
  ASSUME NEW p \in Procs
  PROVE  /\ pc'[p] \in Before \cup Inside \cup {"unchanged", "nobackup"} => Told(p)' = "none"
         /\ pc'[p] \in {"busy", "refused", "failed"} => Told(p)' = "undone"
         /\ pc'[p] = "rollbackfailed" => Told(p)' = "stuck"
         /\ pc'[p] = "dead" => Told(p)' = "dead"
         /\ pc'[p] \in {"applied", "pruning", "done", "prunefailed"} =>
              Told(p)' = IF Role[p] # "prune" THEN "done" ELSE "none"
BY DEF Told, Before, Inside

LEMMA ToldSame ==
  ASSUME NEW p \in Procs, pc'[p] = pc[p]
  PROVE  Told(p)' = Told(p)
BY DEF Told

-----------------------------------------------------------------------------
(* How the steps of the abstract specification are recognised.             *)

ToldOnly(p, a) == Told(p)' = a /\ \A q \in Procs \ {p} : Told(q)' = Told(q)

LEMMA AnswerGiven ==
  ASSUME NEW p \in Procs, NEW a, ToldOnly(p, a)
  PROVE  Replacement!Answer(p, a)
BY DEF Replacement!Answer, ToldOnly

LEMMA Stutters ==
  ASSUME UNCHANGED <<target, durable, Archived, Turn>>, \A q \in Procs : Told(q)' = Told(q)
  PROVE  Refines
<1>1. UNCHANGED Replacement!vars
  BY DEF Replacement!vars, Archived, WholeCopies
<1> QED
  BY <1>1 DEF Refines

LEMMA Refuses ==
  ASSUME NEW p \in Procs, UNCHANGED <<target, durable, Archived, Turn>>,
         ~HasTurn(p), Told(p) = "none", ToldOnly(p, "undone")
  PROVE  Refines
<1>1. Turn.client # p
  BY ClientHasTurn
<1>2. Replacement!Refuse(p)
  BY <1>1, AnswerGiven DEF Replacement!Refuse, Archived, WholeCopies
<1> QED
  BY <1>2 DEF Refines, Replacement!Next, Replacement!Client

LEMMA Begins ==
  ASSUME NEW p \in Procs, Turn = Resting, Told(p) = "none", target' = target,
         \/ UNCHANGED <<durable, Archived>>
         \/ /\ durable' = {target}
            /\ Archived' = Archived \/ (target # Absent /\ Archived' = Archived \cup {target}),
         target = Absent \/ target \in Archived',
         NEW new \in Whole \ {target}, Turn' = [client |-> p, old |-> target, new |-> new],
         \A q \in Procs : Told(q)' = Told(q)
  PROVE  Refines
<1>1. Replacement!Begin(p)
  BY DEF Replacement!Begin, Replacement!Synchronise, Replacement!Archive, Replacement!Resting,
         Resting, Archived, WholeCopies
<1> QED
  BY <1>1 DEF Refines, Replacement!Next, Replacement!Client

LEMMA Installs ==
  ASSUME NEW p \in Procs, Turn.client = p, target = Turn.old,
         target = Absent \/ target \in Archived,
         target' = Turn.new, durable' = durable \cup {target'},
         UNCHANGED <<Archived, Turn>>, \A q \in Procs : Told(q)' = Told(q)
  PROVE  Refines
<1>1. Replacement!Install(p)
  BY DEF Replacement!Install, Archived, WholeCopies
<1> QED
  BY <1>1 DEF Refines, Replacement!Next, Replacement!Client

LEMMA Syncs ==
  ASSUME target' = target, durable' = {target},
         Archived' = Archived \/ (target # Absent /\ Archived' = Archived \cup {target}),
         Turn' = Turn, \A q \in Procs : Told(q)' = Told(q)
  PROVE  Refines
<1>1. Replacement!Sync
  BY DEF Replacement!Sync, Replacement!Synchronise, Replacement!Archive, Archived, WholeCopies
<1> QED
  BY <1>1 DEF Refines, Replacement!Next

LEMMA Accepts ==
  ASSUME NEW p \in Procs, Turn.client = p, target = Turn.new, durable = {target},
         Turn' = Resting, ToldOnly(p, "done"), UNCHANGED <<target, durable, Archived>>
  PROVE  Refines
<1>1. Replacement!Accept(p)
  BY AnswerGiven DEF Replacement!Accept, Replacement!Resting, Resting, Archived, WholeCopies
<1> QED
  BY <1>1 DEF Refines, Replacement!Next, Replacement!Client

LEMMA Undoes ==
  ASSUME NEW p \in Procs, Turn.client = p, target' = Turn.old, durable' = durable \cup {target'},
         UNCHANGED <<Archived, Turn>>, \A q \in Procs : Told(q)' = Told(q)
  PROVE  Refines
<1>1. Replacement!Undo(p)
  BY DEF Replacement!Undo, Archived, WholeCopies
<1> QED
  BY <1>1 DEF Refines, Replacement!Next, Replacement!Client

LEMMA Rejects ==
  ASSUME NEW p \in Procs, Turn.client = p, target' = target,
         \/ /\ durable' = {target}
            /\ Archived' = Archived \/ (target # Absent /\ Archived' = Archived \cup {target})
         \/ Turn.old = Absent /\ UNCHANGED <<durable, Archived>>,
         Turn.old = Absent \/ target = Turn.old,
         Turn' = Resting, ToldOnly(p, "undone")
  PROVE  Refines
<1>1. Replacement!Reject(p)
  BY AnswerGiven DEF Replacement!Reject, Replacement!Synchronise, Replacement!Archive,
         Replacement!Resting, Resting, Archived, WholeCopies
<1> QED
  BY <1>1 DEF Refines, Replacement!Next, Replacement!Client

LEMMA GetsStuck ==
  ASSUME NEW p \in Procs, Turn.client = p, Turn' = Resting, ToldOnly(p, "stuck"),
         UNCHANGED <<target, durable, Archived>>
  PROVE  Refines
<1>1. Replacement!GetStuck(p)
  BY AnswerGiven DEF Replacement!GetStuck, Replacement!Resting, Resting, Archived, WholeCopies
<1> QED
  BY <1>1 DEF Refines, Replacement!Next, Replacement!Client

LEMMA Dies ==
  ASSUME NEW p \in Procs, Turn' = IF Turn.client = p THEN Resting ELSE Turn, ToldOnly(p, "dead"),
         UNCHANGED <<target, durable, Archived>>
  PROVE  Refines
<1>1. Replacement!Die(p)
  BY AnswerGiven DEF Replacement!Die, Replacement!Resting, Resting, Archived, WholeCopies
<1> QED
  BY <1>1 DEF Refines, Replacement!Next, Replacement!Client

LEMMA Forgets ==
  ASSUME UNCHANGED <<target, durable, Turn>>, Archived' \subseteq Archived,
         Turn # Resting /\ Turn.old # Absent => Turn.old \in Archived',
         \A q \in Procs : Told(q)' = Told(q)
  PROVE  Refines
<1>1. Replacement!Forget
  BY DEF Replacement!Forget, Replacement!Resting, Resting, Archived, WholeCopies
<1> QED
  BY <1>1 DEF Refines, Replacement!Next

-----------------------------------------------------------------------------
(* The steps of ApplyService.                                              *)

(* The turn of one that is ready, and what that needs from the archive. *)
OwnTurn(p) == [client |-> p, new |-> New(p), old |-> Old(p)]

LEMMA ReadyTurn ==
  ASSUME NEW p \in Procs
  PROVE  /\ Ready(p) => TurnOf(p) = OwnTurn(p)
         /\ Ready(p)' => TurnOf(p)' = OwnTurn(p)'
<1>1. Ready(p) => TurnOf(p) = OwnTurn(p)
  BY DEF TurnOf, OwnTurn, New, Old, Ready, Kept, Creating, Reserved
<1>2. Ready(p)' => TurnOf(p)' = OwnTurn(p)'
  BY DEF TurnOf, OwnTurn, New, Old, Ready, Kept, Creating, Reserved
<1> QED
  BY <1>1, <1>2

LEMMA ReadyArchived ==
  ASSUME NEW p \in Procs
  PROVE  /\ Ready(p) => Old(p) = Absent \/ Old(p) \in Archived
         /\ Ready(p)' => Old(p)' = Absent \/ Old(p)' \in Archived'
<1>1. ASSUME Ready(p) PROVE Old(p) = Absent \/ Old(p) \in Archived
  <2>1. CASE Creating(p)
    BY <2>1 DEF Creating, Old
  <2>2. CASE Kept(p)
    <3>1. copy[p] \in WholeCopies /\ Old(p) = backups[copy[p]].of
      BY <2>2 DEF Kept, Reserved, AllSynced, WholeCopies, Old
    <3> QED
      BY <3>1 DEF Archived
  <2> QED
    BY <1>1, <2>1, <2>2 DEF Ready
<1>2. ASSUME Ready(p)' PROVE Old(p)' = Absent \/ Old(p)' \in Archived'
  <2>1. CASE Creating(p)'
    BY <2>1 DEF Creating, Old
  <2>2. CASE Kept(p)'
    <3>1. copy'[p] \in WholeCopies' /\ Old(p)' = backups'[copy'[p]].of
      BY <2>2 DEF Kept, Reserved, AllSynced, WholeCopies, Old
    <3> QED
      BY <3>1 DEF Archived
  <2> QED
    BY <1>2, <2>1, <2>2 DEF Ready
<1> QED
  BY <1>1, <1>2

(* Who has the turn: from where it is ready on. *)
LEMMA TurnIfReady ==
  ASSUME NEW p \in Procs, Course(p), TypeOK
  PROVE  /\ pc[p] \in {"locked", "inspected", "checked", "copying", "copied"} => ~HasTurn(p)
         /\ pc[p] \in {"saved", "written", "flushed", "renamed", "settled", "restored", "removed"} =>
              HasTurn(p) /\ Ready(p)
         /\ pc[p] = "failing" => (HasTurn(p) <=> Ready(p))
<1>1. Reserved(p) => copy[p] # NoName /\ plan[p].kind = "update"
  BY ReservedFacts DEF Reserved
<1>2. pc[p] \in {"locked", "inspected", "checked", "copying", "copied"} => ~HasTurn(p)
  BY DEF Course, HasTurn, Fresh, Copying, Reserved, Before
<1>3. pc[p] \in Inside \ {"locked", "inspected", "checked"} /\ Ready(p) => HasTurn(p)
  BY <1>1 DEF HasTurn, Ready, Creating, Kept
<1>4. pc[p] = "failing" /\ HasTurn(p) => Ready(p)
  BY DEF Course, HasTurn
<1>5. pc[p] \in {"saved", "written", "flushed", "renamed", "settled", "restored", "removed"} => Ready(p)
  BY DEF Course, Ready
<1> QED
  BY <1>2, <1>3, <1>4, <1>5 DEF Inside

LEMMA TurnIfReadyNext ==
  ASSUME NEW p \in Procs, Course(p)', TypeOK'
  PROVE  /\ pc'[p] \notin Inside => ~HasTurn(p)'
         /\ pc'[p] \in {"locked", "inspected", "checked", "copying", "copied"} => ~HasTurn(p)'
         /\ pc'[p] \in {"saved", "written", "flushed", "renamed", "settled", "restored", "removed"} =>
              HasTurn(p)' /\ Ready(p)'
         /\ pc'[p] = "failing" => (HasTurn(p)' <=> Ready(p)')
<1>0. Reserved(p)' => copy'[p] \in Names
  BY DEF Reserved, Existing
<1>1. Reserved(p)' => copy'[p] # NoName /\ plan'[p].kind = "update"
  BY <1>0, ApplyAssumption DEF Reserved
<1>2. pc'[p] \in {"locked", "inspected", "checked", "copying", "copied"} => ~HasTurn(p)'
  BY DEF Course, HasTurn, Fresh, Copying, Reserved, Before
<1>3. pc'[p] \in Inside \ {"locked", "inspected", "checked"} /\ Ready(p)' => HasTurn(p)'
  BY <1>1 DEF HasTurn, Ready, Creating, Kept
<1>4. pc'[p] = "failing" /\ HasTurn(p)' => Ready(p)'
  BY DEF Course, HasTurn
<1>5. pc'[p] \in {"saved", "written", "flushed", "renamed", "settled", "restored", "removed"} => Ready(p)'
  BY DEF Course, Ready
<1>6. pc'[p] \notin Inside => ~HasTurn(p)'
  BY DEF HasTurn
<1> QED
  BY <1>2, <1>3, <1>4, <1>5, <1>6 DEF Inside

(***************************************************************************)
(* A step of an invocation outside the lock: it refuses, forgets, dies or  *)
(* does nothing that the abstract specification speaks of.                 *)
(***************************************************************************)
LEMMA OutsideRefines ==
  ASSUME OneLock, NoRestore, RefinementInv, RefinementInv', [Next]_vars,
         NEW p \in Procs, pc[p] \notin Inside, Step(p)
  PROVE  Refines
<1> USE DEF Go, fileVars, bakVars, procVars, counters
<1>0. /\ TypeOK /\ pc \in [Procs -> Points]
      /\ UNCHANGED <<target, durable, Turn>> /\ ~HasTurn(p) /\ ~HasTurn(p)'
      /\ \A q \in Procs : HasTurn(q) => q # p /\ (Kept(q) \/ Creating(q))
      /\ \A q \in Procs \ {p} : Told(q)' = Told(q)
      /\ Turn.client # p
  <2>1. /\ Turn' = Turn /\ ~HasTurn(p) /\ ~HasTurn(p)'
        /\ \A q \in Procs : HasTurn(q) => q # p /\ (Kept(q) \/ Creating(q))
    BY OutsideTurn DEF RefinementInv
  <2>2. UNCHANGED <<target, durable>>
    BY OutsiderStep DEF RefinementInv, OutsiderActs
  <2>3. \A q \in Procs \ {p} : Told(q)' = Told(q)
    BY OwnStep, ToldSame DEF RefinementInv
  <2>4. Turn.client # p
    BY <2>1, ClientHasTurn
  <2> QED
    BY <2>1, <2>2, <2>3, <2>4 DEF RefinementInv, TypeOK
<1>1. CASE Command(p)
  <2>1. /\ UNCHANGED backups /\ pc[p] \in Before /\ pc'[p] \in Before \cup {"nobackup", "unchanged"}
    BY <1>0, <1>1 DEF Command, SelectBackup, RenderMenu, BuildPlan, Before
  <2> QED
    BY <1>0, <2>1, SameArchive, ToldIs, ToldBecomes, Stutters
<1>2. CASE Apply(p)
  <2>1. TakeLock(p)
    BY <1>2 DEF Inside, Apply, Inspect, Compare, CreateBackup, WriteBackup, SyncBackup, SkipBackup,
         WriteTemporary, SyncTemporary, Rename, SyncRename, Verify, RestoreBackup,
         NothingToRestore, RemoveCreated, SyncRestored
  <2>2. UNCHANGED backups /\ pc[p] = "planned" /\ pc'[p] \in {"locked", "busy"}
    BY <1>0, <2>1 DEF TakeLock
  <2>3. Told(p) = "none" /\ Told(p)' = IF pc'[p] = "busy" THEN "undone" ELSE "none"
    BY <2>2, ToldIs, ToldBecomes DEF Before, Inside
  <2> QED
    BY <1>0, <2>2, <2>3, SameArchive, Stutters, Refuses DEF ToldOnly
<1>3. CASE ListSurplus(p) \/ PruneDone(p)
  <2>1. UNCHANGED backups
    BY <1>3 DEF ListSurplus, PruneDone
  <2>2. Told(p)' = Told(p)
    <3>1. CASE Role[p] = "prune"
      <4>1. pc[p] \in {"start", "applied", "pruning"} /\ pc'[p] \in {"pruning", "done"}
        BY <1>0, <1>3 DEF ListSurplus, PruneDone
      <4> QED
        BY <3>1, <4>1, ToldIs, ToldBecomes DEF Before
    <3>2. CASE Role[p] # "prune"
      <4>1. pc[p] \in {"applied", "pruning"} /\ pc'[p] \in {"pruning", "done"}
        BY <1>0, <1>3, <3>2 DEF ListSurplus, PruneDone
      <4> QED
        BY <3>2, <4>1, ToldIs, ToldBecomes
    <3> QED
      BY <3>1, <3>2
  <2> QED
    BY <1>0, <2>1, <2>2, SameArchive, Stutters
<1>4. CASE RemoveSurplus(p)
  <2>1. PICK n \in doomed[p] :
          \/ n \in Existing /\ backups' = Without(n)
          \/ UNCHANGED backups
    BY <1>4 DEF RemoveSurplus
  <2>2. pc[p] = "pruning" /\ pc'[p] \in {"pruning", "prunefailed"}
    BY <1>0, <1>4 DEF RemoveSurplus
  <2>3. \A q \in Procs : Told(q)' = Told(q)
    BY <1>0, <2>2, ToldIs, ToldBecomes
  <2>4. CASE UNCHANGED backups
    BY <1>0, <2>3, <2>4, SameArchive, Stutters
  <2>5. CASE n \in Existing /\ backups' = Without(n)
    <3>1. Archived' \subseteq Archived /\ \A m \in WholeCopies \ {n} : backups[m].of \in Archived'
      BY <1>0, <2>5, DeletedArchive
    <3>2. ASSUME NEW q \in Procs, HasTurn(q) PROVE Turn.old = Absent \/ Turn.old \in Archived'
      <4>1. \A r \in Procs : HasTurn(r) => r = q
        BY <3>2, TurnInside DEF LockInv, OneLock, RefinementInv
      <4>2. Turn = TurnOf(q) /\ Ready(q)
        BY <1>0, <3>2, <4>1, TurnIs DEF Ready
      <4>3. Turn.old = Old(q)
        BY <4>2, ReadyTurn DEF OwnTurn
      <4>4. CASE Creating(q)
        BY <4>3, <4>4 DEF Creating, Old
      <4>5. CASE Kept(q)
        <5>1. copy[q] \in WholeCopies \ {n} /\ Old(q) = backups[copy[q]].of
          BY <4>5 DEF Kept, Reserved, AllSynced, WholeCopies, Old
        <5> QED
          BY <3>1, <4>3, <5>1
      <4> QED
        BY <4>2, <4>4, <4>5 DEF Ready
    <3>3. Turn # Resting => \E q \in Procs : HasTurn(q)
      BY NoTurn
    <3> QED
      BY <1>0, <2>3, <3>1, <3>2, <3>3, Forgets
  <2> QED
    BY <2>1, <2>4, <2>5
<1>5. CASE IOError(p)
  <2>1. UNCHANGED backups
    BY <1>5 DEF IOError, Inside
  <2>2. \/ pc[p] = "planned" /\ pc'[p] = "refused"
        \/ pc[p] = "pruning" /\ pc'[p] = "prunefailed"
    BY <1>0, <1>5 DEF IOError, Undoable, Inside
  <2>3. CASE pc[p] = "planned" /\ pc'[p] = "refused"
    <3>1. Told(p) = "none" /\ Told(p)' = "undone"
      BY <2>3, ToldIs, ToldBecomes DEF Before
    <3> QED
      BY <1>0, <2>1, <3>1, SameArchive, Refuses DEF ToldOnly
  <2>4. CASE pc[p] = "pruning" /\ pc'[p] = "prunefailed"
    <3>1. Told(p)' = Told(p)
      BY <2>4, ToldIs, ToldBecomes
    <3> QED
      BY <1>0, <2>1, <3>1, SameArchive, Stutters
  <2> QED
    BY <2>2, <2>3, <2>4
<1>6. CASE Kill(p)
  <2>1. UNCHANGED backups /\ pc'[p] = "dead"
    BY <1>0, <1>6 DEF Kill
  <2>2. Told(p)' = "dead"
    BY <2>1, ToldBecomes
  <2> QED
    BY <1>0, <2>1, <2>2, SameArchive, Dies DEF ToldOnly
<1> QED
  BY <1>1, <1>2, <1>3, <1>4, <1>5, <1>6 DEF Step, Prune

-----------------------------------------------------------------------------
(* The one inside.                                                         *)

Early == {"locked", "inspected", "checked", "copying", "copied"}
Late == {"saved", "written", "flushed", "renamed", "settled", "restored", "removed"}

(* What is known of the one inside, of its turn and of its answer, before  *)
(* and after a step of it.                                                 *)
LEMMA InsideFacts ==
  ASSUME OneLock, RefinementInv, RefinementInv', NEW p \in Procs, pc[p] \in Inside, Step(p)
  PROVE  /\ TypeOK /\ UnsyncedInv /\ Course(p) /\ Course(p)' /\ pc \in [Procs -> Points]
         /\ Told(p) = "none" /\ \A q \in Procs \ {p} : Told(q)' = Told(q)
         /\ pc'[p] \in Inside => \A q \in Procs : Told(q)' = Told(q)
         /\ Role[p] = "apply" /\ New(p) \in Whole /\ New(p).nl /\ New(p) # Absent
         /\ HasTurn(p) => Turn = TurnOf(p)
         /\ ~HasTurn(p) => Turn = Resting
         /\ HasTurn(p)' => Turn' = TurnOf(p)'
         /\ ~HasTurn(p)' => Turn' = Resting
<1>1. TypeOK /\ UnsyncedInv /\ Course(p) /\ Course(p)' /\ pc \in [Procs -> Points]
  BY DEF RefinementInv, TransactionInv, CourseInv, TypeOK
<1>2. Told(p) = "none" /\ \A q \in Procs \ {p} : Told(q)' = Told(q)
  BY <1>1, ToldIs, OwnStep, ToldSame
<1>3. pc'[p] \in Inside => \A q \in Procs : Told(q)' = Told(q)
  BY <1>2, ToldBecomes
<1>4. Role[p] = "apply" /\ New(p) \in Whole /\ New(p).nl
  BY DEF RefinementInv, MenuInv, New
<1>5. New(p) # Absent
  BY <1>4, NoFileAssumption DEF Whole, Files
<1>6. /\ Turn = IF HasTurn(p) THEN TurnOf(p) ELSE Resting
      /\ Turn' = IF HasTurn(p)' THEN TurnOf(p)' ELSE Resting
  BY InsideTurn DEF RefinementInv
<1> QED
  BY <1>1, <1>2, <1>3, <1>4, <1>5, <1>6

(* Before it is ready it has no turn; once it is, the turn is its own. *)
LEMMA TurnAt ==
  ASSUME OneLock, RefinementInv, RefinementInv', NEW p \in Procs, pc[p] \in Inside, Step(p)
  PROVE  /\ pc[p] \in Early => ~HasTurn(p) /\ Turn = Resting
         /\ pc[p] \in Late => Ready(p)
         /\ Ready(p) /\ pc[p] \in Late \cup {"failing"} => HasTurn(p) /\ Turn = OwnTurn(p)
         /\ pc'[p] \in Early => Turn' = Resting
         /\ pc'[p] \notin Inside => Turn' = Resting
         /\ pc'[p] \in Late => Ready(p)'
         /\ Ready(p)' /\ pc'[p] \in Late \cup {"failing"} => HasTurn(p)' /\ Turn' = OwnTurn(p)'
<1>0. TypeOK /\ TypeOK' /\ Course(p) /\ Course(p)'
  BY InsideFacts DEF RefinementInv
<1>1. /\ pc[p] \in Early => ~HasTurn(p)
      /\ pc[p] \in Late => HasTurn(p) /\ Ready(p)
      /\ pc[p] = "failing" => (HasTurn(p) <=> Ready(p))
  BY <1>0, TurnIfReady DEF Early, Late
<1>2. /\ pc'[p] \notin Inside => ~HasTurn(p)'
      /\ pc'[p] \in Early => ~HasTurn(p)'
      /\ pc'[p] \in Late => HasTurn(p)' /\ Ready(p)'
      /\ pc'[p] = "failing" => (HasTurn(p)' <=> Ready(p)')
  BY <1>0, TurnIfReadyNext DEF Early, Late
<1> QED
  BY <1>1, <1>2, InsideFacts, ReadyTurn

(***************************************************************************)
(* From the check of the plan to the copy: nothing happens that the        *)
(* abstract specification speaks of until the copy is on the disk, when    *)
(* the turn begins.                                                        *)
(***************************************************************************)
LEMMA PreparationRefines ==
  ASSUME OneLock, RefinementInv, RefinementInv', NEW p \in Procs, pc[p] \in Inside, Step(p),
         \/ Inspect(p) \/ Compare(p) \/ CreateBackup(p) \/ WriteBackup(p)
         \/ SyncBackup(p) \/ SkipBackup(p)
  PROVE  Refines
<1> USE DEF Go, fileVars, bakVars, procVars, counters
<1>0. /\ TypeOK /\ UnsyncedInv /\ Course(p) /\ Course(p)' /\ pc \in [Procs -> Points]
      /\ Told(p) = "none" /\ \A q \in Procs \ {p} : Told(q)' = Told(q)
      /\ pc'[p] \in Inside => \A q \in Procs : Told(q)' = Told(q)
      /\ New(p) \in Whole /\ New(p).nl /\ New(p) # Absent
  BY InsideFacts
<1>1. CASE Inspect(p) \/ Compare(p)
  <2>1. /\ UNCHANGED <<target, durable, backups>>
        /\ pc[p] \in Early /\ pc'[p] \in {"inspected", "checked", "refused"}
    BY <1>0, <1>1 DEF Inspect, Compare, Early
  <2>2. UNCHANGED <<target, durable, Archived, Turn>> /\ ~HasTurn(p)
    BY <2>1, SameArchive, TurnAt DEF Early, Inside
  <2>3. CASE pc'[p] = "refused"
    BY <1>0, <2>2, <2>3, ToldBecomes, Refuses DEF ToldOnly
  <2>4. CASE pc'[p] # "refused"
    BY <1>0, <2>1, <2>2, <2>4, Stutters DEF Inside
  <2> QED
    BY <2>3, <2>4
<1>2. CASE CreateBackup(p)
  <2>1. target # Absent /\ pc[p] \in Early
    BY <1>0, <1>2 DEF CreateBackup, Course, Untouched, Agrees, Early
  <2>2. PICK n \in Names : backups[n] = Unused /\ backups' = [backups EXCEPT ![n] = NewBackup]
    BY <1>2, <2>1 DEF CreateBackup, NewBackup
  <2>3. UNCHANGED <<target, durable>> /\ pc'[p] = "copying"
    BY <1>0, <1>2, <2>1 DEF CreateBackup
  <2>4. Archived' = Archived
    BY <1>0, <2>1, <2>2, CreatedArchive
  <2>5. Turn' = Turn
    BY <2>1, <2>3, TurnAt DEF Early
  <2> QED
    BY <1>0, <2>3, <2>4, <2>5, Stutters DEF Inside
<1>3. CASE WriteBackup(p)
  <2>1. Copying(p) /\ copy[p] \in Existing /\ pc[p] \in Early
    BY <1>0, <1>3 DEF WriteBackup, Course, Copying, Reserved, Early
  <2>2. /\ backups' = [backups EXCEPT ![copy[p]].written = TRUE]
        /\ UNCHANGED <<target, durable>> /\ pc'[p] = "copied"
    BY <1>0, <1>3, <2>1 DEF WriteBackup
  <2>3. Archived' = Archived
    BY <1>0, <2>1, <2>2, WrittenArchive DEF Copying
  <2>4. Turn' = Turn
    BY <2>1, <2>2, TurnAt DEF Early
  <2> QED
    BY <1>0, <2>2, <2>3, <2>4, Stutters DEF Inside
<1>4. CASE SyncBackup(p)
  <2>1. /\ SyncDirectory /\ pc[p] \in Early /\ pc'[p] = "saved" /\ plan'[p] = plan[p]
        /\ Copying(p)
    BY <1>0, <1>4 DEF SyncBackup, Early, Course
  <2>2. /\ durable' = {target} /\ target' = target
        /\ Archived' = Archived \/ (target # Absent /\ Archived' = Archived \cup {target})
    BY <1>0, <2>1, SyncArchive
  <2>3. Turn = Resting /\ Ready(p)' /\ Turn' = OwnTurn(p)'
    BY <2>1, TurnAt DEF Late
  <2>4. New(p)' = New(p) /\ Old(p)' = target
    BY <1>0, <2>1, <2>2 DEF New, Course
  <2>5. target \in Archived'
    <3>1. target # Absent
      BY <1>0, <2>1, ReservedFacts DEF Copying
    <3> QED
      BY <2>3, <2>4, <3>1, ReadyArchived
  <2>6. New(p) # target
    <3>1. Normalize(target) = plan[p].installed /\ plan[p].installed # New(p)
      BY <2>1 DEF Copying, Reserved, RefinementInv, TransactionInv, PlanInv, New
    <3>2. New(p) = target => Normalize(target) = target
      BY <1>0 DEF Normalize, Whole
    <3> QED
      BY <3>1, <3>2
  <2>7. New(p) \in Whole \ {target} /\ Turn' = [client |-> p, old |-> target, new |-> New(p)]
    BY <1>0, <2>3, <2>4, <2>6 DEF OwnTurn
  <2>8. \A q \in Procs : Told(q)' = Told(q)
    BY <1>0, <2>1 DEF Inside
  <2> QED
    BY <1>0, <2>2, <2>3, <2>5, <2>7, <2>8, Begins
<1>5. CASE SkipBackup(p)
  <2>1. /\ plan[p].kind = "create" /\ target = Absent /\ pc[p] \in Early /\ pc'[p] = "saved"
        /\ UNCHANGED <<target, durable, backups, plan>>
    BY <1>0, <1>5 DEF SkipBackup, Early, Course, Untouched, Agrees
  <2>2. Archived' = Archived
    BY <2>1, SameArchive
  <2>3. Turn = Resting /\ Turn' = OwnTurn(p)'
    BY <2>1, TurnAt DEF Late
  <2>4. New(p)' = New(p) /\ Old(p)' = target
    BY <2>1 DEF New, Old
  <2>5. New(p) \in Whole \ {target} /\ Turn' = [client |-> p, old |-> target, new |-> New(p)]
    BY <1>0, <2>1, <2>3, <2>4 DEF OwnTurn
  <2>6. \A q \in Procs : Told(q)' = Told(q)
    BY <1>0, <2>1 DEF Inside
  <2> QED
    BY <1>0, <2>1, <2>2, <2>3, <2>5, <2>6, Begins
<1> QED
  BY <1>1, <1>2, <1>3, <1>4, <1>5

(***************************************************************************)
(* From the temporary file to the verified one: the rename installs, the   *)
(* sync of the directory synchronises, the verification accepts.           *)
(***************************************************************************)
LEMMA ReplacementRefines ==
  ASSUME OneLock, RefinementInv, RefinementInv', NEW p \in Procs, pc[p] \in Inside, Step(p),
         WriteTemporary(p) \/ SyncTemporary(p) \/ Rename(p) \/ SyncRename(p) \/ Verify(p)
  PROVE  Refines
<1> USE DEF Go, fileVars, bakVars, procVars, counters
<1>0. /\ TypeOK /\ UnsyncedInv /\ Course(p) /\ pc \in [Procs -> Points]
      /\ Role[p] = "apply" /\ \A q \in Procs \ {p} : Told(q)' = Told(q)
      /\ pc'[p] \in Inside => \A q \in Procs : Told(q)' = Told(q)
  BY InsideFacts
<1>1. pc[p] \in Late /\ Ready(p) /\ Turn = OwnTurn(p)
  <2>1. pc[p] \in Late
    BY DEF WriteTemporary, SyncTemporary, Rename, SyncRename, Verify, Late
  <2> QED
    BY <2>1, TurnAt
<1>2. /\ Turn.client = p /\ Turn.old = Old(p) /\ Turn.new = New(p)
      /\ Old(p) = Absent \/ Old(p) \in Archived
  BY <1>1, ReadyArchived DEF OwnTurn
<1>3. ASSUME pc'[p] \in Late, UNCHANGED <<backups, plan, copy>> PROVE Turn' = Turn
  <2>1. Turn' = OwnTurn(p)'
    BY <1>3, TurnAt
  <2> QED
    BY <1>1, <1>3, <2>1 DEF OwnTurn, Old, New
<1>4. CASE WriteTemporary(p) \/ SyncTemporary(p)
  <2>1. /\ UNCHANGED <<target, durable, backups, plan, copy>>
        /\ pc'[p] \in Late /\ pc'[p] \in Inside
    BY <1>0, <1>4 DEF WriteTemporary, SyncTemporary, Late, Inside
  <2> QED
    BY <1>0, <1>3, <2>1, SameArchive, Stutters
<1>5. CASE Rename(p)
  <2>1. /\ target = Old(p) /\ target' = New(p) /\ UNCHANGED <<backups, plan, copy>>
        /\ pc'[p] \in Late /\ pc'[p] \in Inside
    BY <1>0, <1>5 DEF Rename, Course, New, Late, Inside
  <2>2. durable' = durable \cup {target'}
    BY <1>0, <1>5 DEF Rename, Course
  <2>3. Turn' = Turn /\ Archived' = Archived /\ \A q \in Procs : Told(q)' = Told(q)
    BY <1>0, <1>3, <2>1, SameArchive
  <2> QED
    BY <1>2, <2>1, <2>2, <2>3, Installs
<1>6. CASE SyncRename(p)
  <2>1. /\ SyncDirectory /\ UNCHANGED <<plan, copy, backup, doomed>>
        /\ pc'[p] = "settled"
    BY <1>0, <1>6 DEF SyncRename
  <2>2. Turn' = Turn
    <3>1. Turn' = OwnTurn(p)'
      BY <2>1, TurnAt DEF Late
    <3>2. Old(p)' = Old(p) /\ New(p)' = New(p)
      BY <1>0, <1>1, <2>1, SyncStill
    <3> QED
      BY <1>1, <3>1, <3>2 DEF OwnTurn
  <2>3. \A q \in Procs : Told(q)' = Told(q)
    BY <1>0, <2>1 DEF Inside
  <2> QED
    BY <1>0, <2>1, <2>2, <2>3, SyncArchive, Syncs
<1>7. CASE Verify(p)
  <2>1. target = New(p) /\ durable = {target}
    BY <1>0, <1>7 DEF Verify, Course
  <2>2. UNCHANGED <<target, durable, backups>> /\ pc'[p] = "applied"
    BY <1>0, <1>7, <2>1 DEF Verify, New
  <2>3. Turn' = Resting /\ Archived' = Archived
    BY <2>2, TurnAt, SameArchive DEF Inside
  <2>4. ToldOnly(p, "done")
    BY <1>0, <2>2, ToldBecomes DEF ToldOnly
  <2> QED
    BY <1>2, <2>1, <2>2, <2>3, <2>4, Accepts
<1> QED
  BY <1>4, <1>5, <1>6, <1>7

(* The way back: the old content, or its absence, returns, and then the    *)
(* failure is reported.                                                    *)
LEMMA UndoingRefines ==
  ASSUME OneLock, RefinementInv, RefinementInv', NEW p \in Procs, pc[p] \in Inside, Step(p),
         RestoreBackup(p) \/ NothingToRestore(p) \/ RemoveCreated(p) \/ SyncRestored(p)
  PROVE  Refines
<1> USE DEF Go, fileVars, bakVars, procVars, counters
<1>0. /\ TypeOK /\ UnsyncedInv /\ Course(p) /\ pc \in [Procs -> Points]
      /\ Told(p) = "none" /\ \A q \in Procs \ {p} : Told(q)' = Told(q)
      /\ pc'[p] \in Inside => \A q \in Procs : Told(q)' = Told(q)
  BY InsideFacts
<1>1. ASSUME Ready(p), pc[p] \in Late \cup {"failing"}
      PROVE  /\ Turn = OwnTurn(p)
             /\ Turn.client = p /\ Turn.old = Old(p) /\ Turn.new = New(p)
  <2>1. Turn = OwnTurn(p)
    BY <1>1, TurnAt
  <2> QED
    BY <2>1 DEF OwnTurn
<1>2. ASSUME Ready(p), pc[p] = "failing", target' = Old(p), durable' = durable \cup {target'},
             UNCHANGED <<backups, plan, copy>>, pc'[p] \in {"restored", "removed"}
      PROVE  Refines
  <2>1. Turn' = OwnTurn(p)'
    BY <1>2, TurnAt DEF Late
  <2>2. Turn' = Turn
    BY <1>1, <1>2, <2>1 DEF OwnTurn, Old, New
  <2>3. \A q \in Procs : Told(q)' = Told(q)
    BY <1>0, <1>2 DEF Inside
  <2>4. Archived' = Archived
    BY <1>2, SameArchive
  <2> QED
    BY <1>1, <1>2, <2>2, <2>3, <2>4, Undoes
<1>3. CASE RestoreBackup(p)
  <2>1. Kept(p) /\ backup[p] = copy[p] /\ backup[p] \in Existing /\ pc[p] = "failing"
    BY <1>0, <1>3 DEF RestoreBackup, Course, Ready, Kept, Creating, Reserved
  <2>2. /\ pc'[p] = "restored" /\ target' = ContentOf(backup[p])
        /\ durable' = durable \cup {target'} /\ UNCHANGED <<backups, plan, copy>>
    BY <1>0, <1>3, <2>1 DEF RestoreBackup
  <2>3. target' = Old(p)
    BY <2>1, <2>2 DEF ContentOf, Kept, Old, Reserved
  <2> QED
    BY <1>2, <2>1, <2>2, <2>3 DEF Ready
<1>4. CASE NothingToRestore(p)
  <2>1. /\ plan[p].kind = "update" /\ backup[p] = NoName /\ pc'[p] = "failed"
        /\ UNCHANGED <<target, durable, backups>>
    BY <1>0, <1>4 DEF NothingToRestore
  <2>2. ~HasTurn(p)
    BY <2>1 DEF HasTurn
  <2>3. Turn = Resting /\ Turn' = Resting
    BY <2>1, <2>2, InsideFacts, TurnAt DEF Inside
  <2>4. Archived' = Archived /\ ToldOnly(p, "undone")
    BY <1>0, <2>1, SameArchive, ToldBecomes DEF ToldOnly
  <2> QED
    BY <1>0, <2>1, <2>2, <2>3, <2>4, Refuses
<1>5. CASE RemoveCreated(p)
  <2>1. /\ pc'[p] = "removed" /\ target' = Absent /\ durable' = durable \cup {target'}
        /\ UNCHANGED <<backups, plan, copy>> /\ pc[p] = "failing" /\ plan[p].kind = "create"
    BY <1>0, <1>5 DEF RemoveCreated
  <2>2. Ready(p) /\ target' = Old(p)
    BY <1>0, <2>1 DEF Course, Old
  <2> QED
    BY <1>2, <2>1, <2>2
<1>6. CASE SyncRestored(p)
  <2>1. SyncDirectory /\ pc[p] \in {"restored", "removed"} /\ pc'[p] = "failed"
    BY <1>0, <1>6 DEF SyncRestored
  <2>2. Ready(p) /\ (Old(p) = Absent \/ target = Old(p))
    BY <1>0, <2>1 DEF Course, Ready, Creating, Old
  <2>3. Turn.client = p /\ Turn.old = Old(p)
    BY <1>1, <2>1, <2>2 DEF Late
  <2>4. Turn' = Resting /\ ToldOnly(p, "undone")
    BY <1>0, <2>1, TurnAt, ToldBecomes DEF ToldOnly, Inside
  <2>5. /\ durable' = {target} /\ target' = target
        /\ Archived' = Archived \/ (target # Absent /\ Archived' = Archived \cup {target})
    BY <1>0, <2>1, SyncArchive
  <2> QED
    BY <2>2, <2>3, <2>4, <2>5, Rejects
<1> QED
  BY <1>3, <1>4, <1>5, <1>6

(***************************************************************************)
(* An I/O error or a kill.  The turn of a file that is to be created       *)
(* begins with the error when nothing was done yet.                        *)
(***************************************************************************)
LEMMA FaultRefines ==
  ASSUME OneLock, RefinementInv, RefinementInv', NEW p \in Procs, pc[p] \in Inside, Step(p),
         IOError(p) \/ Kill(p)
  PROVE  Refines
<1> USE DEF Go, fileVars, bakVars, procVars, counters
<1>0. /\ TypeOK /\ UnsyncedInv /\ Course(p) /\ pc \in [Procs -> Points]
      /\ Told(p) = "none" /\ \A q \in Procs \ {p} : Told(q)' = Told(q)
      /\ pc'[p] \in Inside => \A q \in Procs : Told(q)' = Told(q)
      /\ New(p) \in Whole /\ New(p) # Absent
  BY InsideFacts
<1>1. CASE Kill(p)
  <2>1. UNCHANGED <<target, durable, backups>> /\ pc'[p] = "dead"
    BY <1>0, <1>1 DEF Kill
  <2>2. Turn' = Resting /\ Archived' = Archived /\ ToldOnly(p, "dead")
    BY <1>0, <2>1, TurnAt, SameArchive, ToldBecomes DEF ToldOnly, Inside
  <2>3. Turn.client # p => Turn = Resting
    BY InsideFacts DEF TurnOf
  <2> QED
    BY <2>1, <2>2, <2>3, Dies
<1>2. CASE IOError(p)
  <2>0. UNCHANGED <<target, durable, births, plan, copy, backup, doomed>>
    BY <1>2 DEF IOError
  <2>1. CASE pc[p] \in {"checked", "copying", "copied"} /\ plan[p].kind = "update" /\ pc'[p] = "failing"
    <3>1. backup[p] = NoName /\ Turn = Resting
      BY <1>0, <2>1, TurnAt DEF Course, Copying, Fresh, Early
    <3>2. ~HasTurn(p)'
      BY <2>0, <2>1, <3>1 DEF HasTurn
    <3>3. Turn' = Resting
      BY <3>2, InsideFacts
    <3>4. Archived' = Archived
      <4>1. CASE UNCHANGED backups
        BY <4>1, SameArchive
      <4>2. CASE pc[p] = "copying" /\ copy[p] \in Existing /\ backups' = Without(copy[p])
        <5>1. copy[p] \notin WholeCopies
          BY <1>0, <4>2 DEF Course, WholeCopies
        <5> QED
          BY <1>0, <4>2, <5>1, DeletedArchive
      <4> QED
        BY <1>2, <4>1, <4>2 DEF IOError
    <3> QED
      BY <1>0, <2>0, <2>1, <3>1, <3>3, <3>4, Stutters DEF Inside
  <2>2. CASE pc[p] = "checked" /\ plan[p].kind = "create" /\ pc'[p] = "failing"
    <3>1. UNCHANGED backups
      BY <1>2, <2>2 DEF IOError
    <3>2. target = Absent /\ Fresh(p) /\ Turn = Resting
      BY <1>0, <2>2, TurnAt DEF Course, Untouched, Agrees, Early
    <3>3. AllSynced'
      BY <1>0, <3>1, <3>2, AbsentSynced DEF AllSynced, Existing
    <3>4. Ready(p)'
      BY <2>0, <2>2, <3>2, <3>3 DEF Ready, Creating, Fresh
    <3>5. Turn' = OwnTurn(p)'
      BY <2>2, <3>4, TurnAt
    <3>6. New(p) \in Whole \ {target} /\ Turn' = [client |-> p, old |-> target, new |-> New(p)]
      BY <1>0, <2>0, <2>2, <3>2, <3>5 DEF OwnTurn, Old, New
    <3>7. Archived' = Archived /\ \A q \in Procs : Told(q)' = Told(q)
      BY <1>0, <2>2, <3>1, SameArchive DEF Inside
    <3> QED
      BY <1>0, <2>0, <3>2, <3>6, <3>7, Begins
  <2>3. CASE /\ pc[p] \in {"saved", "written", "flushed", "renamed", "settled", "failing"}
             /\ pc[p] = "failing" => plan[p].kind = "create"
             /\ pc'[p] \in {"failing", "removed"}
    <3>1. UNCHANGED backups
      BY <1>2, <2>3 DEF IOError
    <3>2. Ready(p)
      BY <1>0, <2>3 DEF Course
    <3>3. Ready(p)'
      BY <2>0, <3>1, <3>2, Still
    <3>4. Turn = OwnTurn(p) /\ Turn' = OwnTurn(p)'
      BY <2>3, <3>2, <3>3, TurnAt DEF Late
    <3>5. Turn' = Turn
      BY <2>0, <3>1, <3>4 DEF OwnTurn, Old, New
    <3> QED
      BY <1>0, <2>0, <2>3, <3>1, <3>5, SameArchive, Stutters DEF Inside
  <2>4. CASE pc[p] \in {"locked", "inspected"} /\ pc'[p] = "refused"
    <3>1. UNCHANGED backups
      BY <1>2, <2>4 DEF IOError
    <3>2. ~HasTurn(p) /\ Turn' = Turn
      BY <2>4, TurnAt DEF Early, Inside
    <3>3. ToldOnly(p, "undone")
      BY <1>0, <2>4, ToldBecomes DEF ToldOnly
    <3> QED
      BY <1>0, <2>0, <3>1, <3>2, <3>3, SameArchive, Refuses
  <2>5. CASE /\ pc[p] \in {"failing", "restored"} /\ pc'[p] = "rollbackfailed"
             /\ pc[p] = "failing" => plan[p].kind = "update" /\ backup[p] # NoName
    <3>1. UNCHANGED backups
      BY <1>2, <2>5 DEF IOError
    <3>2. Ready(p)
      BY <1>0, <2>5 DEF Course, Ready
    <3>3. Turn.client = p
      BY <2>5, <3>2, TurnAt DEF Late, OwnTurn
    <3>4. Turn' = Resting /\ ToldOnly(p, "stuck") /\ Archived' = Archived
      BY <1>0, <2>5, <3>1, TurnAt, ToldBecomes, SameArchive DEF ToldOnly, Inside
    <3> QED
      BY <2>0, <3>3, <3>4, GetsStuck
  <2>6. CASE pc[p] = "removed" /\ pc'[p] = "failed"
    <3>1. UNCHANGED backups
      BY <1>2, <2>6 DEF IOError
    <3>2. Creating(p) /\ Ready(p)
      BY <1>0, <2>6 DEF Course, Ready
    <3>3. Turn.client = p /\ Turn.old = Absent
      BY <2>6, <3>2, TurnAt DEF Late, OwnTurn, Creating, Old
    <3>4. Turn' = Resting /\ ToldOnly(p, "undone") /\ Archived' = Archived
      BY <1>0, <2>6, <3>1, TurnAt, ToldBecomes, SameArchive DEF ToldOnly, Inside
    <3> QED
      BY <2>0, <3>3, <3>4, Rejects
  <2>7. /\ plan[p].kind \in {"create", "update"}
        /\ pc[p] \in {"copying", "copied"} => plan[p].kind = "update"
    BY <1>0 DEF TypeOK, Course, Copying, Reserved
  <2>8. \/ pc[p] \in Undoable /\ pc'[p] = "failing"
        \/ pc[p] \in {"locked", "inspected"} /\ pc'[p] = "refused"
        \/ pc[p] = "failing" /\ plan[p].kind = "update" /\ backup[p] # NoName /\ pc'[p] = "rollbackfailed"
        \/ pc[p] = "restored" /\ pc'[p] = "rollbackfailed"
        \/ plan[p].kind = "create" /\ pc[p] = "failing" /\ pc'[p] = "removed"
        \/ pc[p] = "removed" /\ pc'[p] = "failed"
    BY <1>0, <1>2 DEF IOError, Inside
  <2> QED
    BY <2>1, <2>2, <2>3, <2>4, <2>5, <2>6, <2>7, <2>8 DEF Undoable
<1> QED
  BY <1>1, <1>2

-----------------------------------------------------------------------------
(***************************************************************************)
(* The machine stops: every turn ends, and everybody who was at work is    *)
(* dead.                                                                   *)
(***************************************************************************)
LEMMA LossRefines ==
  ASSUME RefinementInv, PowerLoss
  PROVE  Refines
<1>1. \A q \in Procs : pc'[q] = pc[q] \/ pc'[q] = "dead"
  BY DEF PowerLoss
<1>2. \A q \in Procs : pc'[q] \notin Inside
  BY DEF PowerLoss, Inside, Ended
<1>3. Turn' = Resting
  BY <1>2, TurnInside, NoTurn
<1>4. \A q \in Procs : Told(q)' \in {Told(q), "dead"}
  BY <1>1, ToldSame, ToldBecomes
<1>5. \A q \in Procs : Told(q)' \in Replacement!Answers
  BY DEF Told, Replacement!Answers
<1>6. Archived' = Archived \/ (target # Absent /\ Archived' = Archived \cup {target})
  BY LossArchive DEF RefinementInv, TransactionInv
<1>7. target' \in durable /\ durable' = {target'}
  BY DEF PowerLoss
<1>8. Replacement!PowerLoss
  <2>1. Answered' \in [Procs -> Replacement!Answers]
    BY <1>5 DEF Answered
  <2>2. \A q \in Procs : Answered'[q] \in {Answered[q], "dead"}
    BY <1>4 DEF Answered
  <2> QED
    BY <1>3, <1>6, <1>7, <2>1, <2>2 DEF Replacement!PowerLoss, Replacement!Archive,
       Replacement!Resting, Resting, Archived, WholeCopies, Answered
<1> QED
  BY <1>8 DEF Refines, Replacement!Next

(* Every step is a step of the abstract specification, or none of it. *)
LEMMA RefinementStep ==
  ASSUME OneLock, NoEdits, NoRestore, RefinementInv, RefinementInv', [Next]_vars
  PROVE  Refines
<1>1. ASSUME NEW p \in Procs, Step(p), pc[p] \in Inside PROVE Refines
  <2>1. ~Command(p) /\ ~Prune(p) /\ ~TakeLock(p)
    BY <1>1 DEF Command, Prune, TakeLock, SelectBackup, RenderMenu, BuildPlan, ListSurplus,
         RemoveSurplus, PruneDone, Inside, Go
  <2> QED
    BY <1>1, <2>1, PreparationRefines, ReplacementRefines, UndoingRefines, FaultRefines
       DEF Step, Apply
<1>2. ASSUME NEW p \in Procs, Step(p), pc[p] \notin Inside PROVE Refines
  BY <1>2, OutsideRefines
<1>3. CASE PowerLoss
  BY <1>3, LossRefines
<1>4. ~ExternalEdit
  BY DEF ExternalEdit, NoEdits, RefinementInv, TypeOK
<1>5. CASE UNCHANGED vars
  <2>1. /\ UNCHANGED <<target, durable, Archived, Turn>>
        /\ \A q \in Procs : Told(q)' = Told(q)
    BY <1>5, SameArchive, ToldSame
       DEF vars, fileVars, bakVars, procVars, Turn, HasTurn
  <2> QED
    BY <2>1, Stutters
<1> QED
  BY <1>1, <1>2, <1>3, <1>4, <1>5 DEF Next, Environment

LEMMA RefinementInit ==
  ASSUME Init
  PROVE  RefinementInv /\ Replacement!Init
<1>1. TypeOK /\ TransactionInv /\ TornInv
  BY TypeInit, TransactionInit, TornInit
<1>2. \A p \in Procs : pc[p] = "start"
  BY DEF Init
<1>3. LockInv /\ MenuInv
  BY <1>2 DEF Init, LockInv, MenuInv, Inside
<1>4. /\ target \in Whole \cup {Absent} /\ durable = {target}
      /\ Archived \subseteq Whole
  BY <1>1, WholeFiles DEF Init
<1>5. Turn = Resting
  BY <1>2, TurnInside, NoTurn DEF Inside
<1>6. Answered = [p \in Procs |-> "none"]
  BY <1>2, ToldIs DEF Answered, Before
<1>7. Replacement!Init
  BY <1>4, <1>5, <1>6 DEF Replacement!Init, Replacement!Resting, Resting, Archived, WholeCopies,
     Answered
<1> QED
  BY <1>1, <1>3, <1>7 DEF RefinementInv

LEMMA RefinementInvStep ==
  ASSUME OneLock, NoEdits, FineClock, NoRestore, RefinementInv, [Next]_vars
  PROVE  RefinementInv'
<1>1. TypeOK'
  BY TypeStep DEF RefinementInv
<1> QED
  BY <1>1, LockStep, TransactionStep, TornStep, MenuStep DEF RefinementInv, OneLock, NoRestore

(***************************************************************************)
(* Theorem.  With one lock, nobody else who edits the boot file, a clock   *)
(* that tells backups apart and no restore among the invocations, the      *)
(* lock, the backups, the temporary file and the error paths together are  *)
(* an atomic replacement of the boot file, whatever fails or stops.        *)
(***************************************************************************)
THEOREM ImplementsAtomicReplace ==
  ASSUME OneLock, NoEdits, FineClock, NoRestore
  PROVE  Spec => ReplacesAtomically
<1>1. Init => RefinementInv /\ Replacement!Init
  BY RefinementInit
<1>2. RefinementInv /\ [Next]_vars => RefinementInv'
  BY RefinementInvStep
<1>3. RefinementInv /\ RefinementInv' /\ [Next]_vars => [Replacement!Next]_(Replacement!vars)
  BY RefinementStep DEF Refines
<1> QED
  BY <1>1, <1>2, <1>3, PTL DEF Spec, ReplacesAtomically, Replacement!Spec

=============================================================================
