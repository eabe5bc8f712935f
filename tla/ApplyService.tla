---------------------------- MODULE ApplyService ----------------------------
(***************************************************************************)
(* Installing limine.conf.                                                 *)
(*                                                                         *)
(* Several invocations of limine-manager (apply and refresh, restore,      *)
(* prune-backups) work on one boot file and the directory that holds it.   *)
(* Each builds a plan from what it reads, takes the apply lock, checks the *)
(* plan against the file, copies the file to a backup, replaces it by a    *)
(* rename, verifies it and, when any of this fails, puts the backup back;  *)
(* after it has let go of the lock it prunes old backups.  Any step that   *)
(* does I/O may fail, a process may be killed between two steps, and the   *)
(* machine may lose power.                                                 *)
(*                                                                         *)
(* A file is a record [text, nl]: one of a small set of menus, and whether *)
(* its last line ends in a newline, which is all that normalize_newline    *)
(* can see.  The text "partial" stands for a truncated file.               *)
(***************************************************************************)
EXTENDS Integers, FiniteSets

CONSTANTS
  Procs,       \* invocations of the program
  Role,        \* Role[p]: the command p runs, "apply", "restore" or "prune"
  LockDir,     \* LockDir[p]: the runtime directory in which p takes apply.lock
  Texts,       \* the texts of complete menus
  Names,       \* file names a backup may get, ordered as their strings are
  OldBackups,  \* the names of backups that exist at the start, oldest first
  Absent,      \* what there is where there is no file
  Unused,      \* what a name is that no backup has had yet
  Retention,   \* backup_retention, 0 to keep them all
  ClockGrain,  \* backups born within this many ticks share a modification time
  MaxEdits,    \* bound: edits of the file by another program
  MaxFaults,   \* bound: I/O operations that fail
  MaxCrashes   \* bound: kills and power losses

Partial == "partial"
NoName == 0
Nobody == "nobody"

ASSUME ApplyAssumption ==
  /\ Role \in [Procs -> {"apply", "restore", "prune"}]
  /\ Names \subseteq Nat \ {NoName}
  /\ OldBackups \subseteq Names
  /\ IsFiniteSet(Names)
  /\ Retention \in Nat
  /\ ClockGrain \in Nat \ {0}
  /\ MaxEdits \in Nat /\ MaxFaults \in Nat /\ MaxCrashes \in Nat
  /\ Nobody \notin Procs
  /\ Partial \notin Texts

Dirs == {LockDir[p] : p \in Procs}

Files == [text : Texts \cup {Partial}, nl : BOOLEAN]
Whole == [text : Texts, nl : BOOLEAN]
Truncated == [text |-> Partial, nl |-> FALSE]

Kinds == {"none", "unchanged", "create", "update"}
Plans == [kind : Kinds, installed : Files \cup {Absent}, generated : Files \cup {Absent}]

(***************************************************************************)
(* A backup: the content it is a copy of, whether the copy has been        *)
(* written out, whether its directory entry is on the disk, whether it was *)
(* deleted, and its rank in the order of creation.                         *)
(***************************************************************************)
Backups == [of : Files, written : BOOLEAN, synced : BOOLEAN, gone : BOOLEAN, born : Nat]

ASSUME NoFileAssumption == Absent \notin Files /\ Unused \notin Backups

(***************************************************************************)
(* The program points.  Before: no lock is held.  Inside: apply.lock is    *)
(* held.  After: apply() has returned or thrown.                           *)
(***************************************************************************)
Before == {"start", "selected", "planned"}
Inside == {"locked", "inspected", "checked", "copying", "copied", "saved",
           "written", "flushed", "renamed", "settled", "failing", "restored", "removed"}
Outside == {"applied", "pruning"}
Ended == {"unchanged", "nobackup", "busy", "refused", "failed", "rollbackfailed",
          "done", "prunefailed", "dead"}
Points == Before \cup Inside \cup Outside \cup Ended

VARIABLES
  target,    \* the boot file as every process sees it
  durable,   \* what the boot file may hold after a power loss
  backups,   \* backups[n]: the backup named n
  births,    \* how many backups were created so far
  lock,      \* lock[d]: who holds apply.lock in runtime directory d
  pc,        \* pc[p]: where p is
  plan,      \* plan[p]: its ChangePlan
  copy,      \* copy[p]: the backup file p created (backup_candidate)
  backup,    \* backup[p]: the backup p would restore (the variable backup)
  tmp,       \* tmp[p]: p's temporary file, "none", "unsynced" or "synced"
  doomed,    \* doomed[p]: the backups p still has to prune
  edits, faults, crashes

fileVars == <<target, durable>>
bakVars == <<backups, births>>
procVars == <<plan, copy, backup, tmp, doomed>>
counters == <<edits, faults, crashes>>
vars == <<fileVars, bakVars, lock, pc, procVars, counters>>

(* normalize_newline: the text ends in a newline; an absent file has none. *)
Normalize(f) == IF f = Absent THEN Absent ELSE [f EXCEPT !.nl = TRUE]

Existing == {n \in Names : backups[n] # Unused /\ ~backups[n].gone}
Without(n) == [backups EXCEPT ![n].gone = TRUE]

(* What a reader of backup n gets while its writer may still be copying. *)
ContentOf(n) == IF backups[n].written THEN backups[n].of ELSE Truncated

Modified(n) == backups[n].born \div ClockGrain

(* Faulty: sorted by ascending modification time. *)
ListedBefore_OldestFirst(m, n) == backups[m].born < backups[n].born

(* The order of BackupService::list: modification time, then file name. *)
ListedBefore(m, n) == \/ Modified(m) > Modified(n)
                      \/ Modified(m) = Modified(n) /\ m > n

OnDisk(b) == IF b = Unused THEN Unused ELSE [b EXCEPT !.synced = TRUE]

(* fsync of the directory puts every entry on the disk as it stands. *)
SyncDirectory == /\ durable' = {target}
                 /\ backups' = [n \in Names |-> OnDisk(backups[n])]
                 /\ UNCHANGED <<target, births>>

Init ==
  /\ target \in Whole \cup {Absent}
  /\ durable = {target}
  /\ \E t \in Texts :
       backups = [n \in Names |->
                    IF n \in OldBackups
                    THEN [of |-> [text |-> t, nl |-> TRUE], written |-> TRUE, synced |-> TRUE,
                          gone |-> FALSE, born |-> Cardinality({m \in OldBackups : m < n})]
                    ELSE Unused]
  /\ births = Cardinality(OldBackups)
  /\ lock = [d \in Dirs |-> Nobody]
  /\ pc = [p \in Procs |-> "start"]
  /\ plan = [p \in Procs |-> [kind |-> "none", installed |-> Absent, generated |-> Absent]]
  /\ copy = [p \in Procs |-> NoName]
  /\ backup = [p \in Procs |-> NoName]
  /\ tmp = [p \in Procs |-> "none"]
  /\ doomed = [p \in Procs |-> {}]
  /\ edits = 0 /\ faults = 0 /\ crashes = 0

Go(p, from, to) == pc[p] = from /\ pc' = [pc EXCEPT ![p] = to]
(* Leaving apply() closes the lock's descriptor. *)
Release(p) == lock' = [lock EXCEPT ![LockDir[p]] = Nobody]

-----------------------------------------------------------------------------
(* The commands: choosing what to install, and planning the change.        *)

(* restore reads the backup it was given, or the newest one. *)
SelectBackup(p) ==
  /\ Role[p] = "restore"
  /\ \/ /\ Existing = {}
        /\ Go(p, "start", "nobackup")
        /\ UNCHANGED plan
     \/ /\ Go(p, "start", "selected")
        /\ \E n \in Existing :
             plan' = [plan EXCEPT ![p].generated = Normalize(ContentOf(n))]
  /\ UNCHANGED <<fileVars, bakVars, lock, copy, backup, tmp, doomed, counters>>

(* apply and refresh render some complete menu. *)
RenderMenu(p) ==
  /\ Role[p] = "apply"
  /\ Go(p, "start", "selected")
  /\ \E t \in Texts : plan' = [plan EXCEPT ![p].generated = [text |-> t, nl |-> TRUE]]
  /\ UNCHANGED <<fileVars, bakVars, lock, copy, backup, tmp, doomed, counters>>

ChangeKind(installed, generated) ==
  IF installed = Absent THEN "create"
  ELSE IF installed = generated THEN "unchanged" ELSE "update"

(* Faulty: an unchanged plan is applied like any other. *)
BuildPlan_AppliesUnchanged(p) ==
  /\ Go(p, "selected", "planned")
  /\ plan' = [plan EXCEPT ![p].kind = ChangeKind(Normalize(target), plan[p].generated),
                         ![p].installed = Normalize(target)]
  /\ UNCHANGED <<fileVars, bakVars, lock, copy, backup, tmp, doomed, counters>>

(* ChangePlanner::build reads the file without any lock. *)
BuildPlan(p) ==
  LET kind == ChangeKind(Normalize(target), plan[p].generated)
  IN /\ Go(p, "selected", IF kind = "unchanged" THEN "unchanged" ELSE "planned")
     /\ plan' = [plan EXCEPT ![p].kind = kind, ![p].installed = Normalize(target)]
     /\ UNCHANGED <<fileVars, bakVars, lock, copy, backup, tmp, doomed, counters>>

-----------------------------------------------------------------------------
(* ApplyService::apply.                                                    *)

(* Faulty: the result of flock is not looked at. *)
LockIsFree_Unchecked(p) == TRUE

LockIsFree(p) == lock[LockDir[p]] = Nobody

(* flock with LOCK_NB: whoever finds the lock held gives up. *)
TakeLock(p) ==
  /\ Go(p, "planned", IF LockIsFree(p) THEN "locked" ELSE "busy")
  /\ lock' = IF LockIsFree(p) THEN [lock EXCEPT ![LockDir[p]] = p] ELSE lock
  /\ UNCHANGED <<fileVars, bakVars, procVars, counters>>

(* The lstat of the file, and what the plan says about its existence. *)
Inspect(p) ==
  LET agrees == (plan[p].kind = "update") = (target # Absent)
  IN /\ Go(p, "locked", IF agrees THEN "inspected" ELSE "refused")
     /\ IF agrees THEN UNCHANGED lock ELSE Release(p)
     /\ UNCHANGED <<fileVars, bakVars, procVars, counters>>

(* Faulty: only the existence of the file is checked. *)
PlanIsCurrent_ExistsOnly(p) == plan[p].kind = "create" \/ target # Absent

(* The content the plan was made for is still there. *)
PlanIsCurrent(p) == \/ plan[p].kind = "create"
                    \/ target # Absent /\ Normalize(target) = plan[p].installed

Compare(p) ==
  /\ Go(p, "inspected", IF PlanIsCurrent(p) THEN "checked" ELSE "refused")
  /\ IF PlanIsCurrent(p) THEN UNCHANGED lock ELSE Release(p)
  /\ UNCHANGED <<fileVars, bakVars, procVars, counters>>

(* copy_file_secure opens the file again and creates the backup, empty. *)
CreateBackup(p) ==
  /\ plan[p].kind = "update"
  /\ IF target = Absent
     THEN Go(p, "checked", "failing") /\ UNCHANGED <<bakVars, copy>>
     ELSE \E n \in Names :
            /\ backups[n] = Unused
            /\ Go(p, "checked", "copying")
            /\ backups' = [backups EXCEPT ![n] =
                 [of |-> target, written |-> FALSE, synced |-> FALSE,
                  gone |-> FALSE, born |-> births]]
            /\ births' = births + 1
            /\ copy' = [copy EXCEPT ![p] = n]
  /\ UNCHANGED <<fileVars, lock, plan, backup, tmp, doomed, counters>>

WriteBackup(p) ==
  /\ Go(p, "copying", "copied")
  /\ backups' = IF copy[p] \in Existing
                THEN [backups EXCEPT ![copy[p]].written = TRUE] ELSE backups
  /\ UNCHANGED <<fileVars, births, lock, procVars, counters>>

(* Faulty: the directory is not synced after the copy. *)
SyncBackup_NoSync(p) ==
  /\ Go(p, "copied", "saved")
  /\ backup' = [backup EXCEPT ![p] = copy[p]]
  /\ UNCHANGED <<fileVars, bakVars, lock, plan, copy, tmp, doomed, counters>>

(* Only now does the error path know of a backup to restore. *)
SyncBackup(p) ==
  /\ Go(p, "copied", "saved")
  /\ SyncDirectory
  /\ backup' = [backup EXCEPT ![p] = copy[p]]
  /\ UNCHANGED <<lock, plan, copy, tmp, doomed, counters>>

(* A new file needs no backup. *)
SkipBackup(p) ==
  /\ plan[p].kind = "create"
  /\ Go(p, "checked", "saved")
  /\ UNCHANGED <<fileVars, bakVars, lock, procVars, counters>>

WriteTemporary(p) ==
  /\ Go(p, "saved", "written")
  /\ tmp' = [tmp EXCEPT ![p] = "unsynced"]
  /\ UNCHANGED <<fileVars, bakVars, lock, plan, copy, backup, doomed, counters>>

(* Faulty: the temporary file is renamed without a sync of its data. *)
SyncTemporary_NoSync(p) ==
  /\ Go(p, "written", "flushed")
  /\ UNCHANGED <<fileVars, bakVars, lock, procVars, counters>>

SyncTemporary(p) ==
  /\ Go(p, "written", "flushed")
  /\ tmp' = [tmp EXCEPT ![p] = "synced"]
  /\ UNCHANGED <<fileVars, bakVars, lock, plan, copy, backup, doomed, counters>>

(* A rename is atomic, and on the disk only after the directory is synced; *)
(* a file renamed before its data was synced may be found truncated.       *)
Rename(p) ==
  /\ Go(p, "flushed", "renamed")
  /\ target' = plan[p].generated
  /\ durable' = durable \cup {IF tmp[p] = "synced" THEN plan[p].generated ELSE Truncated}
  /\ tmp' = [tmp EXCEPT ![p] = "none"]
  /\ UNCHANGED <<bakVars, lock, plan, copy, backup, doomed, counters>>

(* Faulty: the directory is not synced after the rename. *)
SyncRename_Skipped(p) ==
  /\ Go(p, "renamed", "settled")
  /\ UNCHANGED <<fileVars, bakVars, lock, procVars, counters>>

SyncRename(p) ==
  /\ Go(p, "renamed", "settled")
  /\ SyncDirectory
  /\ UNCHANGED <<lock, procVars, counters>>

(* Reads the file back; success returns and lets go of the lock. *)
Verify(p) ==
  LET installed == target = plan[p].generated
  IN /\ Go(p, "settled", IF installed THEN "applied" ELSE "failing")
     /\ IF installed THEN Release(p) ELSE UNCHANGED lock
     /\ UNCHANGED <<fileVars, bakVars, procVars, counters>>

(* The catch block: the temporary file goes, the previous file comes back. *)
RestoreBackup(p) ==
  /\ plan[p].kind = "update" /\ backup[p] # NoName
  /\ tmp' = [tmp EXCEPT ![p] = "none"]
  /\ IF backup[p] \in Existing
     THEN /\ Go(p, "failing", "restored")
          /\ target' = ContentOf(backup[p])
          /\ durable' = durable \cup {ContentOf(backup[p])}
          /\ UNCHANGED lock
     ELSE /\ Go(p, "failing", "rollbackfailed")
          /\ Release(p)
          /\ UNCHANGED fileVars
  /\ UNCHANGED <<bakVars, plan, copy, backup, doomed, counters>>

(* Nothing was replaced yet: there is no backup, and nothing to put back. *)
NothingToRestore(p) ==
  /\ plan[p].kind = "update" /\ backup[p] = NoName
  /\ Go(p, "failing", "failed")
  /\ tmp' = [tmp EXCEPT ![p] = "none"]
  /\ Release(p)
  /\ UNCHANGED <<fileVars, bakVars, plan, copy, backup, doomed, counters>>

(* A file that was to be created is unlinked, whoever created it. *)
RemoveCreated(p) ==
  /\ plan[p].kind = "create"
  /\ Go(p, "failing", "removed")
  /\ tmp' = [tmp EXCEPT ![p] = "none"]
  /\ target' = Absent
  /\ durable' = durable \cup {Absent}
  /\ UNCHANGED <<bakVars, lock, plan, copy, backup, doomed, counters>>

(* Both error paths end with a sync of the directory. *)
SyncRestored(p) ==
  /\ \/ Go(p, "restored", "failed")
     \/ Go(p, "removed", "failed")
  /\ SyncDirectory
  /\ Release(p)
  /\ UNCHANGED <<procVars, counters>>

-----------------------------------------------------------------------------
(* BackupService::prune, outside the lock.                                 *)

(* Faulty: off by one, the last backup to keep goes too. *)
Surplus_OffByOne(keep) ==
  {n \in Existing : Cardinality({m \in Existing : ListedBefore(m, n)}) + 1 >= keep}

(* The backups listed after the first `keep` of them. *)
Surplus(keep) ==
  {n \in Existing : Cardinality({m \in Existing : ListedBefore(m, n)}) >= keep}

ListSurplus(p) ==
  /\ \/ Role[p] = "prune" /\ Go(p, "start", "pruning")
     \/ Go(p, "applied", "pruning")
  /\ doomed' = [doomed EXCEPT ![p] = IF Retention = 0 THEN {} ELSE Surplus(Retention)]
  /\ UNCHANGED <<fileVars, bakVars, lock, plan, copy, backup, tmp, counters>>

(* Newest first; a file that somebody else removed is an error. *)
RemoveSurplus(p) ==
  \E n \in doomed[p] :
    /\ \A m \in doomed[p] \ {n} : ListedBefore(n, m)
    /\ IF n \in Existing
       THEN /\ Go(p, "pruning", "pruning")
            /\ backups' = Without(n)
            /\ doomed' = [doomed EXCEPT ![p] = @ \ {n}]
       ELSE Go(p, "pruning", "prunefailed") /\ UNCHANGED <<backups, doomed>>
    /\ UNCHANGED <<fileVars, births, lock, plan, copy, backup, tmp, counters>>

PruneDone(p) ==
  /\ doomed[p] = {}
  /\ Go(p, "pruning", "done")
  /\ UNCHANGED <<fileVars, bakVars, lock, procVars, counters>>

-----------------------------------------------------------------------------
(* What goes wrong.                                                        *)

(* The points from which a failing call leads to the catch block, and      *)
(* those where it is thrown before anything was done.                      *)
Undoable == {"checked", "copying", "copied", "saved", "written", "flushed", "renamed", "settled"}

IOError(p) ==
  /\ faults < MaxFaults
  /\ faults' = faults + 1
  /\ \/ /\ pc[p] \in Undoable
        /\ pc' = [pc EXCEPT ![p] = "failing"]
        /\ UNCHANGED lock
     \/ /\ pc[p] \in {"planned", "locked", "inspected"}
        /\ pc' = [pc EXCEPT ![p] = "refused"]
        /\ IF pc[p] = "planned" THEN UNCHANGED lock ELSE Release(p)
     \/ /\ \/ pc[p] = "failing" /\ plan[p].kind = "update" /\ backup[p] # NoName
           \/ pc[p] = "restored"
        /\ pc' = [pc EXCEPT ![p] = "rollbackfailed"]
        /\ Release(p)
     \/ /\ plan[p].kind = "create" /\ Go(p, "failing", "removed")
        /\ UNCHANGED lock
     \/ /\ Go(p, "removed", "failed")
        /\ Release(p)
     \/ /\ pc[p] = "pruning" /\ doomed[p] # {}
        /\ pc' = [pc EXCEPT ![p] = "prunefailed"]
        /\ UNCHANGED lock
  (* A copy that fails is unlinked by copy_file_secure. *)
  /\ backups' = IF pc[p] = "copying" /\ copy[p] \in Existing
                THEN Without(copy[p]) ELSE backups
  /\ tmp' = IF pc[p] = "failing" THEN [tmp EXCEPT ![p] = "none"] ELSE tmp
  /\ UNCHANGED <<fileVars, births, plan, copy, backup, doomed, edits, crashes>>

(* The process is killed; the kernel drops its lock. *)
Kill(p) ==
  /\ crashes < MaxCrashes
  /\ crashes' = crashes + 1
  /\ pc[p] \notin Ended
  /\ pc' = [pc EXCEPT ![p] = "dead"]
  /\ IF pc[p] \in Inside THEN Release(p) ELSE UNCHANGED lock
  /\ UNCHANGED <<fileVars, bakVars, procVars, edits, faults>>

(* The machine stops: what was not synced may be lost, and what is not     *)
(* lost is on the disk.                                                    *)
PowerLoss ==
  /\ crashes < MaxCrashes
  /\ crashes' = crashes + 1
  /\ pc' = [p \in Procs |-> IF pc[p] \in Ended THEN pc[p] ELSE "dead"]
  /\ lock' = [d \in Dirs |-> Nobody]
  /\ target' \in durable
  /\ durable' = {target'}
  /\ \E lost \in SUBSET {n \in Existing : ~backups[n].synced} :
       backups' = [n \in Names |-> IF n \in lost THEN [backups[n] EXCEPT !.gone = TRUE]
                                   ELSE OnDisk(backups[n])]
  /\ UNCHANGED <<births, procVars, edits, faults>>

(* Another program, which knows nothing of the lock, rewrites the file. *)
ExternalEdit ==
  /\ edits < MaxEdits
  /\ edits' = edits + 1
  /\ target' \in (Whole \cup {Absent}) \ {target}
  /\ durable' = durable \cup {target'}
  /\ UNCHANGED <<bakVars, lock, pc, procVars, faults, crashes>>

-----------------------------------------------------------------------------
Apply(p) ==
  \/ TakeLock(p) \/ Inspect(p) \/ Compare(p)
  \/ CreateBackup(p) \/ WriteBackup(p) \/ SyncBackup(p) \/ SkipBackup(p)
  \/ WriteTemporary(p) \/ SyncTemporary(p) \/ Rename(p) \/ SyncRename(p) \/ Verify(p)
  \/ RestoreBackup(p) \/ NothingToRestore(p) \/ RemoveCreated(p) \/ SyncRestored(p)

Prune(p) == ListSurplus(p) \/ RemoveSurplus(p) \/ PruneDone(p)

Command(p) == SelectBackup(p) \/ RenderMenu(p) \/ BuildPlan(p)

Step(p) == Command(p) \/ Apply(p) \/ Prune(p) \/ IOError(p) \/ Kill(p)

Environment == PowerLoss \/ ExternalEdit

Next == (\E p \in Procs : Step(p)) \/ Environment

Spec == Init /\ [][Next]_vars

-----------------------------------------------------------------------------
(* Properties.                                                             *)

(***************************************************************************)
(* The variables have their types, and whoever is past planning has a      *)
(* change to make: with an unchanged plan apply() returns at once.         *)
(***************************************************************************)
TypeOK ==
  /\ target \in Files \cup {Absent}
  /\ durable \subseteq Files \cup {Absent}
  /\ backups \in [Names -> Backups \cup {Unused}]
  /\ births \in Nat
  /\ lock \in [Dirs -> Procs \cup {Nobody}]
  /\ pc \in [Procs -> Points]
  /\ plan \in [Procs -> Plans]
  /\ copy \in [Procs -> Names \cup {NoName}]
  /\ backup \in [Procs -> Names \cup {NoName}]
  /\ tmp \in [Procs -> {"none", "unsynced", "synced"}]
  /\ doomed \in [Procs -> SUBSET Names]
  /\ edits \in Nat /\ faults \in Nat /\ crashes \in Nat
  /\ \A p \in Procs : pc[p] \in Inside \cup {"planned"} => plan[p].kind \in {"create", "update"}

(***************************************************************************)
(* Never do two invocations work on the boot file at the same time: from   *)
(* the check of the plan to the end of an undo there is one of them.       *)
(***************************************************************************)
Exclusive ==
  \A p, q \in Procs : pc[p] \in Inside /\ pc[q] \in Inside => p = q

(***************************************************************************)
(* The boot file is never truncated, neither for a process that reads it   *)
(* now nor for the machine that boots after a power loss at this moment:   *)
(* data is synced before the rename, and only whole copies are restored.   *)
(***************************************************************************)
NeverTorn == \A f \in {target} \cup durable : f # Absent => f.text # Partial

HeldIn(b, f) ==
  \E n \in Names : /\ b[n] # Unused /\ ~b[n].gone
                  /\ b[n].written /\ b[n].synced /\ b[n].of = f

(* A step of the program, as opposed to its environment, replaces a file. *)
Overwrites == /\ target # Absent /\ target' # target
              /\ edits' = edits /\ crashes' = crashes

(***************************************************************************)
(* What the program overwrites is on the disk in a whole backup at that    *)
(* moment, byte for byte, unless it is what the same, failing invocation   *)
(* has just written.                                                       *)
(***************************************************************************)
NothingLost ==
  [][Overwrites => \/ HeldIn(backups', target)
                   \/ \E p \in Procs : pc[p] = "failing" /\ target = plan[p].generated]_vars

(***************************************************************************)
(* With another program editing the file, the only contents that can be    *)
(* overwritten without a backup are those that appeared after the          *)
(* invocation had made its copy.                                           *)
(***************************************************************************)
LostOnlyInWindow ==
  [][Overwrites => \/ HeldIn(backups', target)
                   \/ \E p \in Procs : /\ pc[p] \in {"flushed", "failing"}
                                       /\ copy[p] # NoName => target # backups[copy[p]].of]_vars

(***************************************************************************)
(* apply() returns only with the planned content in place, and throws only *)
(* with the content the plan was made for back in place.  The one leftover *)
(* is a newly created file whose unlink fails too: that is ignored.        *)
(***************************************************************************)
AllOrNothing ==
  [][\A p \in Procs : pc'[p] # pc[p] =>
       /\ pc'[p] = "applied" => target' = plan[p].generated
       /\ pc'[p] = "failed" => \/ Normalize(target') = plan[p].installed
                               \/ plan[p].kind = "create" /\ faults' >= 2]_vars

(***************************************************************************)
(* "apply failed and automatic rollback also failed" takes two I/O errors: *)
(* no pruning, which holds no lock, takes away the backup being relied on. *)
(***************************************************************************)
RollbackBreaksOnlyTwice ==
  \A p \in Procs : pc[p] = "rollbackfailed" => faults >= 2

(***************************************************************************)
(* Pruning removes the oldest backups: it never deletes one while it means *)
(* to keep another that is older.                                          *)
(***************************************************************************)
OldestGoFirst ==
  [][\A p \in Procs, n \in Existing :
       pc[p] = "pruning" /\ doomed'[p] # doomed[p] /\ n \in doomed[p] \ doomed'[p]
         => \A m \in Existing : backups[m].born < backups[n].born => m \in doomed[p]]_vars

-----------------------------------------------------------------------------
(* What all this amounts to.                                               *)

(* p relies on its backup, or on there having been no file. *)
HasTurn(p) ==
  \/ plan[p].kind = "update" /\ pc[p] \in Inside /\ backup[p] # NoName
  \/ plan[p].kind = "create" /\ pc[p] \in Inside \ {"locked", "inspected", "checked"}

Turn ==
  IF \E p \in Procs : HasTurn(p)
  THEN LET p == CHOOSE q \in Procs : HasTurn(q)
       IN  [client |-> p, new |-> plan[p].generated,
            old |-> IF plan[p].kind = "create" THEN Absent ELSE backups[backup[p]].of]
  ELSE [client |-> Nobody, old |-> Absent, new |-> Absent]

(* What the caller of apply() is told. *)
Told(p) ==
  CASE pc[p] = "dead" -> "dead"
    [] pc[p] = "rollbackfailed" -> "stuck"
    [] pc[p] \in {"failed", "refused", "busy"} -> "undone"
    [] Role[p] # "prune" /\ pc[p] \in {"applied", "pruning", "done", "prunefailed"} -> "done"
    [] OTHER -> "none"

Replacement == INSTANCE AtomicReplace WITH
  Clients  <- Procs,
  Contents <- Whole,
  None     <- Absent,
  NoClient <- Nobody,
  file     <- target,
  disk     <- durable,
  archive  <- {backups[n].of : n \in {m \in Existing : backups[m].written /\ backups[m].synced}},
  turn     <- Turn,
  answer   <- [p \in Procs |-> Told(p)]

(***************************************************************************)
(* The lock, the backups, the temporary file and the error paths together  *)
(* are an atomic replacement: every step is a step of AtomicReplace or     *)
(* changes nothing that it speaks of.  Nobody edits the file meanwhile.    *)
(***************************************************************************)
ReplacesAtomically == Replacement!Spec

=============================================================================
