----------------------- MODULE SecureBootApplyProofs -----------------------
(***************************************************************************)
(* Theorems about module SecureBootApply.  The types hold for any          *)
(* invocations.  For one apply, beside any number of prunes, without edits *)
(* by another program and with a clock that tells backups apart:           *)
(* configuration and executable change together, there is a way back while *)
(* they differ, and only repeated failures break the transaction.          *)
(***************************************************************************)
EXTENDS SecureBootApply, ApplyServiceProofs

OneApply == \A p, q \in Procs : Protected(p) /\ Protected(q) => p = q

-----------------------------------------------------------------------------
(***************************************************************************)
(* The invariant, for the one apply.  Prior: the configuration that the    *)
(* executable was enrolled for when the transaction was opened, if it was  *)
(* for any: in place until it is replaced, and in the backup from then on. *)
(***************************************************************************)
Relies(p) == \/ pc[p] \in Late \cup {"applied", "rollbackfailed"}
             \/ pc[p] = "failing" /\ backup[p] # NoName
             \/ pc[p] \in {"failing", "failed"} /\ plan[p].kind = "create"
Prior(p) == IF Relies(p) THEN Old(p) ELSE target

(* An executable that accepts the configuration there was. *)
AcceptsPrior(p, image) == image # Absent /\ image.signed /\ image.digest \in {Absent, Prior(p)}

Answers == {"applied", "busy", "refused", "failed", "rollbackfailed"}

(* What the answers of ApplyService say about the configuration. *)
Consequent(p) ==
  /\ Normalize(Prior(p)) = plan[p].installed
  /\ plan[p].generated # Absent
  /\ pc[p] = "failed" => target = Prior(p) \/ (plan[p].kind = "create" /\ faults >= 2)
  /\ pc[p] \in {"applied", "rollbackfailed"} => Ready(p)

Closed(p) ==
  /\ pc[p] \in Before \cup {"unchanged", "refused", "dead"}
  /\ ~configPending[p] /\ ~efiPending[p] /\ efiCopy[p] = Absent
  /\ InStep /\ durable = {target}
  /\ pc[p] = "planned" => Normalize(target) = plan[p].installed

Opened(p) ==
  /\ pc[p] \in Inside \cup Answers \cup {"planned"}
  /\ ~configPending[p] /\ efiPending[p]
  /\ efi = efiCopy[p] /\ AcceptsPrior(p, efi)
  /\ pc[p] = "applied" => target = New(p)
  /\ Consequent(p)

(* From the configuration that is in place to the executable enrolled. *)
Changing(p) ==
  /\ pc[p] = "applied" /\ target = New(p)
  /\ configPending[p] /\ efiPending[p]
  /\ AcceptsPrior(p, efiCopy[p])
  /\ Consequent(p)
  /\ stage[p] # "recorded" => digest[p] = target
  /\ stage[p] \in {"enrolled", "signed", "verified"} => efi.digest = target
  /\ stage[p] \in {"signed", "verified"} => efi.signed

(* Each part that is not pending is back; each that is has failed as often *)
(* as it was tried, or cannot be undone.                                   *)
Undone(p) ==
  /\ pc[p] \in Answers /\ attempt[p] \in 1..3
  /\ Consequent(p)
  /\ configPending[p] => pc[p] = "applied"
  /\ pc[p] = "applied" /\ ~configPending[p] => target = Prior(p)
  /\ efiPending[p] => efiCopy[p] = Absent \/ AcceptsPrior(p, efiCopy[p])
  /\ ~efiPending[p] => AcceptsPrior(p, efi)

Tried(p) ==
  /\ stage[p] = "undoconfig" => attempt[p] <= 2
  /\ stage[p] = "undoconfig" /\ configPending[p] => faults >= attempt[p]
  /\ stage[p] = "undoefi" /\ configPending[p] => faults >= 3 \/ (attempt[p] = 1 /\ faults >= 2)
  /\ efiPending[p] /\ efiCopy[p] # Absent => faults >= attempt[p] - 1

RolledBack(p) == pc[p] \in Answers \ {"applied"} /\ (crashes = 0 => InStep \/ pc[p] = "rollbackfailed")

Committed(p) == /\ pc[p] \in {"applied", "pruning", "done", "prunefailed", "dead"}
                /\ crashes = 0 => InStep

Broken(p) == pc[p] \in Answers \ {"applied"} /\ (faults >= 3 \/ efiCopy[p] = Absent)

SecureCourse(p) ==
  /\ stage[p] = "closed" => Closed(p)
  /\ stage[p] = "open" => Opened(p)
  /\ stage[p] \in Running \ {"open"} => Changing(p)
  /\ stage[p] \in Undoing => Undone(p) /\ Tried(p)
  /\ stage[p] = "rolledback" => RolledBack(p)
  /\ stage[p] = "committed" => Committed(p)
  /\ stage[p] = "broken" => Broken(p)

(* The others only prune. *)
PruneCourse(p) ==
  /\ stage[p] = "closed"
  /\ pc[p] \in {"start", "pruning", "done", "prunefailed", "dead"}

SecureInv ==
  /\ \A p \in Procs : IF Protected(p) THEN SecureCourse(p) ELSE PruneCourse(p)
  /\ (\A p \in Procs : ~Protected(p)) => InStep /\ durable = {target}

SBInv == TypeOK /\ SBTypeOK /\ LockInv /\ TransactionInv /\ MenuInv /\ SecureInv

-----------------------------------------------------------------------------
(***************************************************************************)
(* Types.  A step is one of ApplyService, or one beside it, which can at   *)
(* most put the previous configuration back and end the command.           *)
(***************************************************************************)
PutsBack(p) ==
  /\ configPending[p] /\ ConfigRecoverable(p)
  /\ target' = PreviousConfig(p)
  /\ durable' \in {{PreviousConfig(p)}, durable \cup {PreviousConfig(p)}}

Aside(p) ==
  /\ UNCHANGED <<backups, births, lock, plan, copy, backup, tmp, doomed, edits>>
  /\ \/ UNCHANGED pc
     \/ /\ pc[p] \in Ended \cup {"applied"}
        /\ \E to \in {"failed", "dead"} : pc' = [pc EXCEPT ![p] = to]
  /\ faults' \in {faults, faults + 1} /\ crashes' \in {crashes, crashes + 1}
  /\ UNCHANGED <<target, durable>> \/ PutsBack(p)

LEMMA AsideSteps ==
  ASSUME TypeOK, NEW p \in Procs,
         \/ ToolFails(p) \/ CommitFails(p) \/ UndoConfig(p) \/ UndoConfigFails(p)
         \/ UndoEfi(p) \/ UndoEfiFails(p) \/ KillUndo(p)
  PROVE  Aside(p)
<1> USE DEF fileVars, bakVars, procVars, counters
<1>1. CASE ToolFails(p) \/ CommitFails(p)
  BY <1>1 DEF ToolFails, CommitFails, SBError, Aside
<1>2. CASE UndoConfig(p) \/ UndoConfigFails(p)
  BY <1>2 DEF UndoConfig, UndoConfigFails, PutBackConfig, SBError, Aside, PutsBack
<1>3. CASE UndoEfi(p) \/ UndoEfiFails(p)
  <2>1. pc' = pc \/ (pc[p] = "applied" /\ pc' = [pc EXCEPT ![p] = "failed"])
    BY <1>3 DEF UndoEfi, UndoEfiFails, AfterUndo
  <2>2. /\ UNCHANGED <<target, durable, backups, births, lock, plan, copy, backup, tmp, doomed, edits, crashes>>
        /\ faults' \in {faults, faults + 1}
    BY <1>3 DEF UndoEfi, UndoEfiFails, SBError
  <2> QED
    BY <2>1, <2>2 DEF Aside
<1>4. CASE KillUndo(p)
  BY <1>4 DEF KillUndo, Aside
<1> QED
  BY <1>1, <1>2, <1>3, <1>4

LEMMA MainSteps ==
  ASSUME TypeOK, NEW p \in Procs, Transaction(p) \/ ApplyFailed(p) \/ OpenFails(p)
  PROVE  [Next]_vars
<1> USE DEF fileVars, bakVars, procVars, counters, vars
<1>1. CASE ApplyServiceStep(p)
  BY <1>1 DEF ApplyServiceStep, Next
<1>2. CASE OpenFails(p)
  <2>1. IOError(p)
    BY <1>2 DEF OpenFails, SBError, IOError, Go
  <2> QED
    BY <2>1 DEF Next, Step
<1>3. CASE ~ApplyServiceStep(p) /\ ~OpenFails(p)
  <2>1. UNCHANGED vars
    BY <1>3 DEF Transaction, OpenTransaction, RecordApply, ComputeDigest, StripSignature,
         EnrollDigest, SignImage, UpdateImage, VerifyImage, Commit, ApplyFailed
  <2> QED
    BY <2>1
<1> QED
  BY <1>1, <1>2, <1>3

LEMMA PreviousType ==
  ASSUME TypeOK, NEW p \in Procs, ConfigRecoverable(p)
  PROVE  PreviousConfig(p) \in Maybe
BY ContentType DEF TypeOK, ConfigRecoverable, PreviousConfig, Maybe

LEMMA AsideType ==
  ASSUME TypeOK, NEW p \in Procs, Aside(p)
  PROVE  TypeOK'
<1>1. target' \in Maybe /\ durable' \subseteq Maybe
  BY PreviousType DEF Aside, PutsBack, TypeOK, Maybe
<1>2. pc' \in [Procs -> Points] /\ \A q \in Procs : pc'[q] # pc[q] => pc'[q] \in Ended
  BY DEF Aside, TypeOK, Points, Ended
<1>3. \A q \in Procs : pc'[q] \in Inside \cup {"planned"} => pc'[q] = pc[q]
  BY <1>2 DEF Inside, Ended
<1>4. faults' \in Nat /\ crashes' \in Nat
  BY DEF Aside, TypeOK
<1> QED
  BY <1>1, <1>2, <1>3, <1>4 DEF Aside, TypeOK, Maybe

(* The images that the tools make. *)
LEMMA ImageTypes ==
  ASSUME NEW i \in Images, NEW d \in Maybe
  PROVE  /\ Stripped(i) \in Images /\ ~Stripped(i).signed /\ Stripped(i).digest = i.digest
         /\ Enrolled(i, d) \in Images /\ Enrolled(i, d).digest = d
         /\ Signed(i) \in Images /\ Signed(i).signed /\ Signed(i).digest = i.digest
BY DEF Images, Stripped, Enrolled, Signed, Maybe

(* What follows a try keeps the types of stage and attempt. *)
LEMMA AfterUndoType ==
  ASSUME SBTypeOK, NEW p \in Procs, NEW still \in BOOLEAN, AfterUndo(p, still)
  PROVE  stage' \in [Procs -> Stages] /\ attempt' \in [Procs -> 0..3]
<1>1. attempt[p] \in {1, 2} => attempt[p] + 1 \in 0..3
  OBVIOUS
<1>2. /\ \E next \in Stages : stage' = [stage EXCEPT ![p] = next]
      /\ \/ attempt' = attempt
         \/ attempt[p] \in {1, 2} /\ attempt' = [attempt EXCEPT ![p] = @ + 1]
  BY DEF AfterUndo, Stages, Undoing
<1> QED
  BY <1>1, <1>2 DEF SBTypeOK

LEMMA SBTypeStep == TypeOK /\ SBTypeOK /\ [SBNext]_allVars => TypeOK' /\ SBTypeOK'
<1> SUFFICES ASSUME TypeOK, SBTypeOK, [SBNext]_allVars PROVE TypeOK' /\ SBTypeOK'
  OBVIOUS
<1> USE DEF sbVars
<1>0. efi \in Images /\ target \in Maybe
  BY DEF SBTypeOK, TypeOK, Maybe
<1>1. ASSUME NEW p \in Procs, Transaction(p) PROVE TypeOK' /\ SBTypeOK'
  <2>1. TypeOK'
    BY <1>1, MainSteps, TypeStep
  <2>2. CASE OpenTransaction(p)
    BY <2>1, <2>2 DEF OpenTransaction, Advance, SBTypeOK, Stages, Running
  <2>3. CASE ApplyServiceStep(p)
    BY <2>1, <2>3 DEF ApplyServiceStep, SBTypeOK, Stages
  <2>4. CASE RecordApply(p) \/ VerifyImage(p) \/ Commit(p)
    BY <2>1, <2>4 DEF RecordApply, VerifyImage, Commit, Advance, SBTypeOK, Stages, Running
  <2>5. CASE ComputeDigest(p)
    BY <1>0, <2>1, <2>5 DEF ComputeDigest, Advance, SBTypeOK, Stages, Running, Maybe
  <2>6. CASE StripSignature(p) \/ EnrollDigest(p) \/ SignImage(p)
    <3>1. digest[p] \in Maybe
      BY DEF SBTypeOK, Maybe
    <3>2. efi' \in Images
      BY <1>0, <2>6, <3>1, ImageTypes DEF StripSignature, EnrollDigest, SignImage, UpdateImage
    <3> QED
      BY <2>1, <2>6, <3>2 DEF StripSignature, EnrollDigest, SignImage, UpdateImage, Advance,
         SBTypeOK, Stages, Running
  <2> QED
    BY <1>1, <2>2, <2>3, <2>4, <2>5, <2>6 DEF Transaction
<1>2. ASSUME NEW p \in Procs, Failure(p) PROVE TypeOK' /\ SBTypeOK'
  <2>1. TypeOK'
    BY <1>2, MainSteps, TypeStep, AsideSteps, AsideType DEF Failure
  <2>2. CASE ApplyFailed(p) \/ OpenFails(p) \/ CommitFails(p)
    BY <2>1, <2>2 DEF ApplyFailed, OpenFails, CommitFails, StartUndo, SBTypeOK, Stages, Undoing
  <2>3. CASE ToolFails(p)
    <3>1. digest[p] \in Maybe
      BY DEF SBTypeOK, Maybe
    <3>2. efi' \in Images
      BY <1>0, <2>3, <3>1, ImageTypes DEF ToolFails
    <3> QED
      BY <2>1, <2>3, <3>2 DEF ToolFails, StartUndo, SBTypeOK, Stages, Undoing
  <2>4. CASE UndoConfig(p) \/ UndoConfigFails(p) \/ KillUndo(p)
    BY <2>1, <2>4 DEF UndoConfig, UndoConfigFails, KillUndo, Advance, SBTypeOK, Stages, Undoing
  <2>5. CASE UndoEfi(p)
    <3>1. /\ efi' \in Images /\ efiCopy' \in [Procs -> Images \cup {Absent}]
          /\ efiPending' \in [Procs -> BOOLEAN]
      BY <1>0, <2>5 DEF UndoEfi, SBTypeOK
    <3>2. stage' \in [Procs -> Stages] /\ attempt' \in [Procs -> 0..3]
      BY <2>5, <3>1, AfterUndoType DEF UndoEfi
    <3> QED
      BY <2>1, <2>5, <3>1, <3>2 DEF UndoEfi, SBTypeOK
  <2>6. CASE UndoEfiFails(p)
    <3>1. efi' \in Images /\ efiCopy' \in [Procs -> Images \cup {Absent}]
      BY <1>0, <2>6 DEF UndoEfiFails, SBTypeOK
    <3>2. stage' \in [Procs -> Stages] /\ attempt' \in [Procs -> 0..3]
      BY <2>6, AfterUndoType DEF UndoEfiFails
    <3> QED
      BY <2>1, <2>6, <3>1, <3>2 DEF UndoEfiFails, SBTypeOK
  <2> QED
    BY <1>2, <2>2, <2>3, <2>4, <2>5, <2>6 DEF Failure
<1>3. CASE SBEnvironment
  <2>1. TypeOK'
    BY <1>3, TypeStep DEF SBEnvironment, Next
  <2> QED
    BY <1>3, <2>1 DEF SBEnvironment, SBTypeOK, Stages
<1>4. CASE UNCHANGED allVars
  <2>1. TypeOK'
    BY <1>4, TypeStep DEF allVars
  <2> QED
    BY <1>4, <2>1 DEF allVars, SBTypeOK
<1> QED
  BY <1>1, <1>2, <1>3, <1>4 DEF SBNext

LEMMA SBTypeInit == SBInit => TypeOK /\ SBTypeOK
<1> SUFFICES ASSUME SBInit PROVE TypeOK /\ SBTypeOK
  OBVIOUS
<1>1. TypeOK
  BY TypeInit DEF SBInit
<1>2. efi \in Images
  BY <1>1 DEF SBInit, Images, TypeOK
<1> QED
  BY <1>1, <1>2 DEF SBInit, SBTypeOK, Stages

(* The transaction and its rollback: types, and never a fourth try. *)
THEOREM SecureTypeCorrect == SBSpec => []SBTypeOK
<1>1. SBInit => TypeOK /\ SBTypeOK
  BY SBTypeInit
<1>2. TypeOK /\ SBTypeOK /\ [SBNext]_allVars => (TypeOK /\ SBTypeOK)'
  BY SBTypeStep
<1> QED
  BY <1>1, <1>2, PTL DEF SBSpec

-----------------------------------------------------------------------------
(***************************************************************************)
(* The one apply.  Whoever is in a transaction is the apply, and the       *)
(* others only prune, so that a rollback, which takes no lock, runs while  *)
(* nobody is inside apply().                                               *)
(***************************************************************************)
LEMMA TheApply ==
  ASSUME OneApply, SecureInv, NEW p \in Procs, stage[p] # "closed" \/ Protected(p)
  PROVE  /\ Protected(p) /\ SecureCourse(p)
         /\ \A q \in Procs \ {p} : ~Protected(q) /\ PruneCourse(q)
BY DEF OneApply, SecureInv, PruneCourse

LEMMA OthersPrune ==
  ASSUME NEW q \in Procs, PruneCourse(q)
  PROVE  pc[q] \notin Inside \cup {"planned", "selected", "applied"}
BY DEF PruneCourse, Inside

(* What an invocation relies on is ready. *)
LEMMA ReliesOnReady ==
  ASSUME NEW p \in Procs, Course(p), pc[p] \in {"applied", "rollbackfailed"} => Ready(p), Relies(p)
  PROVE  Ready(p) \/ plan[p].kind = "create"
<1>1. CASE pc[p] \in Late
  BY <1>1 DEF Course, Late, Ready
<1>2. CASE pc[p] = "failing" /\ backup[p] # NoName
  BY <1>2 DEF Course
<1> QED
  BY <1>1, <1>2 DEF Relies

(* The steps beside ApplyService. *)
Besides(p) == \/ ToolFails(p) \/ CommitFails(p) \/ UndoConfig(p) \/ UndoConfigFails(p)
              \/ UndoEfi(p) \/ UndoEfiFails(p) \/ KillUndo(p)

LEMMA BesidesAlone ==
  ASSUME OneApply, SecureInv, NEW p \in Procs, Besides(p)
  PROVE  /\ Protected(p) /\ SecureCourse(p) /\ \A q \in Procs : pc[q] \notin Inside
         /\ configPending[p] => Ready(p)
<1>1. stage[p] # "closed" /\ (stage[p] \in Running \ {"open"} \/ stage[p] \in Undoing \/ KillUndo(p))
  BY DEF Besides, ToolFails, CommitFails, UndoConfig, UndoConfigFails, UndoEfi, UndoEfiFails,
     KillUndo, Advance, Running, Undoing
<1>2. Protected(p) /\ SecureCourse(p)
  BY <1>1, TheApply
<1>3. \A q \in Procs \ {p} : pc[q] \notin Inside
  BY <1>1, TheApply, OthersPrune
<1>4. pc[p] \notin Inside /\ (configPending[p] => Ready(p))
  <2>1. CASE stage[p] = "open" /\ KillUndo(p)
    BY <1>2, <2>1 DEF SecureCourse, Opened, KillUndo, Inside, Ended
  <2>2. CASE stage[p] \in Running \ {"open"}
    BY <1>2, <2>2 DEF SecureCourse, Changing, Consequent, Inside
  <2>3. CASE stage[p] \in Undoing
    BY <1>2, <2>3 DEF SecureCourse, Undone, Consequent, Inside, Answers
  <2> QED
    BY <1>1, <2>1, <2>2, <2>3 DEF KillUndo
<1> QED
  BY <1>2, <1>3, <1>4

LEMMA AsideFrame ==
  ASSUME TypeOK, TypeOK', TransactionInv, LockInv, MenuInv, NEW p \in Procs, Aside(p),
         \A q \in Procs : pc[q] \notin Inside, configPending[p] => Ready(p)
  PROVE  TransactionInv' /\ LockInv' /\ MenuInv'
<1>1. \A q \in Procs : pc'[q] = pc[q] \/ pc'[q] \in {"failed", "dead"}
  BY DEF Aside, TypeOK
<1>2. \A q \in Procs : pc'[q] \in Inside \cup {"selected", "planned"} => pc'[q] = pc[q]
  BY <1>1 DEF Inside
<1>3. UNCHANGED <<backups, births, lock, plan, copy, backup, doomed>> /\ faults' >= faults
  BY DEF Aside, TypeOK
<1>4. LockInv' /\ MenuInv'
  BY <1>2, <1>3 DEF LockInv, MenuInv
<1>5. BirthInv' /\ DoomedInv' /\ PlanInv'
  BY <1>2, <1>3 DEF TransactionInv, BirthInv, DoomedInv, PlanInv
<1>6. UnsyncedInv'
  <2>1. CASE UNCHANGED target
    BY <1>3, <2>1 DEF TransactionInv, UnsyncedInv, Existing
  <2>2. CASE PutsBack(p)
    <3>1. AllSynced
      BY <2>2 DEF PutsBack, Ready, Kept, Creating
    <3> QED
      BY <1>3, <3>1 DEF AllSynced, UnsyncedInv, Existing
  <2> QED
    BY <2>1, <2>2 DEF Aside
<1>7. ASSUME NEW q \in Procs PROVE Course(q)'
  <2>1. CASE pc'[q] = pc[q]
    BY <1>3, <2>1, Idle DEF TransactionInv, CourseInv
  <2>2. CASE pc'[q] \in {"failed", "dead"}
    BY <2>2, Left DEF Points, Inside, Before, Ended
  <2> QED
    BY <1>1, <2>1, <2>2
<1> QED
  BY <1>4, <1>5, <1>6, <1>7 DEF TransactionInv, CourseInv

(* Every step keeps what is known of ApplyService. *)
LEMMA ApplyKept ==
  ASSUME OneApply, OneLock, NoEdits, FineClock, NoRestore, SBInv, [SBNext]_allVars
  PROVE  TypeOK' /\ SBTypeOK' /\ LockInv' /\ TransactionInv' /\ MenuInv'
<1> USE DEF SBInv
<1>1. TypeOK' /\ SBTypeOK'
  BY SBTypeStep
<1>2. CASE [Next]_vars
  BY <1>1, <1>2, TransactionStep, LockStep, MenuStep
<1>3. ASSUME NEW p \in Procs, Besides(p) PROVE LockInv' /\ TransactionInv' /\ MenuInv'
  <2>1. Aside(p)
    BY <1>3, AsideSteps DEF Besides
  <2> QED
    BY <1>1, <1>3, <2>1, BesidesAlone, AsideFrame
<1>4. ASSUME NEW p \in Procs, Transaction(p) \/ Failure(p)
      PROVE  [Next]_vars \/ Besides(p)
  BY <1>4, MainSteps DEF Failure, Besides
<1>5. CASE SBEnvironment \/ UNCHANGED allVars
  <2>1. [Next]_vars
    BY <1>5 DEF SBEnvironment, allVars, Next
  <2> QED
    BY <1>2, <2>1, <1>1
<1> QED
  BY <1>1, <1>2, <1>3, <1>4, <1>5 DEF SBNext

-----------------------------------------------------------------------------
(***************************************************************************)
(* ApplyService's own steps inside the transaction.  What Prior stands for *)
(* does not move, and the answer tells what is in place.                   *)
(***************************************************************************)
Keeps(p) ==
  /\ Prior(p)' = Prior(p)
  /\ pc'[p] \in Inside \cup Answers
  /\ pc'[p] = "failed" => target' = Prior(p)' \/ (plan[p].kind = "create" /\ faults' >= 2)
  /\ pc'[p] \in {"applied", "rollbackfailed"} => Ready(p)'
  /\ pc'[p] = "applied" => target' = New(p)'

(* A file that was to be created was not there. *)
LEMMA CreateOld ==
  ASSUME NEW p \in Procs, plan[p].kind = "create"
  PROVE  Old(p) = Absent /\ (plan'[p] = plan[p] => Old(p)' = Absent)
BY DEF Old

(* Before there is a copy to restore, the previous file is in place. *)
LEMMA EarlyKeeps ==
  ASSUME TypeOK, NEW p \in Procs, Course(p), Course(p)', Apply(p) \/ IOError(p),
         pc[p] \in Early \cup {"planned"}
  PROVE  Keeps(p)
<1> USE DEF Go, fileVars, bakVars, procVars, counters
<1>1. ~Relies(p) /\ Prior(p) = target /\ backup[p] = NoName
  BY DEF Early, Relies, Late, Prior, Course, Fresh, Copying, Before
<1>2. /\ UNCHANGED <<target, plan>>
      /\ pc'[p] \in Early \cup {"busy", "refused", "saved", "failing"}
  BY DEF Early, Apply, TakeLock, Inspect, Compare, CreateBackup, WriteBackup, SyncBackup, SyncDirectory,
     SkipBackup, WriteTemporary, SyncTemporary, Rename, SyncRename, Verify, RestoreBackup,
     NothingToRestore, RemoveCreated, SyncRestored, IOError, TypeOK
<1>3. CASE pc'[p] \in Early \cup {"busy", "refused"}
  <2>1. ~Relies(p)' /\ Prior(p)' = target'
    BY <1>3 DEF Early, Relies, Late, Prior
  <2> QED
    BY <1>1, <1>2, <1>3, <2>1 DEF Keeps, Early, Inside, Answers
<1>4. CASE pc'[p] = "saved"
  <2>1. Prior(p)' = Old(p)' /\ target' = Old(p)'
    BY <1>4 DEF Relies, Late, Prior, Course
  <2> QED
    BY <1>1, <1>2, <1>4, <2>1 DEF Keeps, Inside, Answers
<1>5. CASE pc'[p] = "failing"
  <2>1. backup'[p] = NoName
    BY <1>1, <1>5 DEF Early, Apply, TakeLock, Inspect, Compare, CreateBackup, WriteBackup, SyncBackup,
       SkipBackup, WriteTemporary, SyncTemporary, Rename, SyncRename, Verify, RestoreBackup,
       NothingToRestore, RemoveCreated, SyncRestored, IOError, TypeOK
  <2>2. CASE plan[p].kind = "create"
    <3>1. pc[p] = "checked"
      BY <1>5, <2>2 DEF Early, Apply, TakeLock, Inspect, Compare, CreateBackup, WriteBackup, SyncBackup,
         SkipBackup, WriteTemporary, SyncTemporary, Rename, SyncRename, Verify, RestoreBackup,
         NothingToRestore, RemoveCreated, SyncRestored, IOError, TypeOK, Course, Copying, Reserved, Undoable
    <3>2. target = Absent
      BY <2>2, <3>1 DEF Course, Untouched, Agrees
    <3>3. Prior(p)' = Old(p)' /\ Old(p)' = Absent
      BY <1>2, <1>5, <2>2, CreateOld DEF Relies, Prior
    <3> QED
      BY <1>1, <1>2, <1>5, <3>2, <3>3 DEF Keeps, Inside, Answers
  <2>3. CASE plan[p].kind # "create"
    <3>1. ~Relies(p)' /\ Prior(p)' = target'
      BY <1>2, <1>5, <2>1, <2>3 DEF Relies, Late, Prior
    <3> QED
      BY <1>1, <1>2, <1>5, <3>1 DEF Keeps, Inside, Answers
  <2> QED
    BY <2>2, <2>3
<1> QED
  BY <1>2, <1>3, <1>4, <1>5

(* From then on the copy is, and it stays. *)
LEMMA LateKeeps ==
  ASSUME TypeOK, NEW p \in Procs, Course(p), Course(p)', Apply(p) \/ IOError(p), pc[p] \in Late
  PROVE  Keeps(p)
<1> USE DEF Go, fileVars, bakVars, procVars, counters
<1>1. Ready(p) /\ Prior(p) = Old(p)
  BY DEF Course, Late, Relies, Prior, Ready
<1>2. /\ UNCHANGED <<plan, copy, backup, doomed, births>> /\ faults' \in {faults, faults + 1}
      /\ SyncDirectory \/ UNCHANGED backups
      /\ pc'[p] \in Late \cup {"applied", "failing", "failed", "rollbackfailed"}
  BY DEF Late, Apply, TakeLock, Inspect, Compare, CreateBackup, WriteBackup, SyncBackup, SyncDirectory,
     SkipBackup, WriteTemporary, SyncTemporary, Rename, SyncRename, Verify, RestoreBackup,
     NothingToRestore, RemoveCreated, SyncRestored, IOError, TypeOK
<1>3. Ready(p)' /\ Old(p)' = Old(p)
  BY <1>1, <1>2, Still, SyncStill
<1>4. CASE pc'[p] \in Late
  <2>1. Prior(p)' = Old(p)'
    BY <1>4 DEF Relies, Prior
  <2> QED
    BY <1>1, <1>3, <1>4, <2>1 DEF Keeps, Late, Inside
<1>5. CASE pc'[p] \in {"applied", "rollbackfailed"}
  <2>1. Prior(p)' = Old(p)'
    BY <1>5 DEF Relies, Prior
  <2>2. pc'[p] = "applied" => target' = New(p)'
    BY <1>2 DEF Late, Apply, TakeLock, Inspect, Compare, CreateBackup, WriteBackup, SyncBackup,
       SkipBackup, WriteTemporary, SyncTemporary, Rename, SyncRename, Verify, RestoreBackup,
       NothingToRestore, RemoveCreated, SyncRestored, IOError, TypeOK, New
  <2> QED
    BY <1>1, <1>3, <1>5, <2>1, <2>2 DEF Keeps, Answers
<1>6. CASE pc'[p] = "failing"
  <2>1. plan'[p].kind = "create" \/ backup'[p] # NoName
    BY <1>3, ApplyAssumption DEF Ready, Kept, Creating, Reserved, Existing
  <2>2. Prior(p)' = Old(p)'
    BY <1>6, <2>1 DEF Relies, Prior
  <2> QED
    BY <1>1, <1>3, <1>6, <2>2 DEF Keeps, Inside
<1>7. CASE pc'[p] = "failed"
  <2>1. target' = target /\ pc[p] \in {"restored", "removed"}
    BY <1>7 DEF Late, Apply, TakeLock, Inspect, Compare, CreateBackup, WriteBackup, SyncBackup,
       SkipBackup, WriteTemporary, SyncTemporary, Rename, SyncRename, Verify, RestoreBackup,
       NothingToRestore, RemoveCreated, SyncRestored, SyncDirectory, IOError, TypeOK
  <2>2. CASE pc[p] = "restored"
    <3>1. plan'[p].kind # "create" /\ target = Old(p)
      BY <1>2, <2>2 DEF Course, Kept, Reserved
    <3>2. Prior(p)' = target'
      BY <1>7, <3>1 DEF Relies, Prior, Late
    <3> QED
      BY <1>1, <1>7, <2>1, <3>1, <3>2 DEF Keeps, Answers
  <2>3. CASE pc[p] = "removed"
    <3>1. plan[p].kind = "create" /\ (target = Absent \/ faults >= 2)
      BY <2>3 DEF Course, Creating
    <3>2. Prior(p)' = Old(p)' /\ Old(p)' = Absent
      BY <1>2, <1>7, <3>1, CreateOld DEF Relies, Prior
    <3>3. faults >= 2 => faults' >= 2
      <4>1. faults \in Nat
        BY DEF TypeOK
      <4> QED
        BY <1>2, <4>1
    <3>4. Prior(p)' = Prior(p)
      BY <1>1, <1>3, <3>2
    <3>5. target' = Prior(p)' \/ (plan[p].kind = "create" /\ faults' >= 2)
      BY <2>1, <3>1, <3>2, <3>3
    <3> QED
      BY <1>7, <3>4, <3>5 DEF Keeps, Answers
  <2> QED
    BY <2>1, <2>2, <2>3
<1> QED
  BY <1>2, <1>4, <1>5, <1>6, <1>7

(* So it does on the way back. *)
LEMMA FailingKeeps ==
  ASSUME TypeOK, NEW p \in Procs, Course(p), Course(p)', Apply(p) \/ IOError(p), pc[p] = "failing",
         plan[p].kind \in {"create", "update"}
  PROVE  Keeps(p)
<1> USE DEF Go, fileVars, bakVars, procVars, counters
<1>1. UNCHANGED <<backups, births, plan, copy, backup, doomed>>
  BY DEF Apply, TakeLock, Inspect, Compare, CreateBackup, WriteBackup, SyncBackup, SyncDirectory,
     SkipBackup, WriteTemporary, SyncTemporary, Rename, SyncRename, Verify, RestoreBackup,
     NothingToRestore, RemoveCreated, SyncRestored, IOError, TypeOK
<1>2. Ready(p)' = Ready(p) /\ Old(p)' = Old(p)
  BY <1>1, Still
<1>3. CASE plan[p].kind = "create"
  <2>1. pc'[p] = "removed"
    BY <1>3 DEF Apply, TakeLock, Inspect, Compare, CreateBackup, WriteBackup, SyncBackup,
       SkipBackup, WriteTemporary, SyncTemporary, Rename, SyncRename, Verify, RestoreBackup,
       NothingToRestore, RemoveCreated, SyncRestored, IOError, TypeOK, Undoable
  <2>2. Prior(p) = Old(p) /\ Prior(p)' = Old(p)'
    BY <1>1, <1>3, <2>1 DEF Relies, Prior, Late
  <2> QED
    BY <1>2, <2>1, <2>2 DEF Keeps, Inside
<1>4. CASE plan[p].kind = "update" /\ backup[p] # NoName
  <2>1. Kept(p) /\ backup[p] \in Existing
    BY <1>4 DEF Course, Ready, Creating, Kept, Reserved
  <2>2. pc'[p] \in {"restored", "rollbackfailed"}
    BY <1>4, <2>1 DEF Apply, TakeLock, Inspect, Compare, CreateBackup, WriteBackup, SyncBackup,
       SkipBackup, WriteTemporary, SyncTemporary, Rename, SyncRename, Verify, RestoreBackup,
       NothingToRestore, RemoveCreated, SyncRestored, IOError, TypeOK, Undoable
  <2>3. Prior(p) = Old(p) /\ Prior(p)' = Old(p)'
    BY <1>4, <2>2 DEF Relies, Prior, Late
  <2>4. Ready(p)'
    BY <1>2, <2>1 DEF Ready
  <2> QED
    BY <1>2, <2>2, <2>3, <2>4 DEF Keeps, Inside, Answers
<1>5. CASE plan[p].kind = "update" /\ backup[p] = NoName
  <2>1. pc'[p] = "failed" /\ target' = target
    BY <1>5 DEF Apply, TakeLock, Inspect, Compare, CreateBackup, WriteBackup, SyncBackup,
       SkipBackup, WriteTemporary, SyncTemporary, Rename, SyncRename, Verify, RestoreBackup,
       NothingToRestore, RemoveCreated, SyncRestored, IOError, TypeOK, Undoable
  <2>2. Prior(p) = target /\ Prior(p)' = target'
    BY <1>1, <1>5, <2>1 DEF Relies, Prior, Late
  <2> QED
    BY <2>1, <2>2 DEF Keeps, Answers
<1> QED
  BY <1>3, <1>4, <1>5

-----------------------------------------------------------------------------
(* The stages of the transaction, after a step.                            *)
LEMMA AtStage ==
  ASSUME NEW p \in Procs
  PROVE  /\ stage'[p] = "closed" /\ Closed(p)' => SecureCourse(p)'
         /\ stage'[p] = "open" /\ Opened(p)' => SecureCourse(p)'
         /\ stage'[p] \in Running \ {"open"} /\ Changing(p)' => SecureCourse(p)'
         /\ stage'[p] \in Undoing /\ Undone(p)' /\ Tried(p)' => SecureCourse(p)'
         /\ stage'[p] = "rolledback" /\ RolledBack(p)' => SecureCourse(p)'
         /\ stage'[p] = "committed" /\ Committed(p)' => SecureCourse(p)'
         /\ stage'[p] = "broken" /\ Broken(p)' => SecureCourse(p)'
         /\ stage'[p] = "dead" => SecureCourse(p)'
BY DEF SecureCourse, Running, Undoing

(* Whoever has ended takes no step of ApplyService. *)
LEMMA EndedStops ==
  ASSUME NEW p \in Procs, Step(p)
  PROVE  pc[p] \notin Ended
BY DEF Ended, Step, Command, SelectBackup, RenderMenu, BuildPlan, Apply, TakeLock, Inspect, Compare,
   CreateBackup, WriteBackup, SyncBackup, SkipBackup, WriteTemporary, SyncTemporary, Rename, SyncRename,
   Verify, RestoreBackup, NothingToRestore, RemoveCreated, SyncRestored, Prune, ListSurplus,
   RemoveSurplus, PruneDone, IOError, Undoable, Kill, Go

(***************************************************************************)
(* ApplyService's steps, before the transaction is opened, while it is     *)
(* open, and when it is committed.                                         *)
(***************************************************************************)
LEMMA ClosedSteps ==
  ASSUME NoRestore, TypeOK, NEW p \in Procs, Protected(p), stage[p] = "closed", Closed(p),
         ApplyServiceStep(p)
  PROVE  SecureCourse(p)'
<1> USE DEF Go, fileVars, bakVars, procVars, counters
<1>1. pc[p] \in {"start", "selected"} /\ Step(p)
  BY EndedStops DEF Closed, ApplyServiceStep, Ended, Before
<1>2. RenderMenu(p) \/ BuildPlan(p) \/ Kill(p)
  BY <1>1 DEF Protected, Step, Command, SelectBackup, Apply, TakeLock, Inspect, Compare,
     CreateBackup, WriteBackup, SyncBackup, SkipBackup, WriteTemporary, SyncTemporary, Rename, SyncRename,
     Verify, RestoreBackup, NothingToRestore, RemoveCreated, SyncRestored, Prune, ListSurplus,
     RemoveSurplus, PruneDone, IOError, Undoable
<1>3. /\ UNCHANGED <<target, durable, efi, efiCopy, configPending, efiPending>>
      /\ stage'[p] = "closed" /\ pc'[p] \in {"selected", "unchanged", "planned", "dead"}
  BY <1>2 DEF ApplyServiceStep, RenderMenu, BuildPlan, Kill, Running, TypeOK
<1>4. pc'[p] = "planned" => Normalize(target') = plan'[p].installed
  <2>1. ASSUME BuildPlan(p) PROVE plan'[p].installed = Normalize(target)
    BY <2>1 DEF BuildPlan, TypeOK, Plans
  <2>2. pc'[p] = "planned" => BuildPlan(p)
    BY <1>2 DEF RenderMenu, Kill, TypeOK
  <2> QED
    BY <1>3, <2>1, <2>2 DEF Normalize
<1>5. Closed(p)'
  BY <1>3, <1>4 DEF Closed, InStep, Before
<1> QED
  BY <1>3, <1>5, AtStage

LEMMA OpenSteps ==
  ASSUME TypeOK, NEW p \in Procs, Protected(p), stage[p] = "open", Opened(p),
         stage \in [Procs -> Stages], Course(p), Course(p)', ApplyServiceStep(p)
  PROVE  SecureCourse(p)'
<1> USE DEF Go, fileVars, bakVars, procVars, counters
<1>1. pc[p] \in Inside \cup {"planned"} /\ Step(p)
  BY EndedStops DEF Opened, ApplyServiceStep, Ended, Answers
<1>2. Apply(p) \/ IOError(p) \/ Kill(p)
  BY <1>1 DEF Inside, Step, Command, SelectBackup, RenderMenu, BuildPlan, Prune, ListSurplus, RemoveSurplus,
     PruneDone, Protected
<1>3. CASE Kill(p)
  <2>1. stage'[p] = "dead"
    BY <1>3 DEF ApplyServiceStep, Kill, Running, TypeOK
  <2> QED
    BY <2>1, AtStage
<1>4. CASE Apply(p) \/ IOError(p)
  <2>1. Keeps(p)
    BY <1>1, <1>4, EarlyKeeps, LateKeeps, FailingKeeps DEF Inside, Early, Late, TypeOK
  <2>2. stage'[p] = "open"
    BY <2>1 DEF Keeps, ApplyServiceStep, Inside, Answers
  <2>3. UNCHANGED <<plan, efi, efiCopy, configPending, efiPending>>
    BY <1>4 DEF ApplyServiceStep, Apply, TakeLock, Inspect, Compare, CreateBackup, WriteBackup,
       SyncBackup, SkipBackup, WriteTemporary, SyncTemporary, Rename, SyncRename, Verify, RestoreBackup,
       NothingToRestore, RemoveCreated, SyncRestored, IOError
  <2>4. Consequent(p)'
    BY <2>1, <2>3 DEF Keeps, Opened, Consequent, Normalize
  <2>5. Opened(p)'
    BY <2>1, <2>3, <2>4 DEF Keeps, Opened, AcceptsPrior
  <2> QED
    BY <2>2, <2>5, AtStage
<1> QED
  BY <1>2, <1>3, <1>4

LEMMA CommittedSteps ==
  ASSUME TypeOK, NEW p \in Procs, stage[p] = "committed", Committed(p), ApplyServiceStep(p)
  PROVE  SecureCourse(p)'
<1>1. pc[p] \in {"applied", "pruning"} /\ Step(p)
  BY EndedStops DEF Committed, ApplyServiceStep, Ended
<1>2. ListSurplus(p) \/ RemoveSurplus(p) \/ PruneDone(p) \/ IOError(p) \/ Kill(p)
  BY <1>1 DEF Step, Prune, Command, SelectBackup, RenderMenu, BuildPlan, Apply, TakeLock, Inspect, Compare,
     CreateBackup, WriteBackup, SyncBackup, SkipBackup, WriteTemporary, SyncTemporary, Rename, SyncRename,
     Verify, RestoreBackup, NothingToRestore, RemoveCreated, SyncRestored, Go
<1>3. /\ UNCHANGED <<target, efi>> /\ stage'[p] = "committed"
      /\ pc'[p] \in {"pruning", "done", "prunefailed", "dead"}
      /\ crashes \in Nat /\ crashes' \in {crashes, crashes + 1}
  BY <1>1, <1>2 DEF ApplyServiceStep, ListSurplus, RemoveSurplus, PruneDone, IOError, Undoable, Kill,
     Running, TypeOK, Go, fileVars, bakVars, procVars, counters
<1>4. Committed(p)'
  BY <1>3 DEF Committed, InStep
<1> QED
  BY <1>3, <1>4, AtStage

-----------------------------------------------------------------------------
(* What Prior stands for only depends on ApplyService's own state. *)
LEMMA SamePrior ==
  ASSUME NEW p \in Procs, UNCHANGED <<target, backups, births, plan, copy, backup, doomed>>,
         pc'[p] = pc[p], faults' = faults \/ (faults \in Nat /\ faults' = faults + 1), Consequent(p)
  PROVE  /\ Prior(p)' = Prior(p) /\ New(p)' = New(p) /\ Ready(p)' = Ready(p)
         /\ Consequent(p)'
<1>1. Ready(p)' = Ready(p) /\ Old(p)' = Old(p) /\ New(p)' = New(p)
  BY Still
<1>2. Prior(p)' = Prior(p)
  BY <1>1 DEF Prior, Relies
<1>3. faults >= 2 => faults' >= 2
  OBVIOUS
<1> QED
  BY <1>1, <1>2, <1>3 DEF Consequent, Normalize

(***************************************************************************)
(* The transaction's steps: at each one the executable that is kept aside  *)
(* accepts the previous configuration, until the one in place accepts the  *)
(* new configuration.                                                      *)
(***************************************************************************)
LEMMA OpeningSteps ==
  ASSUME TypeOK, SBTypeOK, MenuInv, NEW p \in Procs, stage[p] = "closed", Closed(p), OpenTransaction(p)
  PROVE  SecureCourse(p)'
<1>1. stage'[p] = "open" /\ efiCopy'[p] = efi /\ efiPending'[p] /\ UNCHANGED <<vars, efi, configPending>>
  BY DEF OpenTransaction, Advance, SBTypeOK
<1>2. Prior(p) = target /\ pc[p] = "planned"
  BY DEF OpenTransaction, Prior, Relies, Late
<1>3. efi # Absent /\ plan[p].generated # Absent
  <2>1. Whole \subseteq Files
    BY DEF Whole, Files
  <2> QED
    BY <1>2, <2>1, NoImageAssumption, NoFileAssumption DEF SBTypeOK, MenuInv
<1>4. AcceptsPrior(p, efi) /\ Consequent(p)
  BY <1>2, <1>3 DEF Closed, InStep, AcceptsPrior, Consequent
<1>5. UNCHANGED <<target, backups, births, plan, copy, backup, doomed, pc, faults>>
  BY <1>1 DEF vars, fileVars, bakVars, procVars, counters
<1>6. Prior(p)' = Prior(p) /\ Consequent(p)'
  BY <1>4, <1>5, SamePrior
<1>7. Opened(p)'
  BY <1>1, <1>2, <1>4, <1>5, <1>6 DEF Opened, Closed, AcceptsPrior
<1> QED
  BY <1>1, <1>7, AtStage

LEMMA ChangingSteps ==
  ASSUME TypeOK, SBTypeOK, NEW p \in Procs, SecureCourse(p),
         \/ RecordApply(p) \/ ComputeDigest(p) \/ StripSignature(p) \/ EnrollDigest(p)
         \/ SignImage(p) \/ VerifyImage(p) \/ Commit(p)
  PROVE  SecureCourse(p)'
<1> USE DEF Advance, UpdateImage
<1>1. UNCHANGED <<target, backups, births, plan, copy, backup, doomed, pc, faults>>
  BY DEF RecordApply, ComputeDigest, StripSignature, EnrollDigest, SignImage, VerifyImage, Commit,
     vars, fileVars, bakVars, procVars, counters
<1>2. efi \in Images /\ digest[p] \in Maybe /\ target \in Maybe
  BY DEF TypeOK, SBTypeOK, Maybe
<1>3. CASE RecordApply(p)
  <2>1. Opened(p) /\ stage'[p] = "recorded"
    BY <1>3 DEF RecordApply, SecureCourse, SBTypeOK
  <2>2. Prior(p)' = Prior(p) /\ New(p)' = New(p) /\ Consequent(p)'
    BY <1>1, <2>1, SamePrior DEF Opened
  <2>3. Changing(p)'
    BY <1>1, <1>3, <2>1, <2>2 DEF RecordApply, Opened, Changing, AcceptsPrior, SBTypeOK
  <2> QED
    BY <2>1, <2>3, AtStage DEF Running
<1>4. CASE ~RecordApply(p)
  <2>1. Changing(p)
    BY <1>4 DEF ComputeDigest, StripSignature, EnrollDigest, SignImage, VerifyImage, Commit,
       SecureCourse, Running
  <2>2. Prior(p)' = Prior(p) /\ New(p)' = New(p) /\ Consequent(p)'
    BY <1>1, <2>1, SamePrior DEF Changing
  <2>3. CASE ~Commit(p)
    <3>1. /\ UNCHANGED <<efiCopy, configPending, efiPending>>
          /\ stage'[p] \in Running \ {"open", "recorded"}
      BY <1>4, <2>3 DEF ComputeDigest, StripSignature, EnrollDigest, SignImage, VerifyImage,
         Running, SBTypeOK
    <3>2. /\ digest'[p] = target'
          /\ stage'[p] \in {"enrolled", "signed", "verified"} => efi'.digest = target'
          /\ stage'[p] \in {"signed", "verified"} => efi'.signed
      BY <1>1, <1>2, <1>4, <2>1, <2>3, ImageTypes DEF ComputeDigest, StripSignature, EnrollDigest,
         SignImage, VerifyImage, Running, SBTypeOK, Changing
    <3>3. Changing(p)'
      BY <1>1, <2>1, <2>2, <3>1, <3>2 DEF Changing, AcceptsPrior
    <3> QED
      BY <3>1, <3>3, AtStage
  <2>4. CASE Commit(p)
    <3>1. stage'[p] = "committed" /\ efi' = efi
      BY <2>4 DEF Commit, SBTypeOK
    <3>2. Committed(p)'
      BY <1>1, <2>1, <2>4, <3>1 DEF Commit, Changing, Committed, InStep
    <3> QED
      BY <3>1, <3>2, AtStage
  <2> QED
    BY <2>3, <2>4
<1> QED
  BY <1>3, <1>4

-----------------------------------------------------------------------------
(***************************************************************************)
(* A failure.  Each part that is pending is undone, and its failures are   *)
(* counted.                                                                *)
(***************************************************************************)
LEMMA FailingSteps ==
  ASSUME TypeOK, SBTypeOK, NEW p \in Procs, SecureCourse(p),
         ApplyFailed(p) \/ ToolFails(p) \/ CommitFails(p)
  PROVE  SecureCourse(p)'
<1> USE DEF StartUndo, SBError
<1>1. /\ UNCHANGED <<target, backups, births, plan, copy, backup, doomed, pc, configPending, efiPending>>
      /\ faults' = faults \/ (faults \in Nat /\ faults' = faults + 1)
      /\ stage'[p] = "undoconfig" /\ attempt'[p] = 1
  BY DEF ApplyFailed, ToolFails, CommitFails, vars, fileVars, bakVars, procVars, counters, TypeOK, SBTypeOK
<1>2. CASE ApplyFailed(p)
  <2>1. stage[p] = "open" /\ pc[p] \in {"busy", "refused", "failed", "rollbackfailed"} /\ Opened(p)
    BY <1>2 DEF ApplyFailed, SecureCourse, Changing, Consequent, New, Running
  <2>2. Prior(p)' = Prior(p) /\ Consequent(p)'
    BY <1>1, <2>1, SamePrior DEF Opened
  <2>3. UNCHANGED <<efi, efiCopy>> /\ faults' \in Nat
    BY <1>2 DEF ApplyFailed, TypeOK, vars, counters
  <2>4. ~configPending'[p] /\ efiPending'[p] /\ AcceptsPrior(p, efiCopy[p])'
    BY <1>1, <2>1, <2>2, <2>3 DEF Opened, AcceptsPrior
  <2>5. Undone(p)' /\ Tried(p)'
    BY <1>1, <2>1, <2>2, <2>3, <2>4 DEF Undone, Tried, Answers
  <2> QED
    BY <1>1, <2>5, AtStage DEF Undoing
<1>3. CASE ToolFails(p) \/ CommitFails(p)
  <2>1. Changing(p)
    BY <1>3 DEF ToolFails, CommitFails, SecureCourse, Running
  <2>2. Prior(p)' = Prior(p) /\ Consequent(p)'
    BY <1>1, <2>1, SamePrior DEF Changing
  <2>3. faults' >= 1 /\ (efiCopy'[p] = efiCopy[p] \/ efiCopy'[p] = Absent)
    BY <1>3 DEF ToolFails, CommitFails, TypeOK, SBTypeOK
  <2>4. /\ pc'[p] = "applied" /\ configPending'[p] /\ efiPending'[p]
        /\ efiCopy'[p] = Absent \/ AcceptsPrior(p, efiCopy[p])'
    BY <1>1, <2>1, <2>2, <2>3 DEF Changing, AcceptsPrior
  <2>5. faults' \in Nat
    BY <1>3 DEF ToolFails, CommitFails, TypeOK
  <2>6. Undone(p)'
    BY <1>1, <2>2, <2>4 DEF Undone, Answers
  <2>7. Tried(p)'
    BY <1>1, <2>3, <2>5 DEF Tried
  <2> QED
    BY <1>1, <2>6, <2>7, AtStage DEF Undoing
<1> QED
  BY <1>2, <1>3

(* rollback_config: what comes back is what the transaction replaced. *)
LEMMA UndoConfigSteps ==
  ASSUME TypeOK, SBTypeOK, NEW p \in Procs, SecureCourse(p), UndoConfig(p) \/ UndoConfigFails(p)
  PROVE  SecureCourse(p)'
<1> USE DEF Advance, SBError
<1>1. /\ UNCHANGED <<backups, births, plan, copy, backup, doomed, pc, efi, efiCopy, attempt, efiPending>>
      /\ stage[p] = "undoconfig" /\ stage'[p] = "undoefi"
      /\ faults \in Nat /\ faults' \in {faults, faults + 1}
  BY DEF UndoConfig, UndoConfigFails, bakVars, procVars, counters, TypeOK, SBTypeOK
<1>2. Undone(p) /\ Tried(p)
  BY <1>1 DEF SecureCourse, Undoing
<1>3. Ready(p)' = Ready(p) /\ Old(p)' = Old(p)
  BY <1>1, Still
<1>4. configPending[p] =>
        /\ pc[p] = "applied" /\ ConfigRecoverable(p) /\ PreviousConfig(p) = Old(p)
        /\ Prior(p) = Old(p) /\ Prior(p)' = Old(p)
  <2>1. SUFFICES ASSUME configPending[p]
                 PROVE  /\ pc[p] = "applied" /\ ConfigRecoverable(p) /\ PreviousConfig(p) = Old(p)
                        /\ Prior(p) = Old(p) /\ Prior(p)' = Old(p)
    OBVIOUS
  <2>2. pc[p] = "applied" /\ Ready(p)
    BY <1>2, <2>1 DEF Undone, Consequent
  <2>3. Prior(p) = Old(p) /\ Prior(p)' = Old(p)
    BY <1>1, <1>3, <2>2 DEF Prior, Relies
  <2>4. CASE Creating(p)
    BY <2>2, <2>3, <2>4 DEF Creating, ConfigRecoverable, PreviousConfig, Old
  <2>5. CASE Kept(p)
    BY <2>2, <2>3, <2>5 DEF Kept, Reserved, ConfigRecoverable, PreviousConfig, ContentOf, Old
  <2> QED
    BY <2>2, <2>4, <2>5 DEF Ready
<1>5. CASE target' = target
  <2>1. Prior(p)' = Prior(p) /\ Consequent(p)'
    BY <1>1, <1>2, <1>5, SamePrior DEF Undone
  <2>2. configPending'[p] \/ ~configPending[p] \/ target = Prior(p)
    BY <1>1, <1>4, <1>5 DEF UndoConfig, UndoConfigFails, SBTypeOK
  <2>3. configPending'[p] => configPending[p] /\ faults' = faults + 1
    BY <1>4 DEF UndoConfig, UndoConfigFails, SBTypeOK
  <2>4. Undone(p)'
    BY <1>1, <1>2, <1>5, <2>1, <2>2, <2>3 DEF Undone, AcceptsPrior
  <2>5. Tried(p)'
    BY <1>1, <1>2, <2>3 DEF Tried, Undone
  <2> QED
    BY <1>1, <2>4, <2>5, AtStage DEF Undoing
<1>6. CASE target' # target
  <2>1. configPending[p] /\ target' = PreviousConfig(p)
    BY <1>6 DEF UndoConfig, UndoConfigFails, PutBackConfig, fileVars
  <2>2. Prior(p)' = Prior(p) /\ target' = Prior(p) /\ pc[p] = "applied"
    BY <1>4, <2>1
  <2>3. Consequent(p)'
    BY <1>1, <1>2, <1>3, <2>2 DEF Undone, Consequent, Normalize
  <2>4. configPending'[p] => faults' = faults + 1
    BY <1>4 DEF UndoConfig, UndoConfigFails, SBTypeOK
  <2>5. Undone(p)'
    BY <1>1, <1>2, <2>2, <2>3 DEF Undone, AcceptsPrior
  <2>6. Tried(p)'
    BY <1>1, <1>2, <2>1, <2>4 DEF Tried, Undone
  <2> QED
    BY <1>1, <2>5, <2>6, AtStage DEF Undoing
<1> QED
  BY <1>5, <1>6

(* What follows a try: all is back, both are tried again, the executable   *)
(* alone is, or it is given up.                                            *)
LEMMA AfterUndoIs ==
  ASSUME TypeOK, SBTypeOK, NEW p \in Procs, NEW still \in BOOLEAN, AfterUndo(p, still),
         attempt[p] \in 1..3
  PROVE  /\ stage'[p] \in {"undoconfig", "undoefi"} => pc' = pc
         /\ pc'[p] = IF stage'[p] \in {"rolledback", "broken"} /\ pc[p] = "applied"
                     THEN "failed" ELSE pc[p]
         /\ \/ stage'[p] = "rolledback" /\ ~configPending[p] /\ ~still
            \/ stage'[p] = "undoconfig" /\ attempt[p] = 1 /\ attempt'[p] = 2
            \/ stage'[p] = "undoefi" /\ attempt[p] = 2 /\ attempt'[p] = 3 /\ still
            \/ stage'[p] = "broken" /\ attempt[p] \in {2, 3} /\ (configPending[p] \/ still)
               /\ (still => attempt[p] = 3)
<1>1. CASE ~configPending[p] /\ ~still
  BY <1>1 DEF AfterUndo, TypeOK, SBTypeOK
<1>2. CASE configPending[p] \/ still
  <2>1. CASE attempt[p] = 1
    BY <1>2, <2>1 DEF AfterUndo, TypeOK, SBTypeOK
  <2>2. CASE attempt[p] = 2 /\ still
    BY <1>2, <2>2 DEF AfterUndo, TypeOK, SBTypeOK
  <2>3. CASE attempt[p] = 3 \/ (attempt[p] = 2 /\ ~still)
    BY <1>2, <2>3 DEF AfterUndo, TypeOK, SBTypeOK
  <2> QED
    BY <2>1, <2>2, <2>3
<1> QED
  BY <1>1, <1>2

(* The executable that is kept aside comes back, or the try is counted. *)
LEMMA UndoEfiFacts ==
  ASSUME TypeOK, SBTypeOK, NEW p \in Procs, SecureCourse(p), UndoEfi(p) \/ UndoEfiFails(p)
  PROVE  /\ UNCHANGED <<target, backups, births, plan, copy, backup, doomed, configPending>>
         /\ stage[p] = "undoefi" /\ efiPending'[p] \in BOOLEAN /\ AfterUndo(p, efiPending'[p])
         /\ Undone(p) /\ Tried(p) /\ attempt[p] \in 1..3 /\ pc[p] \in Answers /\ Consequent(p)
         /\ faults \in Nat /\ faults' \in {faults, faults + 1}
         /\ efiPending'[p] => \/ efiCopy'[p] = Absent
                              \/ AcceptsPrior(p, efiCopy'[p]) /\ faults' >= attempt[p]
         /\ ~efiPending'[p] => AcceptsPrior(p, efi')
<1>1. /\ UNCHANGED <<target, backups, births, plan, copy, backup, doomed, configPending>>
      /\ stage[p] = "undoefi" /\ efiPending'[p] \in BOOLEAN /\ AfterUndo(p, efiPending'[p])
  BY DEF UndoEfi, UndoEfiFails, bakVars, procVars, fileVars, counters, TypeOK, SBTypeOK, SBError
<1>2. Undone(p) /\ Tried(p) /\ attempt[p] \in 1..3 /\ pc[p] \in Answers /\ Consequent(p)
  BY <1>1 DEF SecureCourse, Undoing, Undone
<1>3. faults \in Nat /\ faults' \in {faults, faults + 1}
  BY DEF UndoEfi, UndoEfiFails, TypeOK, SBError, counters
<1>4. /\ efiPending'[p] => efiCopy'[p] = Absent \/ (AcceptsPrior(p, efiCopy'[p]) /\ faults' >= attempt[p])
      /\ ~efiPending'[p] => AcceptsPrior(p, efi')
  <2>1. CASE UndoEfi(p)
    <3>1. efiPending'[p] <=> efiPending[p] /\ efiCopy[p] = Absent
      BY <2>1 DEF UndoEfi, SBTypeOK
    <3>2. CASE efiPending[p] /\ efiCopy[p] # Absent
      BY <1>2, <2>1, <3>1, <3>2 DEF UndoEfi, Undone
    <3>3. CASE ~(efiPending[p] /\ efiCopy[p] # Absent)
      BY <1>2, <2>1, <3>1, <3>3 DEF UndoEfi, Undone
    <3> QED
      BY <3>2, <3>3
  <2>2. CASE UndoEfiFails(p)
    <3>1. efiPending'[p] /\ efiPending[p] /\ faults' = faults + 1
      BY <2>2 DEF UndoEfiFails, SBError
    <3>2. efiCopy'[p] = Absent \/ (efiCopy'[p] = efiCopy[p] /\ efiCopy[p] # Absent)
      BY <2>2 DEF UndoEfiFails, SBTypeOK
    <3>3. efiCopy[p] # Absent => AcceptsPrior(p, efiCopy[p]) /\ faults >= attempt[p] - 1
      BY <1>2, <3>1 DEF Undone, Tried
    <3> QED
      BY <1>2, <1>3, <3>1, <3>2, <3>3
  <2> QED
    BY <2>1, <2>2
<1> QED
  BY <1>1, <1>2, <1>3, <1>4

(* All is back; but a created configuration may have stayed in place. *)
LEMMA AllBack ==
  ASSUME TypeOK, SBTypeOK, NEW p \in Procs, SecureCourse(p), UndoEfi(p) \/ UndoEfiFails(p),
         stage'[p] = "rolledback"
  PROVE  /\ pc'[p] \in Answers \ {"applied"}
         /\ pc[p] # "rollbackfailed" =>
              /\ InStep'
              /\ target' = Prior(p) \/ (plan[p].kind = "create" /\ faults >= 2)
<1>1. Undone(p) /\ Consequent(p) /\ pc[p] \in Answers /\ target' = target
  BY UndoEfiFacts
<1>2. /\ ~configPending[p] /\ ~efiPending'[p] /\ pc'[p] = IF pc[p] = "applied" THEN "failed" ELSE pc[p]
      /\ AcceptsPrior(p, efi')
  BY UndoEfiFacts, AfterUndoIs
<1>3. CASE pc[p] \in {"busy", "refused"}
  <2>1. Prior(p) = target
    BY <1>3 DEF Prior, Relies, Late
  <2> QED
    BY <1>1, <1>2, <1>3, <2>1 DEF AcceptsPrior, InStep, Answers
<1>4. CASE pc[p] = "failed"
  <2>1. Prior(p) = target \/ (plan[p].kind = "create" /\ Prior(p) = Absent /\ faults >= 2)
    BY <1>1, <1>4, CreateOld DEF Consequent, Prior, Relies
  <2> QED
    BY <1>1, <1>2, <1>4, <2>1 DEF AcceptsPrior, InStep, Answers
<1>5. CASE pc[p] = "applied"
  <2>1. Prior(p) = target
    BY <1>1, <1>2, <1>5 DEF Undone
  <2> QED
    BY <1>1, <1>2, <1>5, <2>1 DEF AcceptsPrior, InStep, Answers
<1> QED
  BY <1>1, <1>2, <1>3, <1>4, <1>5 DEF Answers

LEMMA UndoEfiSteps ==
  ASSUME TypeOK, SBTypeOK, NEW p \in Procs, SecureCourse(p), UndoEfi(p) \/ UndoEfiFails(p)
  PROVE  SecureCourse(p)'
<1> DEFINE still == efiPending'[p]
<1>1. /\ UNCHANGED <<target, backups, births, plan, copy, backup, doomed, configPending>>
      /\ stage[p] = "undoefi" /\ still \in BOOLEAN /\ AfterUndo(p, still)
  BY UndoEfiFacts
<1>2. Undone(p) /\ Tried(p) /\ attempt[p] \in 1..3 /\ pc[p] \in Answers /\ Consequent(p)
  BY UndoEfiFacts
<1>3. faults \in Nat /\ faults' \in {faults, faults + 1}
  BY UndoEfiFacts
<1>4. /\ still => efiCopy'[p] = Absent \/ (AcceptsPrior(p, efiCopy'[p]) /\ faults' >= attempt[p])
      /\ ~still => AcceptsPrior(p, efi')
  BY UndoEfiFacts
<1> HIDE DEF still
<1>5. configPending[p] => faults' >= 3 \/ (attempt[p] = 1 /\ faults' >= 2)
  BY <1>1, <1>2, <1>3 DEF Tried
<1>6. CASE stage'[p] \in {"undoconfig", "undoefi"}
  <2>1. pc'[p] = pc[p]
    BY <1>1, <1>2, <1>6, AfterUndoIs
  <2>2. Prior(p)' = Prior(p) /\ Consequent(p)'
    BY <1>1, <1>2, <1>3, <2>1, SamePrior
  <2>3. \/ stage'[p] = "undoconfig" /\ attempt[p] = 1 /\ attempt'[p] = 2
        \/ stage'[p] = "undoefi" /\ attempt[p] = 2 /\ attempt'[p] = 3 /\ still
    BY <1>1, <1>2, <1>6, AfterUndoIs
  <2>4. Undone(p)'
    BY <1>1, <1>2, <1>4, <2>1, <2>2, <2>3 DEF still, Undone, AcceptsPrior
  <2>5. Tried(p)'
    BY <1>1, <1>3, <1>4, <1>5, <2>3 DEF still, Tried
  <2> QED
    BY <1>6, <2>4, <2>5, AtStage DEF Undoing
<1>7. CASE stage'[p] = "rolledback"
  <2>1. RolledBack(p)'
    <3>1. pc[p] = "rollbackfailed" => pc'[p] = "rollbackfailed"
      BY <1>1, <1>2, <1>7, AfterUndoIs
    <3> QED
      BY <1>7, <3>1, AllBack DEF RolledBack
  <2> QED
    BY <1>7, <2>1, AtStage
<1>8. CASE stage'[p] = "broken"
  <2>1. /\ pc'[p] = IF pc[p] = "applied" THEN "failed" ELSE pc[p]
        /\ attempt[p] \in {2, 3} /\ (configPending[p] \/ still) /\ (still => attempt[p] = 3)
    BY <1>1, <1>2, <1>8, AfterUndoIs
  <2>2. faults' >= 3 \/ efiCopy'[p] = Absent
    BY <1>3, <1>4, <1>5, <2>1
  <2>3. Broken(p)'
    BY <1>2, <2>1, <2>2 DEF Broken, Answers
  <2> QED
    BY <1>8, <2>3, AtStage
<1> QED
  BY <1>1, <1>2, <1>6, <1>7, <1>8, AfterUndoIs

(* The steps that close the matter at once. *)
LEMMA ClosingSteps ==
  ASSUME TypeOK, SBTypeOK, NEW p \in Procs, SecureCourse(p), OpenFails(p) \/ KillUndo(p)
  PROVE  SecureCourse(p)'
<1>1. CASE OpenFails(p)
  <2>1. /\ Closed(p) /\ stage'[p] = "closed" /\ pc'[p] = "refused"
        /\ UNCHANGED <<target, durable, efi, efiCopy, configPending, efiPending>>
    BY <1>1 DEF OpenFails, Go, SecureCourse, TypeOK, fileVars, sbVars
  <2>2. Closed(p)'
    BY <2>1 DEF Closed, InStep
  <2> QED
    BY <2>1, <2>2, AtStage
<1>2. CASE KillUndo(p)
  BY <1>2, AtStage DEF KillUndo, SBTypeOK
<1> QED
  BY <1>1, <1>2

-----------------------------------------------------------------------------
(***************************************************************************)
(* A step of another invocation, which can only prune: the backup that the *)
(* apply relies on is not among those that are removed.                    *)
(***************************************************************************)
LEMMA PrunesOnly ==
  ASSUME NoRestore, TypeOK, SBTypeOK, NEW p \in Procs, ~Protected(p), PruneCourse(p),
         Transaction(p) \/ Failure(p)
  PROVE  /\ Step(p) /\ UNCHANGED sbVars /\ PruneCourse(p)'
         /\ pc[p] \notin Inside /\ crashes' \in {crashes, crashes + 1}
<1>1. ApplyServiceStep(p)
  BY DEF PruneCourse, Transaction, Failure, OpenTransaction, RecordApply, ComputeDigest, StripSignature,
     EnrollDigest, SignImage, UpdateImage, VerifyImage, Commit, Advance, ApplyFailed, OpenFails, ToolFails,
     CommitFails, UndoConfig, UndoConfigFails, UndoEfi, UndoEfiFails, KillUndo, Running, Undoing
<1>2. Step(p) /\ pc[p] \in {"start", "pruning"}
  BY <1>1, EndedStops DEF ApplyServiceStep, PruneCourse, Ended
<1>3. Role[p] # "apply" /\ Role[p] # "restore"
  BY DEF Protected, NoRestore
<1>4. ListSurplus(p) \/ RemoveSurplus(p) \/ PruneDone(p) \/ IOError(p) \/ Kill(p)
  BY <1>2, <1>3 DEF Step, Prune, Command, SelectBackup, RenderMenu, BuildPlan, Apply, TakeLock, Inspect,
     Compare, CreateBackup, WriteBackup, SyncBackup, SkipBackup, WriteTemporary, SyncTemporary, Rename,
     SyncRename, Verify, RestoreBackup, NothingToRestore, RemoveCreated, SyncRestored, Go
<1>5. /\ pc'[p] \in {"pruning", "done", "prunefailed", "dead"}
      /\ crashes' \in {crashes, crashes + 1}
  BY <1>2, <1>4 DEF ListSurplus, RemoveSurplus, PruneDone, IOError, Undoable, Kill, TypeOK, Go, counters
<1>6. stage[p] = "closed" /\ UNCHANGED sbVars
  BY <1>1 DEF PruneCourse, ApplyServiceStep, Running, sbVars
<1> QED
  BY <1>2, <1>5, <1>6 DEF PruneCourse, sbVars, Inside

LEMMA SecureStays ==
  ASSUME TypeOK, NEW p \in Procs, Course(p), SecureCourse(p),
         UNCHANGED <<target, durable, sbVars>>, crashes' \in {crashes, crashes + 1},
         faults' >= faults, faults' \in Nat,
         pc'[p] = pc[p], plan'[p] = plan[p], backup'[p] = backup[p],
         Ready(p) => Ready(p)' /\ Old(p)' = Old(p)
  PROVE  SecureCourse(p)'
<1> USE DEF sbVars
<1>1. faults \in Nat /\ crashes \in Nat /\ (crashes' = 0 => crashes = 0)
  BY DEF TypeOK
<1>2. Consequent(p) => Prior(p)' = Prior(p) /\ Consequent(p)' /\ New(p)' = New(p)
  <2>1. SUFFICES ASSUME Consequent(p)
                 PROVE  Prior(p)' = Prior(p) /\ Consequent(p)' /\ New(p)' = New(p)
    OBVIOUS
  <2>2. Relies(p)' <=> Relies(p)
    BY DEF Relies
  <2>3. Relies(p) => Old(p)' = Old(p)
    BY <2>1, ReliesOnReady, CreateOld DEF Consequent
  <2>4. Prior(p)' = Prior(p)
    BY <2>2, <2>3 DEF Prior
  <2> QED
    BY <1>1, <2>1, <2>4 DEF Consequent, Normalize, New
<1>3. Closed(p) => Closed(p)'
  BY DEF Closed, InStep, Normalize
<1>4. Opened(p) => Opened(p)'
  BY <1>2 DEF Opened, AcceptsPrior
<1>5. Changing(p) => Changing(p)'
  BY <1>2 DEF Changing, AcceptsPrior
<1>6. Undone(p) => Undone(p)'
  BY <1>2 DEF Undone, AcceptsPrior
<1>7. Tried(p) /\ Undone(p) => Tried(p)'
  BY <1>1 DEF Tried, Undone
<1>8. (RolledBack(p) => RolledBack(p)') /\ (Committed(p) => Committed(p)') /\ (Broken(p) => Broken(p)')
  BY <1>1 DEF RolledBack, Committed, Broken, InStep
<1> QED
  BY <1>3, <1>4, <1>5, <1>6, <1>7, <1>8 DEF SecureCourse

LEMMA OthersSteps ==
  ASSUME FineClock, NoRestore, SBInv, TypeOK', NEW p \in Procs, ~Protected(p),
         Transaction(p) \/ Failure(p)
  PROVE  SecureInv'
<1> USE DEF SBInv
<1>1. PruneCourse(p)
  BY DEF SecureInv
<1>2. /\ Step(p) /\ UNCHANGED sbVars /\ PruneCourse(p)'
      /\ pc[p] \notin Inside /\ crashes' \in {crashes, crashes + 1}
  BY <1>1, PrunesOnly
<1>3. OutsiderActs(p) /\ UNCHANGED <<target, durable>>
  BY <1>2, OutsiderStep DEF OutsiderActs
<1>4. \A q \in Procs \ {p} : /\ pc'[q] = pc[q] /\ copy'[q] = copy[q] /\ backup'[q] = backup[q]
                            /\ plan'[q] = plan[q] /\ faults' >= faults
  BY <1>2, OwnStep
<1>5. ASSUME NEW q \in Procs, Protected(q) PROVE SecureCourse(q)'
  <2>1. q # p /\ SecureCourse(q) /\ Course(q)
    BY <1>5 DEF SecureInv, TransactionInv, CourseInv
  <2>2. Ready(q) => Ready(q)' /\ Old(q)' = Old(q)
    BY <1>3, <2>1, ReadyStays DEF TransactionInv
  <2>3. faults' \in Nat
    BY DEF TypeOK
  <2> QED
    BY <1>2, <1>3, <1>4, <2>1, <2>2, <2>3, SecureStays
<1>6. ASSUME NEW q \in Procs, ~Protected(q) PROVE PruneCourse(q)'
  BY <1>2, <1>4, <1>6 DEF SecureInv, PruneCourse, sbVars
<1>7. InStep /\ durable = {target} => InStep' /\ durable' = {target'}
  BY <1>2, <1>3 DEF InStep, sbVars
<1> QED
  BY <1>5, <1>6, <1>7 DEF SecureInv, Protected

(* A step of the apply. *)
LEMMA OwnSteps ==
  ASSUME OneApply, NoRestore, SBInv, TypeOK', TransactionInv', NEW p \in Procs, Protected(p),
         Transaction(p) \/ Failure(p)
  PROVE  SecureInv'
<1> USE DEF SBInv
<1>1. SecureCourse(p) /\ Course(p) /\ Course(p)' /\ \A q \in Procs \ {p} : ~Protected(q) /\ PruneCourse(q)
  BY TheApply DEF TransactionInv, CourseInv
<1>2. SecureCourse(p)'
  <2>1. CASE OpenTransaction(p)
    BY <1>1, <2>1, OpeningSteps DEF OpenTransaction, Advance, SecureCourse
  <2>2. CASE ApplyServiceStep(p)
    <3>1. stage[p] \in {"closed", "open", "committed", "dead"}
      <4>1. pc[p] \notin Ended /\ (pc[p] = "applied" => stage[p] = "committed")
        BY <2>2, EndedStops DEF ApplyServiceStep
      <4>2. stage[p] \in Stages
        BY DEF SBTypeOK
      <4> QED
        BY <1>1, <4>1, <4>2 DEF SecureCourse, Changing, Undone, RolledBack, Broken, Answers, Ended,
           Stages, Running, Undoing
    <3>2. CASE stage[p] = "closed"
      BY <1>1, <2>2, <3>2, ClosedSteps DEF SecureCourse
    <3>3. CASE stage[p] = "open"
      BY <1>1, <2>2, <3>3, OpenSteps DEF SecureCourse, SBTypeOK
    <3>4. CASE stage[p] = "committed"
      BY <1>1, <2>2, <3>4, CommittedSteps DEF SecureCourse
    <3>5. CASE stage[p] = "dead"
      <4>1. stage'[p] = "dead"
        BY <2>2, <3>5 DEF ApplyServiceStep, Running
      <4> QED
        BY <4>1, AtStage
    <3> QED
      BY <3>1, <3>2, <3>3, <3>4, <3>5
  <2>3. CASE Transaction(p) /\ ~OpenTransaction(p) /\ ~ApplyServiceStep(p)
    BY <1>1, <2>3, ChangingSteps DEF Transaction
  <2>4. CASE Failure(p)
    BY <1>1, <2>4, FailingSteps, UndoConfigSteps, UndoEfiSteps, ClosingSteps DEF Failure
  <2> QED
    BY <2>1, <2>2, <2>3, <2>4
<1>3. ASSUME NEW q \in Procs \ {p} PROVE PruneCourse(q)'
  <2>1. pc'[q] = pc[q]
    <3>1. CASE ApplyServiceStep(p)
      BY <3>1, OwnStep DEF ApplyServiceStep
    <3>2. CASE OpenFails(p)
      BY <3>2 DEF OpenFails, Go, TypeOK
    <3>3. CASE Besides(p)
      <4>1. Aside(p)
        BY <3>3, AsideSteps DEF Besides
      <4> QED
        BY <4>1 DEF Aside, TypeOK
    <3>4. CASE ~ApplyServiceStep(p) /\ ~OpenFails(p) /\ ~Besides(p)
      BY <3>4 DEF Transaction, Failure, Besides, OpenTransaction, RecordApply, ComputeDigest, StripSignature,
         EnrollDigest, SignImage, UpdateImage, VerifyImage, Commit, ApplyFailed, vars
    <3> QED
      BY <3>1, <3>2, <3>3, <3>4
  <2>2. stage'[q] = stage[q]
    BY DEF Transaction, Failure, OpenTransaction, ApplyServiceStep, RecordApply, ComputeDigest,
       StripSignature, EnrollDigest, SignImage, UpdateImage, VerifyImage, Commit, Advance, ApplyFailed,
       OpenFails, ToolFails, CommitFails, StartUndo, UndoConfig, UndoConfigFails, UndoEfi, UndoEfiFails,
       AfterUndo, KillUndo, sbVars, SBTypeOK
  <2> QED
    BY <1>1, <2>1, <2>2 DEF PruneCourse
<1> QED
  BY <1>1, <1>2, <1>3 DEF SecureInv, Protected

(* The machine stops.  Before the transaction is opened nothing is lost,   *)
(* and nothing is promised once it was.                                    *)
LEMMA LossSteps ==
  ASSUME NoEdits, SBInv, SBEnvironment
  PROVE  SecureInv'
<1> USE DEF SBInv
<1>1. PowerLoss
  BY ApplyAssumption DEF SBEnvironment, Environment, ExternalEdit, NoEdits, TypeOK
<1>2. /\ crashes' # crashes /\ crashes' # 0
      /\ \A p \in Procs : pc'[p] = IF pc[p] \in Ended THEN pc[p] ELSE "dead"
      /\ target' \in durable /\ durable' = {target'} /\ UNCHANGED <<plan, faults>>
  BY <1>1 DEF PowerLoss, TypeOK, procVars
<1>3. /\ \A p \in Procs : stage'[p] = IF stage[p] \in Running \cup Undoing THEN "dead" ELSE stage[p]
      /\ \A p \in Procs : efiCopy'[p] = Absent
      /\ UNCHANGED <<efi, configPending, efiPending>>
  BY <1>2 DEF SBEnvironment
<1>4. InStep /\ durable = {target} => InStep' /\ durable' = {target'}
  BY <1>2, <1>3 DEF InStep
<1>5. ASSUME NEW p \in Procs, Protected(p) PROVE SecureCourse(p)'
  <2>1. SecureCourse(p) /\ stage[p] \in Stages
    BY <1>5 DEF SecureInv, SBTypeOK
  <2>2. CASE stage[p] \in Running \cup Undoing \cup {"dead"}
    BY <1>3, <2>2, AtStage
  <2>3. CASE stage[p] = "closed"
    <3>1. Closed(p)'
      BY <1>2, <1>3, <1>4, <2>1, <2>3 DEF SecureCourse, Closed, Ended, Before
    <3> QED
      BY <1>3, <2>3, <3>1, AtStage DEF Running, Undoing
  <2>4. CASE stage[p] = "rolledback"
    <3>1. RolledBack(p)'
      BY <1>2, <2>1, <2>4 DEF SecureCourse, RolledBack, Answers, Ended
    <3> QED
      BY <1>3, <2>4, <3>1, AtStage DEF Running, Undoing
  <2>5. CASE stage[p] = "committed"
    <3>1. Committed(p)'
      BY <1>2, <2>1, <2>5 DEF SecureCourse, Committed, Ended
    <3> QED
      BY <1>3, <2>5, <3>1, AtStage DEF Running, Undoing
  <2>6. CASE stage[p] = "broken"
    <3>1. Broken(p)'
      BY <1>2, <1>3, <2>1, <2>6 DEF SecureCourse, Broken, Answers, Ended
    <3> QED
      BY <1>3, <2>6, <3>1, AtStage DEF Running, Undoing
  <2> QED
    BY <2>1, <2>2, <2>3, <2>4, <2>5, <2>6 DEF Stages
<1>6. ASSUME NEW p \in Procs, ~Protected(p) PROVE PruneCourse(p)'
  BY <1>2, <1>3, <1>6 DEF SecureInv, PruneCourse, Running, Undoing
<1> QED
  BY <1>4, <1>5, <1>6 DEF SecureInv, Protected

LEMMA SecureStep ==
  ASSUME OneApply, OneLock, NoEdits, FineClock, NoRestore, SBInv, [SBNext]_allVars
  PROVE  SBInv'
<1>1. TypeOK' /\ SBTypeOK' /\ LockInv' /\ TransactionInv' /\ MenuInv'
  BY ApplyKept
<1>2. ASSUME NEW p \in Procs, Transaction(p) \/ Failure(p) PROVE SecureInv'
  BY <1>1, <1>2, OthersSteps, OwnSteps
<1>3. CASE SBEnvironment
  BY <1>1, <1>3, LossSteps DEF SBInv
<1>4. CASE UNCHANGED allVars
  <2>1. ASSUME NEW p \in Procs, SecureCourse(p) PROVE SecureCourse(p)'
    <3>1. TypeOK /\ Course(p) /\ TypeOK'
      BY <1>1 DEF SBInv, TransactionInv, CourseInv
    <3>2. Ready(p) => Ready(p)' /\ Old(p)' = Old(p)
      BY <1>4, Still DEF allVars, vars, bakVars, procVars
    <3> QED
      BY <1>4, <2>1, <3>1, <3>2, SecureStays DEF allVars, vars, fileVars, procVars, counters, TypeOK
  <2>2. \A p \in Procs : PruneCourse(p) => PruneCourse(p)'
    BY <1>4 DEF allVars, vars, sbVars, PruneCourse
  <2>3. InStep /\ durable = {target} => InStep' /\ durable' = {target'}
    BY <1>4 DEF allVars, vars, sbVars, fileVars, InStep
  <2> QED
    BY <1>1, <2>1, <2>2, <2>3 DEF SBInv, SecureInv, Protected
<1> QED
  BY <1>1, <1>2, <1>3, <1>4 DEF SBNext, SBInv

LEMMA SecureInit ==
  ASSUME SBInit
  PROVE  SBInv
<1>1. TypeOK /\ SBTypeOK /\ LockInv /\ TransactionInv /\ MenuInv
  BY SBTypeInit, TransactionInit DEF SBInit, Init, LockInv, MenuInv, Inside
<1>2. InStep /\ durable = {target}
  BY DEF SBInit, Init, InStep
<1>3. ASSUME NEW p \in Procs PROVE Closed(p) /\ PruneCourse(p) /\ stage[p] = "closed"
  BY <1>2 DEF SBInit, Init, Closed, Before, PruneCourse
<1> QED
  BY <1>1, <1>2, <1>3 DEF SBInv, SecureInv, SecureCourse, Running, Undoing

-----------------------------------------------------------------------------
(* What follows from the invariant.                                        *)
LEMMA Secure ==
  ASSUME OneApply, OneLock, NoEdits, FineClock, NoRestore
  PROVE  SBSpec => []SBInv
<1>1. SBInit => SBInv
  BY SecureInit
<1>2. SBInv /\ [SBNext]_allVars => SBInv'
  BY SecureStep
<1> QED
  BY <1>1, <1>2, PTL DEF SBSpec

(***************************************************************************)
(* Whenever no command is running, none was killed and none has reported   *)
(* that its rollback failed, the executable accepts the configuration: the *)
(* two writes are one transaction.                                         *)
(***************************************************************************)
THEOREM TogetherOrNotAtAll ==
  ASSUME OneApply, OneLock, NoEdits, FineClock, NoRestore
  PROVE  SBSpec => []InStepAtRest
<1>1. SBInv => InStepAtRest
  <2>1. SUFFICES ASSUME SecureInv, AtRest, crashes = 0 PROVE InStep
    BY DEF SBInv, InStepAtRest
  <2>2. ASSUME NEW p \in Procs, Protected(p) PROVE InStep
    BY <2>1, <2>2 DEF SecureInv, SecureCourse, AtRest, Closed, RolledBack, Committed
  <2> QED
    BY <2>1, <2>2 DEF SecureInv
<1> QED
  BY <1>1, Secure, PTL

(***************************************************************************)
(* At every moment of a transaction that is not finished there is a way    *)
(* back: a signed copy of the executable, and the configuration that this  *)
(* copy accepts, in place or in a backup that nobody prunes.               *)
(***************************************************************************)
THEOREM WayBackStays ==
  ASSUME OneApply, OneLock, NoEdits, FineClock, NoRestore
  PROVE  SBSpec => []WayBack
<1>1. SBInv => WayBack
  <2>1. SUFFICES ASSUME SBInv, NEW p \in Procs, stage[p] \in Running
                 PROVE  /\ efiCopy[p] # Absent /\ efiCopy[p].signed
                        /\ efiCopy[p].digest \in {Absent, target} \/ HeldIn(backups, efiCopy[p].digest)
    BY DEF WayBack
  <2>2. SecureCourse(p) /\ Course(p)
    BY <2>1, TheApply DEF SBInv, Running, TransactionInv, CourseInv
  <2>3. AcceptsPrior(p, efiCopy[p]) /\ Consequent(p)
    BY <2>1, <2>2 DEF SecureCourse, Opened, Changing
  <2>4. CASE ~Relies(p)
    BY <2>3, <2>4 DEF AcceptsPrior, Prior
  <2>5. CASE Relies(p) /\ plan[p].kind = "create"
    BY <2>3, <2>5, CreateOld DEF AcceptsPrior, Prior
  <2>6. CASE Relies(p) /\ plan[p].kind # "create"
    <3>1. Kept(p)
      BY <2>2, <2>3, <2>6, ReliesOnReady DEF Consequent, Ready, Creating
    <3>2. HeldIn(backups, Old(p))
      BY <2>1, <2>6, <3>1 DEF Kept, Reserved, AllSynced, Existing, HeldIn, Old
    <3> QED
      BY <2>3, <2>6, <3>2 DEF AcceptsPrior, Prior
  <2> QED
    BY <2>4, <2>5, <2>6
<1> QED
  BY <1>1, Secure, PTL

(***************************************************************************)
(* A transaction is given up only after its rollback and those of both     *)
(* destructors have failed, or without its copy of the executable.         *)
(***************************************************************************)
THEOREM GivenUpOnlyAfterRetries ==
  ASSUME OneApply, OneLock, NoEdits, FineClock, NoRestore
  PROVE  SBSpec => []BrokenOnlyAfterRetries
<1>1. SBInv => BrokenOnlyAfterRetries
  <2>1. SUFFICES ASSUME SecureInv, NEW p \in Procs, stage[p] = "broken"
                 PROVE  faults >= 3 \/ efiCopy[p] = Absent
    BY DEF SBInv, BrokenOnlyAfterRetries
  <2>2. SecureCourse(p)
    BY <2>1, TheApply
  <2> QED
    BY <2>1, <2>2 DEF SecureCourse, Broken
<1> QED
  BY <1>1, Secure, PTL

(* Only the commit commits, and only what follows a try rolls back. *)
LEMMA StageReached ==
  ASSUME SBTypeOK, [SBNext]_allVars, NEW p \in Procs, stage'[p] # stage[p]
  PROVE  /\ stage'[p] = "committed" => Commit(p)
         /\ stage'[p] = "rolledback" => UndoEfi(p) \/ UndoEfiFails(p)
<1>1. ASSUME NEW q \in Procs, Transaction(q) \/ Failure(q)
      PROVE  /\ stage'[p] = "committed" => Commit(p)
             /\ stage'[p] = "rolledback" => UndoEfi(p) \/ UndoEfiFails(p)
  BY <1>1 DEF Transaction, Failure, OpenTransaction, ApplyServiceStep, RecordApply, ComputeDigest,
     StripSignature, EnrollDigest, SignImage, UpdateImage, VerifyImage, Commit, Advance, ApplyFailed,
     OpenFails, ToolFails, CommitFails, StartUndo, UndoConfig, UndoConfigFails, UndoEfi, UndoEfiFails,
     AfterUndo, KillUndo, sbVars, SBTypeOK
<1>2. CASE SBEnvironment
  BY <1>2 DEF SBEnvironment, SBTypeOK
<1> QED
  BY <1>1, <1>2 DEF SBNext, allVars, sbVars

(***************************************************************************)
(* An apply that commits leaves the planned configuration and a signed     *)
(* executable that carries its digest.  One that is rolled back leaves the *)
(* previous configuration and an executable that accepts it, unless it was *)
(* told that ApplyService's own rollback failed, or could not unlink a     *)
(* configuration it had created.                                           *)
(***************************************************************************)
THEOREM SecureTransaction ==
  ASSUME OneApply, OneLock, NoEdits, FineClock, NoRestore
  PROVE  SBSpec => SecureAllOrNothing
<1> DEFINE Said(p) ==
      /\ stage'[p] = "committed" => /\ efi'.signed /\ efi'.digest = target'
                                    /\ target' = plan[p].generated
      /\ stage'[p] = "rolledback" => \/ InStep' /\ Normalize(target') = plan[p].installed
                                     \/ pc[p] = "rollbackfailed"
                                     \/ plan[p].kind = "create" /\ faults' >= 2
<1>1. ASSUME SBInv, [SBNext]_allVars, NEW p \in Procs, stage'[p] # stage[p]
      PROVE  Said(p)
  <2>1. /\ stage'[p] = "committed" => Commit(p)
        /\ stage'[p] = "rolledback" => UndoEfi(p) \/ UndoEfiFails(p)
    BY <1>1, StageReached DEF SBInv
  <2>2. CASE stage'[p] = "committed"
    <3>1. stage[p] = "verified" /\ UNCHANGED <<efi, target>>
      BY <2>1, <2>2 DEF Commit, Advance, vars, fileVars
    <3>2. Changing(p)
      BY <1>1, <3>1, TheApply DEF SBInv, SecureCourse, Running
    <3> QED
      BY <2>2, <3>1, <3>2 DEF Changing, New
  <2>3. CASE stage'[p] = "rolledback"
    <3>1. stage[p] = "undoefi" /\ target' = target /\ SecureCourse(p)
      BY <1>1, <2>1, <2>3, TheApply DEF SBInv, UndoEfi, UndoEfiFails, fileVars
    <3>2. /\ Normalize(Prior(p)) = plan[p].installed /\ faults \in Nat /\ faults' \in {faults, faults + 1}
          /\ pc[p] # "rollbackfailed" =>
               InStep' /\ (target' = Prior(p) \/ (plan[p].kind = "create" /\ faults >= 2))
      BY <1>1, <2>1, <2>3, <3>1, UndoEfiFacts, AllBack DEF SBInv, Consequent
    <3> QED
      BY <2>3, <3>2
  <2> QED
    BY <2>1, <2>2, <2>3
<1>2. SBInv /\ [SBNext]_allVars => [\A p \in Procs : stage'[p] # stage[p] => Said(p)]_allVars
  BY <1>1
<1> HIDE DEF Said
<1>3. SBSpec => [][\A p \in Procs : stage'[p] # stage[p] => Said(p)]_allVars
  BY <1>2, Secure, PTL DEF SBSpec
<1> QED
  BY <1>3, PTL DEF SecureAllOrNothing, Said

=============================================================================
