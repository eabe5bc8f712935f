--------------------------- MODULE SecureBootApply ---------------------------
(***************************************************************************)
(* Installing limine.conf under Secure Boot.                               *)
(*                                                                         *)
(* The Limine EFI executable carries the digest of the configuration it    *)
(* will accept, and is signed.  SecureBootApplyService wraps the steps of  *)
(* ApplyService in a transaction: it copies the executable aside, applies  *)
(* the configuration, takes its digest, and has the executable stripped of *)
(* its signature, enrolled with the digest, signed and verified.  When     *)
(* anything fails, the configuration and the executable are rolled back,   *)
(* each on its own, and what could not be rolled back is tried again by    *)
(* the destructors.  Only ApplyService's own steps hold the apply lock.    *)
(*                                                                         *)
(* The executable is a record [digest, signed]; the digest of a            *)
(* configuration is its content, and Absent before the first enrollment,   *)
(* when any configuration is accepted.  restore does not use the           *)
(* transaction.                                                            *)
(***************************************************************************)
EXTENDS ApplyService

VARIABLES
  efi,       \* the Limine EFI executable
  efiCopy,   \* efiCopy[p]: p's copy of it in the temporary directory
  stage,     \* stage[p]: how far p's transaction is
  attempt,   \* attempt[p]: which of the three tries to roll back this is
  digest,    \* digest[p]: the digest p computed
  configPending,  \* configPending[p]: config_rollback_pending_
  efiPending      \* efiPending[p]: efi_rollback_pending_, and active_ of the EFI part

sbVars == <<efi, efiCopy, stage, attempt, digest, configPending, efiPending>>
allVars == <<vars, sbVars>>

Images == [digest : Files \cup {Absent}, signed : BOOLEAN]

ASSUME NoImageAssumption == Absent \notin Images

Protected(p) == Role[p] = "apply"

Running == {"open", "recorded", "digested", "stripped", "enrolled", "signed", "verified"}
Undoing == {"undoconfig", "undoefi"}
Stages == {"closed", "committed", "rolledback", "broken", "dead"} \cup Running \cup Undoing

SBInit ==
  /\ Init
  /\ \E d \in {Absent, target} : efi = [digest |-> d, signed |-> TRUE]
  /\ efiCopy = [p \in Procs |-> Absent]
  /\ stage = [p \in Procs |-> "closed"]
  /\ attempt = [p \in Procs |-> 0]
  /\ digest = [p \in Procs |-> Absent]
  /\ configPending = [p \in Procs |-> FALSE]
  /\ efiPending = [p \in Procs |-> FALSE]

Advance(p, from, to) == stage[p] = from /\ stage' = [stage EXCEPT ![p] = to]

-----------------------------------------------------------------------------
(* The transaction, from its constructor to commit.                        *)

(* The constructor copies the executable, before the apply lock is taken;  *)
(* if that fails, nothing else happens.                                    *)
OpenTransaction(p) ==
  /\ Protected(p) /\ pc[p] = "planned"
  /\ Advance(p, "closed", "open")
  /\ efiCopy' = [efiCopy EXCEPT ![p] = efi]
  /\ efiPending' = [efiPending EXCEPT ![p] = TRUE]
  /\ UNCHANGED <<vars, efi, attempt, digest, configPending>>

(* Faulty: the protection is not asked for, as if protect_config were off. *)
ApplyServiceStep_Unprotected(p) == Step(p) /\ UNCHANGED sbVars

(* The steps of ApplyService come after the constructor, pruning after the *)
(* commit.                                                                 *)
ApplyServiceStep(p) ==
  /\ Protected(p) /\ pc[p] = "planned" => stage[p] = "open"
  /\ Protected(p) /\ pc[p] = "applied" => stage[p] = "committed"
  /\ Step(p)
  /\ stage' = IF pc'[p] = "dead" /\ stage[p] \in Running
              THEN [stage EXCEPT ![p] = "dead"] ELSE stage
  /\ UNCHANGED <<efi, efiCopy, attempt, digest, configPending, efiPending>>

RecordApply(p) ==
  /\ pc[p] = "applied"
  /\ Advance(p, "open", "recorded")
  /\ configPending' = [configPending EXCEPT ![p] = TRUE]
  /\ UNCHANGED <<vars, efi, efiCopy, attempt, digest, efiPending>>

(* b2sum reads the configuration again, with no lock held. *)
ComputeDigest(p) ==
  /\ target # Absent
  /\ Advance(p, "recorded", "digested")
  /\ digest' = [digest EXCEPT ![p] = target]
  /\ UNCHANGED <<vars, efi, efiCopy, attempt, configPending, efiPending>>

(* The tools that change the executable: sbattach, limine enroll-config,   *)
(* sbctl sign.                                                             *)
Stripped(i) == [i EXCEPT !.signed = FALSE]
Enrolled(i, d) == [digest |-> d, signed |-> FALSE]
Signed(i) == [i EXCEPT !.signed = TRUE]

UpdateImage(p, from, to, image) ==
  /\ Advance(p, from, to)
  /\ efi' = image
  /\ UNCHANGED <<vars, efiCopy, attempt, digest, configPending, efiPending>>

StripSignature(p) == UpdateImage(p, "digested", "stripped", Stripped(efi))
EnrollDigest(p) == UpdateImage(p, "stripped", "enrolled", Enrolled(efi, digest[p]))
SignImage(p) == UpdateImage(p, "enrolled", "signed", Signed(efi))

(* sbctl verify only looks. *)
VerifyImage(p) ==
  /\ efi.signed
  /\ Advance(p, "signed", "verified")
  /\ UNCHANGED <<vars, efi, efiCopy, attempt, digest, configPending, efiPending>>

(* The copy is unlinked; from then on there is no way back. *)
Commit(p) ==
  /\ efiCopy[p] # Absent
  /\ Advance(p, "verified", "committed")
  /\ efiCopy' = [efiCopy EXCEPT ![p] = Absent]
  /\ configPending' = [configPending EXCEPT ![p] = FALSE]
  /\ efiPending' = [efiPending EXCEPT ![p] = FALSE]
  /\ UNCHANGED <<vars, efi, attempt, digest>>

-----------------------------------------------------------------------------
(* Failures, and the rollback.                                             *)

StartUndo(p) == /\ stage' = [stage EXCEPT ![p] = "undoconfig"]
                /\ attempt' = [attempt EXCEPT ![p] = 1]

(* ApplyService threw, or a tool reports what it found without a failure. *)
ApplyFailed(p) ==
  /\ \/ stage[p] = "open" /\ pc[p] \in {"busy", "refused", "failed", "rollbackfailed"}
     \/ stage[p] = "recorded" /\ target = Absent
     \/ stage[p] = "signed" /\ ~efi.signed
  /\ StartUndo(p)
  /\ UNCHANGED <<vars, efi, efiCopy, digest, configPending, efiPending>>

SBError == faults < MaxFaults /\ faults' = faults + 1

(* The copy cannot be made: the constructor throws and nothing is pending. *)
OpenFails(p) ==
  /\ Protected(p) /\ stage[p] = "closed"
  /\ SBError
  /\ Go(p, "planned", "refused")
  /\ UNCHANGED <<fileVars, bakVars, lock, procVars, edits, crashes, sbVars>>

(* A digest, tool or verification fails; a failing tool may already have   *)
(* changed the executable.                                                 *)
ToolFails(p) ==
  /\ stage[p] \in Running \ {"open", "verified"}
  /\ SBError
  /\ \/ UNCHANGED efi
     \/ stage[p] = "digested" /\ efi' = Stripped(efi)
     \/ stage[p] = "stripped" /\ efi' = Enrolled(efi, digest[p])
     \/ stage[p] = "enrolled" /\ efi' = Signed(efi)
  /\ StartUndo(p)
  /\ UNCHANGED <<fileVars, bakVars, lock, pc, procVars, edits, crashes,
                 efiCopy, digest, configPending, efiPending>>

(* commit() throws before it has unlinked the copy, or after it, when the  *)
(* directory of the copy cannot be synced.                                 *)
CommitFails(p) ==
  /\ stage[p] = "verified"
  /\ SBError
  /\ \/ UNCHANGED efiCopy
     \/ efiCopy' = [efiCopy EXCEPT ![p] = Absent]
  /\ StartUndo(p)
  /\ UNCHANGED <<fileVars, bakVars, lock, pc, procVars, edits, crashes,
                 efi, digest, configPending, efiPending>>

(* What rollback_config puts in place: the backup, or nothing for a file   *)
(* that was created.                                                       *)
ConfigRecoverable(p) == plan[p].kind = "create" \/ backup[p] \in Existing
PreviousConfig(p) == IF plan[p].kind = "create" THEN Absent ELSE ContentOf(backup[p])
PutBackConfig(p) == /\ target' = PreviousConfig(p)
                    /\ durable' = durable \cup {PreviousConfig(p)}

(* Faulty: the configuration counts as rolled back, but is not touched. *)
UndoConfig_Skipped(p) ==
  /\ Advance(p, "undoconfig", "undoefi")
  /\ configPending' = [configPending EXCEPT ![p] = FALSE]
  /\ UNCHANGED <<vars, efi, efiCopy, attempt, digest, efiPending>>

(* rollback_config: no lock is taken, and what is there now is not looked  *)
(* at.  An error is collected and the executable is still rolled back.     *)
UndoConfig(p) ==
  /\ Advance(p, "undoconfig", "undoefi")
  /\ IF configPending[p] /\ ConfigRecoverable(p)
     THEN /\ target' = PreviousConfig(p)
          /\ durable' = {PreviousConfig(p)}
          /\ configPending' = [configPending EXCEPT ![p] = FALSE]
     ELSE UNCHANGED <<fileVars, configPending>>
  /\ UNCHANGED <<bakVars, lock, pc, procVars, counters,
                 efi, efiCopy, attempt, digest, efiPending>>

UndoConfigFails(p) ==
  /\ configPending[p]
  /\ Advance(p, "undoconfig", "undoefi")
  /\ SBError
  /\ \/ UNCHANGED fileVars
     \/ ConfigRecoverable(p) /\ PutBackConfig(p)
  /\ UNCHANGED <<bakVars, lock, pc, procVars, edits, crashes,
                 efi, efiCopy, attempt, digest, configPending, efiPending>>

(* Faulty: a rollback that failed is tried again without end. *)
AfterUndo_Forever(p, efiStillPending) ==
  LET done == ~configPending[p] /\ ~efiStillPending
  IN /\ stage' = [stage EXCEPT ![p] = IF done THEN "rolledback" ELSE "undoconfig"]
     /\ attempt' = IF done THEN attempt ELSE [attempt EXCEPT ![p] = @ + 1]
     /\ pc' = IF done /\ pc[p] = "applied" THEN [pc EXCEPT ![p] = "failed"] ELSE pc

(* Faulty: the destructors do not try again. *)
AfterUndo_Once(p, efiStillPending) ==
  LET next == IF ~configPending[p] /\ ~efiStillPending THEN "rolledback" ELSE "broken"
  IN /\ stage' = [stage EXCEPT ![p] = next]
     /\ attempt' = attempt
     /\ pc' = IF pc[p] = "applied" THEN [pc EXCEPT ![p] = "failed"] ELSE pc

(* What follows one try: nothing if all is rolled back; after the first,   *)
(* ~SecureBootTransaction tries both again, and then ~EfiImageTransaction  *)
(* the executable alone.  The command ends with an error.                  *)
AfterUndo(p, efiStillPending) ==
  LET done == ~configPending[p] /\ ~efiStillPending
      again == attempt[p] = 1 \/ (attempt[p] = 2 /\ efiStillPending)
      next == IF done THEN "rolledback"
              ELSE IF ~again THEN "broken"
              ELSE IF attempt[p] = 1 THEN "undoconfig" ELSE "undoefi"
  IN /\ stage' = [stage EXCEPT ![p] = next]
     /\ attempt' = IF ~done /\ again THEN [attempt EXCEPT ![p] = @ + 1] ELSE attempt
     /\ pc' = IF next \in {"rolledback", "broken"} /\ pc[p] = "applied"
              THEN [pc EXCEPT ![p] = "failed"] ELSE pc

(* EfiImageTransaction::rollback: restore, then remove the copy. *)
UndoEfi(p) ==
  LET possible == efiPending[p] /\ efiCopy[p] # Absent
  IN /\ stage[p] = "undoefi"
     /\ efi' = IF possible THEN efiCopy[p] ELSE efi
     /\ efiCopy' = IF possible THEN [efiCopy EXCEPT ![p] = Absent] ELSE efiCopy
     /\ efiPending' = [efiPending EXCEPT ![p] = @ /\ ~possible]
     /\ AfterUndo(p, efiPending'[p])
     /\ UNCHANGED <<fileVars, bakVars, lock, procVars, counters, digest, configPending>>

(* It fails before the restore, after it, or after the copy was unlinked. *)
UndoEfiFails(p) ==
  /\ stage[p] = "undoefi" /\ efiPending[p]
  /\ SBError
  /\ \/ UNCHANGED <<efi, efiCopy>>
     \/ /\ efiCopy[p] # Absent
        /\ efi' = efiCopy[p]
        /\ efiCopy' \in {efiCopy, [efiCopy EXCEPT ![p] = Absent]}
  /\ AfterUndo(p, TRUE)
  /\ UNCHANGED <<fileVars, bakVars, lock, procVars, edits, crashes,
                 digest, configPending, efiPending>>

(* Killed after ApplyService has thrown, and a power loss, which also      *)
(* empties the temporary directory.                                        *)
KillUndo(p) ==
  /\ crashes < MaxCrashes
  /\ crashes' = crashes + 1
  /\ stage[p] \in Running \cup Undoing
  /\ pc[p] \in Ended \cup {"applied"}
  /\ stage' = [stage EXCEPT ![p] = "dead"]
  /\ pc' = [pc EXCEPT ![p] = "dead"]
  /\ UNCHANGED <<fileVars, bakVars, lock, procVars, edits, faults,
                 efi, efiCopy, attempt, digest, configPending, efiPending>>

SBEnvironment ==
  /\ Environment
  /\ IF crashes' # crashes
     THEN /\ stage' = [p \in Procs |-> IF stage[p] \in Running \cup Undoing
                                       THEN "dead" ELSE stage[p]]
          /\ efiCopy' = [p \in Procs |-> Absent]
     ELSE UNCHANGED <<stage, efiCopy>>
  /\ UNCHANGED <<efi, attempt, digest, configPending, efiPending>>

-----------------------------------------------------------------------------
Transaction(p) ==
  \/ OpenTransaction(p) \/ ApplyServiceStep(p) \/ RecordApply(p) \/ ComputeDigest(p)
  \/ StripSignature(p) \/ EnrollDigest(p) \/ SignImage(p) \/ VerifyImage(p) \/ Commit(p)

Failure(p) ==
  \/ ApplyFailed(p) \/ OpenFails(p) \/ ToolFails(p) \/ CommitFails(p)
  \/ UndoConfig(p) \/ UndoConfigFails(p) \/ UndoEfi(p) \/ UndoEfiFails(p) \/ KillUndo(p)

SBNext == (\E p \in Procs : Transaction(p) \/ Failure(p)) \/ SBEnvironment

SBSpec == SBInit /\ [][SBNext]_allVars

-----------------------------------------------------------------------------
(* Properties.                                                             *)

(* The executable accepts the configuration that is in place. *)
InStep == efi.signed /\ efi.digest \in {Absent, target}

(* Types; a transaction rolls back at most three times: by hand and once   *)
(* by each of the two destructors.                                         *)
SBTypeOK ==
  /\ efi \in Images
  /\ efiCopy \in [Procs -> Images \cup {Absent}]
  /\ stage \in [Procs -> Stages]
  /\ attempt \in [Procs -> 0..3]
  /\ digest \in [Procs -> Files \cup {Absent}]
  /\ configPending \in [Procs -> BOOLEAN]
  /\ efiPending \in [Procs -> BOOLEAN]

(***************************************************************************)
(* An apply under Secure Boot that succeeds leaves the new configuration   *)
(* and an executable enrolled for it; one that fails and could roll back   *)
(* leaves the previous configuration and an executable enrolled for that.  *)
(***************************************************************************)
SecureAllOrNothing ==
  [][\A p \in Procs : stage'[p] # stage[p] =>
       /\ stage'[p] = "committed" => /\ efi'.signed /\ efi'.digest = target'
                                     /\ target' = plan[p].generated
       /\ stage'[p] = "rolledback" => \/ InStep' /\ Normalize(target') = plan[p].installed
                                      \/ pc[p] = "rollbackfailed"
                                      \/ plan[p].kind = "create" /\ faults' >= 2]_allVars

AtRest == \A p \in Procs : /\ pc[p] \in Ended \cup {"start"}
                           /\ stage[p] \in {"closed", "committed", "rolledback"}
                           /\ pc[p] # "rollbackfailed"

(***************************************************************************)
(* Whenever no command is running, none was killed and none has reported   *)
(* that its rollback failed, the executable accepts the configuration:     *)
(* configuration and EFI writes are transactional together.                *)
(***************************************************************************)
InStepAtRest ==
  AtRest /\ crashes = 0 => InStep

(***************************************************************************)
(* A transaction is given up only when the destructors have failed as well *)
(* or nothing is left to roll back with, its copy of the executable being  *)
(* removed.  (Were another apply to run, the backup might be pruned too.)  *)
(***************************************************************************)
BrokenOnlyAfterRetries ==
  \A p \in Procs : stage[p] = "broken" => faults >= 3 \/ efiCopy[p] = Absent

(***************************************************************************)
(* The way back exists at every moment of a running transaction: if the    *)
(* executable does not accept the configuration, a copy of it is kept that *)
(* is signed, and the configuration it accepts is in place or in a backup. *)
(***************************************************************************)
WayBack ==
  \A p \in Procs : stage[p] \in Running =>
    \/ InStep
    \/ /\ efiCopy[p] # Absent /\ efiCopy[p].signed
       /\ efiCopy[p].digest \in {Absent, target} \/ HeldIn(backups, efiCopy[p].digest)

=============================================================================
