-------------------------- MODULE MCSecureBootApply --------------------------
(***************************************************************************)
(* Instances of SecureBootApply for TLC, with the roles and directories of *)
(* MCApplyService.                                                         *)
(***************************************************************************)
EXTENDS SecureBootApply, TLC

CONSTANTS a1, a2, r, c

RoleOf == [p \in Procs |-> IF p = r THEN "restore" ELSE IF p = c THEN "prune" ELSE "apply"]
OneDir == [p \in Procs |-> "run"]

=============================================================================
