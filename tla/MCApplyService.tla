--------------------------- MODULE MCApplyService ---------------------------
(***************************************************************************)
(* Instances of ApplyService for TLC.  a1 and a2 are apply or refresh, r   *)
(* is restore and c is prune-backups.                                      *)
(***************************************************************************)
EXTENDS ApplyService, TLC

CONSTANTS a1, a2, r, c

RoleOf == [p \in Procs |-> IF p = r THEN "restore" ELSE IF p = c THEN "prune" ELSE "apply"]
OneDir == [p \in Procs |-> "run"]

(* restore uses the built-in directory, the others the configured one. *)
ConfiguredDir == [p \in Procs |-> IF p = r THEN "run" ELSE "configured"]

=============================================================================
