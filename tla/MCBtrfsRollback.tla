--------------------------- MODULE MCBtrfsRollback ---------------------------
(* Instances of BtrfsRollback for TLC. *)
EXTENDS BtrfsRollback, TLC
CONSTANTS p1, p2
=============================================================================
