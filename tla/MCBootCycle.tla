----------------------------- MODULE MCBootCycle -----------------------------
EXTENDS BootCycle, TLC

Symmetry == Permutations(Procs)
=============================================================================
