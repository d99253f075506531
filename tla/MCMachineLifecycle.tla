------------------------- MODULE MCMachineLifecycle -------------------------
(* Model values are given in the .cfg files.  No symmetry is declared: the *)
(* runs of FairSpec check liveness, for which TLC's reduction is unsound.  *)
EXTENDS MachineLifecycle
=============================================================================
