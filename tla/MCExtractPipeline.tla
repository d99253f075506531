------------------------- MODULE MCExtractPipeline -------------------------
(* Model values for checking ExtractPipeline. *)
EXTENDS ExtractPipeline, TLC

\* Machines are interchangeable.  (ISO ids are not: the worker picks the least.)
MachineSymmetry == Permutations(Machines)
=============================================================================
