--------------------------- MODULE MCInputPipeline ---------------------------
(* Small instances of InputPipeline for TLC. *)
EXTENDS InputPipeline, TLC

\* Clients are only compared for equality.
Symmetry == Permutations(Clients)
=============================================================================
