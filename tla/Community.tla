------------------------------ MODULE Community ------------------------------
(****************************************************************************)
(* The operators of the community modules under names of their own, one for *)
(* all modules that are put together or reasoned about together.            *)
(****************************************************************************)
SX == INSTANCE SequencesExt
FX == INSTANCE FiniteSetsExt
=============================================================================
