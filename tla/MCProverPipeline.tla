-------------------------- MODULE MCProverPipeline --------------------------
(***************************************************************************)
(* ProverPipeline with two BSB22 commitments, as model values.       *)
(***************************************************************************)
EXTENDS ProverPipeline

CONSTANTS c1, c2

TwoCommitments == {c1, c2}
=============================================================================
