---------------------------- MODULE MCBatchInvert ----------------------------
(***************************************************************************)
(* BatchInvert over the nonzero residues modulo 5, with a threshold of 3   *)
(* in the place of 1 << 16.                                                *)
(***************************************************************************)
EXTENDS BatchInvert

P         == 5
Units     == 1 .. P - 1
MulP(a, b) == (a * b) % P
InvP(a)   == CHOOSE b \in Units : MulP(a, b) = 1
SomeCPUs  == 1 .. 4
UpToFive  == 0 .. 5
==============================================================================
