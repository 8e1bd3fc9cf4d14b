------------------------------ MODULE MCRhoLoop ------------------------------
(***************************************************************************)
(* RhoLoop on the ratios the prover uses (4, and 8 for systems of fewer    *)
(* than 6 constraints) and on four arrays: Z, which ZS shares, Qk, which   *)
(* leaves s.x before the restoration, and two that stay.                   *)
(***************************************************************************)
EXTENDS RhoLoop

SomePolys  == {"Z", "Qk", "L", "S1"}
SetupOnly  == {"setup"}
AllPhases  == {"setup", "loop", "download"}
=============================================================================
