----------------------------- MODULE MCRhoDevice -----------------------------
(***************************************************************************)
(* RhoDevice with four polynomials and a failure possible at every call.   *)
(***************************************************************************)
EXTENDS RhoDevice

SomePolys    == {"Z", "Qk", "L", "S1"}
Everywhere   == {"upload", "setup", "loop", "download"}
=============================================================================
