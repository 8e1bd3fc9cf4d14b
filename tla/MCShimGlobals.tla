---------------------------- MODULE MCShimGlobals ----------------------------
(***************************************************************************)
(* ShimGlobals with the callers of one prover: one that divides by the     *)
(* vanishing polynomial, the only one that uses cosets, and one that takes *)
(* polynomials from one basis to the other and has built the domain for    *)
(* it, as gpuComputeNumeratorRhoLoop does (prove_gpu.go:223); and with two *)
(* callers that both ask for the domain, as those of two provers do.       *)
(***************************************************************************)
EXTENDS ShimGlobals, TLC

CONSTANTS divider, other

BothCallers == {divider, other}
OneCaller   == {divider}
OtherCaller == {other}

Op(order, inverse, coset) == [order |-> order, inverse |-> inverse, coset |-> coset]

Plain == {Op("NN", TRUE, FALSE), Op("NR", TRUE, FALSE), Op("RN", FALSE, FALSE)}

\* Back and forth on the coset in natural order, and back from reversed order.
CosetOps == {Op("NN", FALSE, TRUE), Op("NN", TRUE, TRUE), Op("RN", TRUE, TRUE)}

\* The divider's data come back from the coset in reversed order.
Reorder == {Op("NN", TRUE, FALSE)}

ProverOps  == [c \in BothCallers |-> IF c = divider THEN CosetOps \cup Reorder ELSE Plain]
TwoPlain   == [c \in BothCallers |-> Plain]
ForwardDit == [c \in OneCaller |-> Plain \cup {Op("RN", FALSE, TRUE)}]
DividerOps == [c \in OneCaller |-> CosetOps \cup Reorder]
=============================================================================
