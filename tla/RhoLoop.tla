------------------------------- MODULE RhoLoop -------------------------------
(***************************************************************************)
(* computeNumerator (integration/prove.go) evaluates the constraints on    *)
(* the Rho cosets g*w^0 .. g*w^(Rho-1) of the small domain, one iteration  *)
(* per coset, by moving every polynomial, the blinding polynomials, the    *)
(* coset shifter and the denominators from one coset to the next IN PLACE. *)
(* It first tries the loop on the GPU (prove_gpu.go), which works on the   *)
(* caller's shifter and blinding polynomials, and runs the loop on the CPU *)
(* when that returns an error.  A goroutine then scales everything back.   *)
(*                                                                         *)
(* A coset g^a * w^b is the pair <<a, b>>: g is domain1's multiplicative   *)
(* generator and w its generator.  Different pairs are different field     *)
(* elements wherever the loop can produce them, since no power of g below  *)
(* the field's order lies in the domain.  A polynomial in Lagrange form is *)
(* the pair of the coset its values are on.                                *)
(***************************************************************************)
EXTENDS Integers

CONSTANTS
  Rho,          \* |domain1| / |domain0|
  Polys,        \* the coefficient arrays in s.x; x[ZS] shares the array of Z
  GpuFailures   \* the phases of the GPU attempt in which a call may fail

ASSUME RhoAssumption   == Rho \in Nat \ {0}
ASSUME PolysAssumption == {"Z", "Qk"} \subseteq Polys
ASSUME GpuAssumption   == GpuFailures \subseteq {"setup", "loop", "download"}

VARIABLES
  pc,        \* what computeNumerator executes
  i,         \* the loop counter
  coset,     \* the coset shifter
  expo,      \* cosetExponentiatedToNMinusOne: of which coset, inverted or not
  scaling,   \* the table in scalingVector: the powers of this element
  denoms,    \* precomputedDenominators: of which coset (host or device)
  x,         \* x[p]: the coset the host array of p is on
  bp,        \* the blinding polynomials: coefficient shift, and their factor
  dx,        \* dx[p]: the coset the device array of p is on
  fetched,   \* the arrays the final download has overwritten
  buf,       \* the evaluations of the current iteration
  cres,      \* cres[k]: the evaluations scattered for coset k
  scatter,   \* iterations whose scatter goroutine has not ended
  restore    \* the restoring goroutine: "idle", "run" or "done"

host   == <<coset, expo, bp>>
vars   == <<pc, i, coset, expo, scaling, denoms, x, bp, dx, fetched, buf, cres,
            scatter, restore>>

-------------------------------------------------------------------------------
One       == <<0, 0>>
Mul(c, d) == <<c[1] + d[1], c[2] + d[2]>>
G         == <<1, 0>>
W         == <<0, 1>>
Cosets    == Int \X Int

Iterations == 0 .. Rho - 1

\* shifters[0] is g, every other one is w.
Shifter(k) == IF k = 0 THEN G ELSE W

\* The coset of iteration k, and the inverse of the product of all shifters.
CosetOf(k) == <<1, k>>
\* Faulty: one shifter too many.
InverseOfTooMany == <<-1, -Rho>>

InverseOfAll == <<-1, -(Rho - 1)>>

\* The factor of the blinding polynomials: 1, or c^n - 1 for a coset c; Spoilt
\* is any other product, which no later step of the loop turns back into 1.
Unlifted == [lifted |-> FALSE, by |-> One]
LiftedBy(c) == [lifted |-> TRUE, by |-> c]
Spoilt == [lifted |-> TRUE, by |-> <<"spoilt">>]

Lift(f, c)   == IF f = Unlifted THEN LiftedBy(c) ELSE Spoilt
Unlift(f, c) == IF f = LiftedBy(c) THEN Unlifted ELSE Spoilt

\* What allConstraints uses for the n rows of an iteration over arrays a.
Evaluation(a) == [coset |-> coset, expo |-> expo, denoms |-> denoms,
                  bp |-> bp, x |-> a]

\* The evaluation that belongs to coset k: everything on that coset.
Expected(k) ==
  LET c == CosetOf(k)
  IN  [coset |-> c, expo |-> [of |-> c, inverted |-> FALSE], denoms |-> c,
       bp |-> [shift |-> c, factor |-> LiftedBy(c)], x |-> [p \in Polys |-> c]]

Nothing == [none |-> TRUE]

Init ==
  /\ pc = "gpu.setup"
  /\ i = 0
  /\ coset = One
  /\ expo = [of |-> One, inverted |-> FALSE]
  /\ scaling = G
  /\ denoms = One
  /\ x = [p \in Polys |-> One]
  /\ bp = [shift |-> One, factor |-> Unlifted]
  /\ dx = [p \in Polys |-> One]
  /\ fetched = {}
  /\ buf = Nothing
  /\ cres = [k \in Iterations |-> Nothing]
  /\ scatter = {}
  /\ restore = "idle"

-------------------------------------------------------------------------------
(* The pieces the two loops have in common.                                *)

\* coset *= shifters[i]; cosetExponentiatedToNMinusOne = coset^n - 1.
MoveCoset ==
  /\ coset' = Mul(coset, Shifter(i))
  /\ expo' = [of |-> coset', inverted |-> FALSE]

\* Coefficient j of each blinding polynomial *= (coset^n - 1) * shifters[i]^j.
LiftBlinding ==
  bp' = [shift |-> Mul(bp.shift, Shifter(i)), factor |-> Lift(bp.factor, coset)]

\* The factor is divided out again; the shift by powers stays.
UnliftBlinding ==
  /\ expo' = [expo EXCEPT !.inverted = TRUE]
  /\ bp' = [bp EXCEPT !.factor = Unlift(bp.factor, coset)]

\* Faulty: the coset table is kept for one iteration too many.
ScalingLate(k) == IF k = 2 THEN W ELSE scaling

\* Faulty: the table is multiplied by the powers of w instead of replaced.
ScalingCompound(k) == IF k = 1 THEN Mul(scaling, W) ELSE scaling

\* At iteration 1 the coset table gives way to the powers of w.
ScalingAt(k) == IF k = 1 THEN W ELSE scaling

\* IFFT, scale, FFT on every array once: batchApply skips x[ZS], which shares
\* the array of Z.
MoveAll(arrays, s) == [p \in Polys |-> Mul(arrays[p], s)]

-------------------------------------------------------------------------------
(* The GPU attempt: gpuComputeNumeratorRhoLoop.                            *)

\* The error return.  What the attempt did to the caller's state stays; its
\* tables and the scaling vector were its own.
FallBack(phase) ==
  /\ phase \in GpuFailures
  /\ pc' = "cpu"
  /\ i' = 0
  /\ scaling' = G

\* GNARK_DISABLE_GPU_RHO is set, or a build without GPU support.
SkipGpu ==
  /\ pc = "gpu.setup"
  /\ pc' = "cpu"
  /\ UNCHANGED <<i, host, scaling, denoms, x, dx, fetched, buf, cres, scatter, restore>>

GpuSetup ==
  /\ pc = "gpu.setup"
  /\ \/ /\ pc' = "gpu.coset"
        /\ dx' = x
        /\ UNCHANGED <<i, scaling>>
     \/ /\ FallBack("setup")
        /\ UNCHANGED dx
  /\ UNCHANGED <<host, denoms, x, fetched, buf, cres, scatter, restore>>

\* The shifter moves before the upload and the denominators kernel can fail.
GpuCoset ==
  /\ pc = "gpu.coset"
  /\ MoveCoset
  /\ \/ /\ pc' = "gpu.lift"
        /\ denoms' = coset'
        /\ UNCHANGED <<i, scaling>>
     \/ /\ FallBack("loop")
        /\ UNCHANGED denoms
  /\ UNCHANGED <<x, bp, dx, fetched, buf, cres, scatter, restore>>

\* The blinding polynomials are lifted before the uploads of the scaling
\* vector, of their coefficients and of the challenges can fail.
GpuLift ==
  /\ pc = "gpu.lift"
  /\ LiftBlinding
  /\ \/ /\ pc' = "gpu.kernels"
        /\ scaling' = ScalingAt(i)
        /\ UNCHANGED i
     \/ FallBack("loop")
  /\ UNCHANGED <<coset, expo, denoms, x, dx, fetched, buf, cres, scatter, restore>>

\* PlonkRhoIteration and the scatter into dCres.
GpuKernels ==
  /\ pc = "gpu.kernels"
  /\ \/ /\ pc' = "gpu.unlift"
        /\ dx' = MoveAll(dx, scaling)
        /\ cres' = [cres EXCEPT ![i] = Evaluation(dx')]
        /\ UNCHANGED <<i, scaling>>
     \/ /\ FallBack("loop")
        /\ UNCHANGED <<dx, cres>>
  /\ UNCHANGED <<host, denoms, x, fetched, buf, scatter, restore>>

GpuUnlift ==
  /\ pc = "gpu.unlift"
  /\ UnliftBlinding
  /\ i' = i + 1
  /\ pc' = IF i + 1 = Rho THEN "gpu.cres" ELSE "gpu.coset"
  /\ UNCHANGED <<coset, scaling, denoms, x, dx, fetched, buf, cres, scatter, restore>>

GpuDownloadCres ==
  /\ pc = "gpu.cres"
  /\ \/ /\ pc' = "gpu.polys"
        /\ UNCHANGED <<i, scaling>>
     \/ FallBack("download")
  /\ UNCHANGED <<host, denoms, x, dx, fetched, buf, cres, scatter, restore>>

\* The polynomials are copied back one at a time over the caller's arrays.
GpuDownloadPoly ==
  /\ pc = "gpu.polys"
  /\ \/ \E p \in Polys \ fetched :
          /\ x' = [x EXCEPT ![p] = dx[p]]
          /\ fetched' = fetched \cup {p}
          /\ UNCHANGED <<pc, i, scaling>>
     \/ /\ fetched # Polys
        /\ FallBack("download")
        /\ UNCHANGED <<x, fetched>>
     \/ /\ fetched = Polys
        /\ pc' = "restore"
        /\ UNCHANGED <<i, scaling, x, fetched>>
  /\ UNCHANGED <<host, denoms, dx, buf, cres, scatter, restore>>

-------------------------------------------------------------------------------
(* The CPU loop.                                                           *)

\* Shifter, denominators, blinding polynomials, scaling vector, arrays.
CpuMove ==
  /\ pc = "cpu"
  /\ i < Rho
  /\ MoveCoset
  /\ denoms' = coset'
  /\ bp' = [shift |-> Mul(bp.shift, Shifter(i)), factor |-> Lift(bp.factor, coset')]
  /\ scaling' = ScalingAt(i)
  /\ x' = MoveAll(x, scaling')
  /\ pc' = "cpu.evaluate"
  /\ UNCHANGED <<i, dx, fetched, buf, cres, scatter, restore>>

\* Faulty: no wgBuf.Wait() before buf is reused.
CpuEvaluateNoWait ==
  /\ pc = "cpu.evaluate"
  /\ buf' = Evaluation(x)
  /\ pc' = "cpu.spawn"
  /\ UNCHANGED <<i, host, scaling, denoms, x, dx, fetched, cres, scatter, restore>>

\* wgBuf.Wait(), then iop.Evaluate into buf, which may refuse.
CpuEvaluate ==
  /\ pc = "cpu.evaluate"
  /\ scatter = {}
  /\ \/ /\ buf' = Evaluation(x)
        /\ pc' = "cpu.spawn"
     \/ /\ pc' = "error"
        /\ UNCHANGED buf
  /\ UNCHANGED <<i, host, scaling, denoms, x, dx, fetched, cres, scatter, restore>>

\* The scatter goroutine is started and the loop goes on without it.
CpuSpawn ==
  /\ pc = "cpu.spawn"
  /\ scatter' = scatter \cup {i}
  /\ UnliftBlinding
  /\ i' = i + 1
  /\ pc' = "cpu"
  /\ UNCHANGED <<coset, scaling, denoms, x, dx, fetched, buf, cres, restore>>

CpuLoopEnds ==
  /\ pc = "cpu"
  /\ i = Rho
  /\ pc' = "restore"
  /\ UNCHANGED <<i, host, scaling, denoms, x, dx, fetched, buf, cres, scatter, restore>>

\* Goroutine of iteration k: buf, as it is now, into the rows of coset k.
Scatter(k) ==
  /\ k \in scatter
  /\ cres' = [cres EXCEPT ![k] = buf]
  /\ scatter' = scatter \ {k}
  /\ UNCHANGED <<pc, i, host, scaling, denoms, x, dx, fetched, buf, restore>>

-------------------------------------------------------------------------------
(* The restoring goroutine, and the end of computeNumerator.               *)

\* Faulty: only the CPU loop is followed by a restoration.
StartRestoreCpuOnly ==
  /\ pc = "restore"
  /\ pc' = "wait"
  /\ restore' = IF buf = Nothing THEN "idle" ELSE "run"
  /\ UNCHANGED <<i, host, scaling, denoms, x, dx, fetched, buf, cres, scatter>>

StartRestore ==
  /\ pc = "restore"
  /\ pc' = "wait"
  /\ restore' = "run"
  /\ UNCHANGED <<i, host, scaling, denoms, x, dx, fetched, buf, cres, scatter>>

\* Every array but that of Qk, which left s.x with ZS, and every blinding
\* polynomial, by the powers of the inverse of all shifters.
Restore ==
  /\ restore = "run"
  /\ restore' = "done"
  /\ x' = [p \in Polys |-> IF p = "Qk" THEN x[p] ELSE Mul(x[p], InverseOfAll)]
  /\ bp' = [bp EXCEPT !.shift = Mul(bp.shift, InverseOfAll)]
  /\ UNCHANGED <<pc, i, coset, expo, scaling, denoms, dx, fetched, buf, cres, scatter>>

ReturnNumerator ==
  /\ pc = "wait"
  /\ scatter = {}
  /\ pc' = "returned"
  /\ UNCHANGED <<i, host, scaling, denoms, x, dx, fetched, buf, cres, scatter, restore>>

Loop == \/ SkipGpu \/ GpuSetup \/ GpuCoset \/ GpuLift \/ GpuKernels \/ GpuUnlift
        \/ GpuDownloadCres \/ GpuDownloadPoly
        \/ CpuMove \/ CpuEvaluate \/ CpuSpawn \/ CpuLoopEnds
        \/ StartRestore \/ ReturnNumerator

Next == Loop \/ Restore \/ \E k \in Iterations : Scatter(k)

\* The scheduler runs each goroutine, and device calls return.
Fairness == /\ WF_vars(Loop)
            /\ WF_vars(Restore)
            /\ \A k \in Iterations : WF_vars(Scatter(k))

Spec == Init /\ [][Next]_vars /\ Fairness

-------------------------------------------------------------------------------
(* Properties.                                                             *)

TypeOK ==
  /\ pc \in {"gpu.setup", "gpu.coset", "gpu.lift", "gpu.kernels", "gpu.unlift",
             "gpu.cres", "gpu.polys", "cpu", "cpu.evaluate", "cpu.spawn",
             "restore", "wait", "returned", "error"}
  /\ i \in 0 .. Rho
  /\ coset \in Cosets /\ denoms \in Cosets /\ scaling \in {G, W}
  /\ expo \in [of : Cosets, inverted : BOOLEAN]
  /\ x \in [Polys -> Cosets] /\ dx \in [Polys -> Cosets]
  /\ bp.shift \in Cosets
  /\ fetched \subseteq Polys
  /\ DOMAIN cres = Iterations
  /\ scatter \subseteq Iterations
  /\ restore \in {"idle", "run", "done"}

\* When computeNumerator returns, the rows of every coset k hold the constraint
\* evaluated with all polynomials, the blinding polynomials, the denominators
\* and the shifter on coset k, whichever way the GPU attempt ended, and not
\* the rows of another iteration although buf is reused.
NumeratorCorrect ==
  pc = "returned" => \A k \in Iterations : cres[k] = Expected(k)

\* Once chRestoreLRO is closed the polynomials that stay in s.x and the
\* blinding polynomials are the ones the loop started from, on either path.
RestoredExactly ==
  restore = "done" =>
    /\ \A p \in Polys \ {"Qk"} : x[p] = One
    /\ bp = [shift |-> One, factor |-> Unlifted]

\* computeNumerator returns, and unless it returned an error the restoring
\* goroutine ends, so that the stages waiting for chRestoreLRO go on.
NumeratorEnds == <>(pc = "error" \/ (pc = "returned" /\ restore = "done"))
===============================================================================
