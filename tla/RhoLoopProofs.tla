---------------------------- MODULE RhoLoopProofs ----------------------------
(***************************************************************************)
(* For every ratio Rho and every set of polynomials: when the GPU attempt  *)
(* can only fail before its loop, the numerator is right on every coset    *)
(* and the polynomials are restored exactly.                               *)
(*                                                                         *)
(* The invariant says, at each program counter, on which coset each piece  *)
(* of state is: before iteration k everything is on Before(k), which is    *)
(* the neutral element before the first iteration and CosetOf(k-1) after.  *)
(***************************************************************************)
EXTENDS RhoLoop, TLAPS

\* The coset everything is on when iteration k starts.
Before(k) == IF k = 0 THEN One ELSE CosetOf(k - 1)

\* The table in the scaling vector while iteration k moves the polynomials.
TableOf(k) == IF k = 0 THEN G ELSE W

At(c)     == [p \in Polys |-> c]
Resting(c) == [shift |-> c, factor |-> Unlifted]
Lifted(c)  == [shift |-> c, factor |-> LiftedBy(c)]
FreshExpo(c) == [of |-> c, inverted |-> FALSE]

\* The state both loops rely on when iteration i starts.
Ready == /\ coset = Before(i)
         /\ bp = Resting(Before(i))
         /\ scaling = IF i <= 1 THEN G ELSE W

\* Rows 0 .. k-1 hold their own evaluation.
RowsDone(k) == \A j \in Iterations : j < k => cres[j] = Expected(j)

\* As RowsDone(k), but for row k-1, which its goroutine may still have to
\* write from buf.
RowsUnderway(k) ==
  /\ \A j \in Iterations : j < k => cres[j] = Expected(j) \/ j \in scatter
  /\ \A j \in scatter : j = k - 1 /\ buf = Expected(j)

Untouched == x = At(One) /\ scatter = {} /\ restore = "idle"

TypeInv ==
  /\ i \in 0 .. Rho
  /\ cres = [k \in Iterations |-> cres[k]]
  /\ scatter \subseteq Iterations
  /\ fetched \subseteq Polys

GpuInv ==
  /\ pc = "gpu.setup" => i = 0 /\ Ready /\ Untouched /\ fetched = {}
  /\ pc = "gpu.coset" =>
       i < Rho /\ Ready /\ Untouched /\ fetched = {} /\ dx = At(Before(i)) /\ RowsDone(i)
  /\ pc \in {"gpu.lift", "gpu.kernels", "gpu.unlift"} =>
       /\ i < Rho /\ Untouched /\ fetched = {} /\ coset = CosetOf(i)
       /\ expo = FreshExpo(coset) /\ denoms = coset
  /\ pc = "gpu.lift" =>
       /\ bp = Resting(Before(i)) /\ scaling = IF i <= 1 THEN G ELSE W
       /\ dx = At(Before(i)) /\ RowsDone(i)
  /\ pc = "gpu.kernels" =>
       /\ bp = Lifted(coset) /\ scaling = TableOf(i)
       /\ dx = At(Before(i)) /\ RowsDone(i)
  /\ pc = "gpu.unlift" =>
       bp = Lifted(coset) /\ scaling = TableOf(i) /\ dx = At(coset) /\ RowsDone(i + 1)
  /\ pc = "gpu.cres" =>
       /\ i = Rho /\ Ready /\ Untouched /\ fetched = {}
       /\ dx = At(Before(Rho)) /\ RowsDone(Rho)
  /\ pc = "gpu.polys" =>
       /\ i = Rho /\ Ready /\ dx = At(Before(Rho)) /\ RowsDone(Rho)
       /\ x \in [Polys -> {One, Before(Rho)}]
       /\ \A p \in fetched : x[p] = Before(Rho)
       /\ scatter = {} /\ restore = "idle"

CpuInv ==
  /\ pc = "cpu" => Ready /\ x = At(Before(i)) /\ RowsUnderway(i) /\ restore = "idle"
  /\ pc \in {"cpu.evaluate", "cpu.spawn"} =>
       /\ i < Rho /\ coset = CosetOf(i) /\ expo = FreshExpo(coset) /\ denoms = coset
       /\ bp = Lifted(coset) /\ scaling = TableOf(i) /\ x = At(coset)
       /\ restore = "idle"
  /\ pc = "cpu.evaluate" => RowsUnderway(i)
  /\ pc = "cpu.spawn" => scatter = {} /\ RowsDone(i) /\ buf = Expected(i)

EndInv ==
  /\ pc = "restore" => restore = "idle"
  /\ pc = "error" => restore = "idle"
  /\ pc \in {"restore", "wait"} => RowsUnderway(Rho)
  /\ pc \in {"wait", "returned"} => restore # "idle"
  /\ pc = "restore" \/ restore = "run" =>
       x = At(Before(Rho)) /\ bp = Resting(Before(Rho))
  /\ pc = "returned" => scatter = {} /\ RowsDone(Rho)
  /\ restore \in {"idle", "run", "done"}
  /\ restore # "idle" => pc \in {"wait", "returned"}
  /\ restore = "done" => RestoredExactly

IInv == TypeInv /\ GpuInv /\ CpuInv /\ EndInv
-------------------------------------------------------------------------------
(* Arithmetic of the cosets.                                               *)

\* The shifter of iteration k takes the coset before it to coset k, where the
\* next iteration starts.
LEMMA MoveLemma ==
  ASSUME NEW k \in Iterations
  PROVE  /\ Mul(Before(k), Shifter(k)) = CosetOf(k)
         /\ Mul(Before(k), TableOf(k)) = CosetOf(k)
         /\ CosetOf(k) = Before(k + 1)
         /\ k + 1 \in 0 .. Rho
BY RhoAssumption DEF Iterations, Mul, Before, Shifter, TableOf, CosetOf, One, G, W

\* The restoring goroutine's factor undoes all Rho shifters.
LEMMA InverseLemma == Mul(Before(Rho), InverseOfAll) = One
BY RhoAssumption DEF Mul, Before, CosetOf, InverseOfAll, One

\* One pass over the arrays takes all of them to the next coset.
LEMMA MoveAllLemma ==
  ASSUME NEW c, NEW s
  PROVE  MoveAll(At(c), s) = At(Mul(c, s))
BY DEF MoveAll, At

\* The scaling vector holds the table iteration k needs, given the one that
\* was there before it.
LEMMA ScalingLemma ==
  ASSUME NEW k \in Iterations, scaling = IF k <= 1 THEN G ELSE W
  PROVE  /\ ScalingAt(k) = TableOf(k)
         /\ TableOf(k) = IF k + 1 <= 1 THEN G ELSE W
BY RhoAssumption DEF Iterations, ScalingAt, TableOf

\* Lifting and unlifting by the same coset are inverse to one another.
LEMMA LiftLemma ==
  ASSUME NEW c
  PROVE  /\ Lift(Unlifted, c) = LiftedBy(c)
         /\ Unlift(LiftedBy(c), c) = Unlifted
BY DEF Lift, Unlift

-------------------------------------------------------------------------------
LEMMA InitInv == Init => IInv
<1> SUFFICES ASSUME Init PROVE IInv
  OBVIOUS
<1>1. TypeInv
  BY RhoAssumption DEF Init, TypeInv, Iterations
<1>2. GpuInv
  BY DEF Init, GpuInv, Ready, Untouched, Before, At, Resting
<1>3. CpuInv /\ EndInv
  BY DEF Init, CpuInv, EndInv
<1> QED  BY <1>1, <1>2, <1>3 DEF IInv
-------------------------------------------------------------------------------
(* Each step of the GPU attempt.                                           *)

SetupOnlyFails == GpuFailures \subseteq {"setup"}

LEMMA GpuSetupInv == IInv /\ SetupOnlyFails /\ (SkipGpu \/ GpuSetup) => IInv'
<1> SUFFICES ASSUME IInv, SetupOnlyFails, SkipGpu \/ GpuSetup PROVE IInv'
  OBVIOUS
<1> USE RhoAssumption DEF IInv
<1>1. /\ pc = "gpu.setup" /\ i = 0 /\ Ready /\ Untouched /\ fetched = {}
      /\ i' = 0 /\ UNCHANGED <<coset, expo, bp, scaling, denoms, x, fetched, buf, cres,
                               scatter, restore>>
      /\ \/ pc' = "cpu"
         \/ pc' = "gpu.coset" /\ dx' = x
  BY DEF SkipGpu, GpuSetup, FallBack, host, GpuInv, Ready
<1>2. TypeInv'
  BY <1>1 DEF TypeInv, Iterations
<1>3. Ready' /\ x' = At(Before(i')) /\ RowsDone(i)' /\ RowsUnderway(i)'
  BY <1>1 DEF Ready, Untouched, Before, RowsDone, RowsUnderway, Iterations
<1>4. GpuInv'
  BY <1>1, <1>3 DEF GpuInv, Untouched
<1>5. CpuInv'
  BY <1>1, <1>3 DEF CpuInv, Untouched
<1>6. EndInv'
  BY <1>1 DEF EndInv, Untouched
<1> QED  BY <1>2, <1>4, <1>5, <1>6

LEMMA GpuCosetInv == IInv /\ SetupOnlyFails /\ GpuCoset => IInv'
<1> SUFFICES ASSUME IInv, SetupOnlyFails, GpuCoset PROVE IInv'
  OBVIOUS
<1> USE DEF IInv
<1>1. /\ pc = "gpu.coset" /\ i \in Iterations /\ Ready /\ Untouched /\ fetched = {}
      /\ dx = At(Before(i)) /\ RowsDone(i)
      /\ UNCHANGED <<i, bp, scaling, x, dx, fetched, buf, cres, scatter, restore>>
      /\ pc' = "gpu.lift" /\ MoveCoset /\ denoms' = coset'
  BY RhoAssumption DEF GpuCoset, FallBack, SetupOnlyFails, GpuInv, TypeInv, Iterations
<1>2. coset' = CosetOf(i) /\ expo' = FreshExpo(coset')
  BY <1>1, MoveLemma DEF MoveCoset, Ready, FreshExpo
<1>3. TypeInv'
  BY <1>1 DEF TypeInv
<1>4. GpuInv'
  BY <1>1, <1>2, RhoAssumption
  DEF GpuInv, Ready, Untouched, RowsDone, Iterations
<1>5. CpuInv' /\ EndInv'
  BY <1>1 DEF CpuInv, EndInv, Untouched
<1> QED  BY <1>3, <1>4, <1>5

LEMMA GpuLiftInv == IInv /\ SetupOnlyFails /\ GpuLift => IInv'
<1> SUFFICES ASSUME IInv, SetupOnlyFails, GpuLift PROVE IInv'
  OBVIOUS
<1> USE DEF IInv
<1>1. /\ pc = "gpu.lift" /\ i \in Iterations /\ Untouched /\ fetched = {}
      /\ coset = CosetOf(i) /\ expo = FreshExpo(coset) /\ denoms = coset
      /\ bp = Resting(Before(i)) /\ scaling = IF i <= 1 THEN G ELSE W
      /\ dx = At(Before(i)) /\ RowsDone(i)
      /\ UNCHANGED <<i, coset, expo, denoms, x, dx, fetched, buf, cres, scatter, restore>>
      /\ pc' = "gpu.kernels" /\ LiftBlinding /\ scaling' = ScalingAt(i)
  BY RhoAssumption DEF GpuLift, FallBack, SetupOnlyFails, GpuInv, TypeInv, Iterations
<1>2. bp' = Lifted(coset')
  BY <1>1, MoveLemma, LiftLemma DEF LiftBlinding, Resting, Lifted
<1>3. scaling' = TableOf(i)
  BY <1>1, ScalingLemma
<1>4. TypeInv'
  BY <1>1 DEF TypeInv
<1>5. GpuInv'
  BY <1>1, <1>2, <1>3, RhoAssumption
  DEF GpuInv, Untouched, RowsDone, Iterations
<1>6. CpuInv' /\ EndInv'
  BY <1>1 DEF CpuInv, EndInv, Untouched
<1> QED  BY <1>4, <1>5, <1>6

LEMMA GpuKernelsInv == IInv /\ SetupOnlyFails /\ GpuKernels => IInv'
<1> SUFFICES ASSUME IInv, SetupOnlyFails, GpuKernels PROVE IInv'
  OBVIOUS
<1> USE DEF IInv
<1>1. /\ pc = "gpu.kernels" /\ i \in Iterations /\ Untouched /\ fetched = {}
      /\ coset = CosetOf(i) /\ expo = FreshExpo(coset) /\ denoms = coset
      /\ bp = Lifted(coset) /\ scaling = TableOf(i)
      /\ dx = At(Before(i)) /\ RowsDone(i)
      /\ UNCHANGED <<i, coset, expo, bp, scaling, denoms, x, fetched, buf, scatter, restore>>
      /\ pc' = "gpu.unlift"
      /\ dx' = MoveAll(dx, scaling)
      /\ cres' = [cres EXCEPT ![i] = Evaluation(dx')]
  BY RhoAssumption DEF GpuKernels, FallBack, SetupOnlyFails, GpuInv, TypeInv, Iterations, host
<1>2. dx' = At(CosetOf(i))
  BY <1>1, MoveAllLemma, MoveLemma
<1>3. Evaluation(dx') = Expected(i)
  BY <1>1, <1>2 DEF Evaluation, Expected, FreshExpo, Lifted, At
<1>4. cres = [k \in Iterations |-> cres[k]]
  BY DEF TypeInv
<1>5. TypeInv'
  BY <1>1, <1>4 DEF TypeInv
<1>6. RowsDone(i + 1)'
  BY <1>1, <1>3, <1>4, RhoAssumption DEF RowsDone, Iterations
<1>7. GpuInv'
  BY <1>1, <1>2, <1>6, RhoAssumption DEF GpuInv, Untouched, Iterations
<1>8. CpuInv' /\ EndInv'
  BY <1>1 DEF CpuInv, EndInv, Untouched
<1> QED  BY <1>5, <1>7, <1>8

LEMMA GpuUnliftInv == IInv /\ GpuUnlift => IInv'
<1> SUFFICES ASSUME IInv, GpuUnlift PROVE IInv'
  OBVIOUS
<1> USE DEF IInv
<1>1. /\ pc = "gpu.unlift" /\ i \in Iterations /\ Untouched /\ fetched = {}
      /\ coset = CosetOf(i)
      /\ bp = Lifted(coset) /\ scaling = TableOf(i)
      /\ dx = At(coset) /\ RowsDone(i + 1)
      /\ UNCHANGED <<coset, scaling, x, dx, fetched, buf, cres, scatter, restore>>
      /\ UnliftBlinding /\ i' = i + 1
      /\ pc' = IF i + 1 = Rho THEN "gpu.cres" ELSE "gpu.coset"
  BY RhoAssumption DEF GpuUnlift, GpuInv, TypeInv, Iterations
<1>2. bp' = Resting(Before(i'))
  BY <1>1, MoveLemma, LiftLemma DEF UnliftBlinding, Resting, Lifted
<1>3. Ready'
  BY <1>1, <1>2, MoveLemma, RhoAssumption DEF Ready, TableOf, Iterations
<1>4. TypeInv'
  BY <1>1, MoveLemma DEF TypeInv
<1>5. RowsDone(i)' /\ dx' = At(Before(i')) /\ Untouched'
  BY <1>1, MoveLemma DEF RowsDone, Untouched
<1>6. GpuInv'
  BY <1>1, <1>3, <1>5, RhoAssumption DEF GpuInv, Iterations
<1>7. CpuInv' /\ EndInv'
  BY <1>1, <1>5 DEF CpuInv, EndInv, Untouched
<1> QED  BY <1>4, <1>6, <1>7

LEMMA GpuDownloadInv ==
  IInv /\ SetupOnlyFails /\ (GpuDownloadCres \/ GpuDownloadPoly) => IInv'
<1> SUFFICES ASSUME IInv, SetupOnlyFails, GpuDownloadCres \/ GpuDownloadPoly
             PROVE  IInv'
  OBVIOUS
<1> USE DEF IInv
<1>1. CASE GpuDownloadCres
  <2>1. /\ pc = "gpu.cres" /\ i = Rho /\ Ready /\ Untouched /\ fetched = {}
        /\ dx = At(Before(Rho)) /\ RowsDone(Rho)
        /\ pc' = "gpu.polys"
        /\ UNCHANGED <<i, coset, expo, bp, scaling, denoms, x, dx, fetched, buf, cres,
                       scatter, restore>>
    BY <1>1 DEF GpuDownloadCres, FallBack, SetupOnlyFails, GpuInv, host
  <2>2. x \in [Polys -> {One, Before(Rho)}]
    BY <2>1 DEF Untouched, At
  <2>3. TypeInv'
    BY <2>1 DEF TypeInv
  <2>4. GpuInv'
    BY <2>1, <2>2 DEF GpuInv, Untouched, Ready, RowsDone
  <2>5. CpuInv' /\ EndInv'
    BY <2>1 DEF CpuInv, EndInv, Untouched
  <2> QED  BY <2>3, <2>4, <2>5
<1>2. CASE GpuDownloadPoly
  <2>1. /\ pc = "gpu.polys" /\ i = Rho /\ Ready /\ dx = At(Before(Rho)) /\ RowsDone(Rho)
        /\ x \in [Polys -> {One, Before(Rho)}]
        /\ \A p \in fetched : x[p] = Before(Rho)
        /\ scatter = {} /\ restore = "idle"
        /\ UNCHANGED <<i, coset, expo, bp, scaling, denoms, dx, buf, cres, scatter, restore>>
    BY <1>2 DEF GpuDownloadPoly, FallBack, SetupOnlyFails, GpuInv, host
  <2>2. CASE fetched = Polys /\ pc' = "restore" /\ UNCHANGED <<x, fetched>>
    <3>1. x = At(Before(Rho))
      BY <2>1, <2>2 DEF At
    <3>2. RowsUnderway(Rho)'
      BY <2>1, <2>2 DEF RowsDone, RowsUnderway
    <3>3. TypeInv' /\ GpuInv' /\ CpuInv'
      BY <2>1, <2>2 DEF TypeInv, GpuInv, CpuInv
    <3>4. EndInv'
      BY <2>1, <2>2, <3>1, <3>2 DEF EndInv, Ready
    <3> QED  BY <3>3, <3>4
  <2>3. ASSUME NEW p \in Polys \ fetched, pc' = pc,
               x' = [x EXCEPT ![p] = dx[p]], fetched' = fetched \cup {p}
        PROVE  IInv'
    <3>1. /\ x' \in [Polys -> {One, Before(Rho)}]
          /\ \A q \in fetched' : x'[q] = Before(Rho)
      BY <2>1, <2>3 DEF At, TypeInv
    <3>2. TypeInv'
      BY <2>1, <2>3 DEF TypeInv
    <3>3. GpuInv'
      BY <2>1, <2>3, <3>1 DEF GpuInv, Ready, RowsDone
    <3>4. CpuInv' /\ EndInv'
      BY <2>1, <2>3 DEF CpuInv, EndInv
    <3> QED  BY <3>2, <3>3, <3>4
  <2> QED  BY <1>2, <2>2, <2>3 DEF GpuDownloadPoly, FallBack, SetupOnlyFails
<1> QED  BY <1>1, <1>2
-------------------------------------------------------------------------------
(* Each step of the CPU loop.                                              *)

LEMMA CpuMoveInv == IInv /\ CpuMove => IInv'
<1> SUFFICES ASSUME IInv, CpuMove PROVE IInv'
  OBVIOUS
<1> USE DEF IInv
<1>1. /\ pc = "cpu" /\ i \in Iterations /\ Ready /\ x = At(Before(i))
      /\ RowsUnderway(i) /\ restore = "idle"
      /\ UNCHANGED <<i, fetched, buf, cres, scatter, restore>>
      /\ pc' = "cpu.evaluate" /\ MoveCoset /\ denoms' = coset'
      /\ bp' = [shift |-> Mul(bp.shift, Shifter(i)), factor |-> Lift(bp.factor, coset')]
      /\ scaling' = ScalingAt(i) /\ x' = MoveAll(x, scaling')
  BY RhoAssumption DEF CpuMove, CpuInv, TypeInv, Iterations
<1>2. coset' = CosetOf(i) /\ expo' = FreshExpo(coset')
  BY <1>1, MoveLemma DEF MoveCoset, Ready, FreshExpo
<1>3. bp' = Lifted(coset')
  BY <1>1, <1>2, MoveLemma, LiftLemma DEF Ready, Resting, Lifted
<1>4. scaling' = TableOf(i)
  BY <1>1, ScalingLemma DEF Ready
<1>5. x' = At(CosetOf(i))
  BY <1>1, <1>4, MoveAllLemma, MoveLemma
<1>6. TypeInv' /\ GpuInv' /\ EndInv'
  BY <1>1 DEF TypeInv, GpuInv, EndInv
<1>7. CpuInv'
  BY <1>1, <1>2, <1>3, <1>4, <1>5, RhoAssumption
  DEF CpuInv, RowsUnderway, Iterations
<1> QED  BY <1>6, <1>7

LEMMA CpuEvaluateInv == IInv /\ CpuEvaluate => IInv'
<1> SUFFICES ASSUME IInv, CpuEvaluate PROVE IInv'
  OBVIOUS
<1> USE DEF IInv
<1>1. /\ pc = "cpu.evaluate" /\ i \in Iterations
      /\ coset = CosetOf(i) /\ expo = FreshExpo(coset) /\ denoms = coset
      /\ bp = Lifted(coset) /\ scaling = TableOf(i) /\ x = At(coset)
      /\ restore = "idle" /\ scatter = {} /\ RowsDone(i)
      /\ UNCHANGED <<i, coset, expo, bp, scaling, denoms, x, fetched, cres, scatter, restore>>
  BY RhoAssumption
  DEF CpuEvaluate, CpuInv, TypeInv, Iterations, RowsUnderway, RowsDone, host
<1>2. \/ pc' = "cpu.spawn" /\ buf' = Evaluation(x)
      \/ pc' = "error"
  BY DEF CpuEvaluate
<1>3. Evaluation(x) = Expected(i)
  BY <1>1 DEF Evaluation, Expected, FreshExpo, Lifted, At
<1>4. TypeInv' /\ GpuInv' /\ EndInv'
  BY <1>1, <1>2 DEF TypeInv, GpuInv, EndInv
<1>5. CpuInv'
  BY <1>1, <1>2, <1>3, RhoAssumption DEF CpuInv, RowsDone, Iterations
<1> QED  BY <1>4, <1>5

LEMMA CpuSpawnInv == IInv /\ CpuSpawn => IInv'
<1> SUFFICES ASSUME IInv, CpuSpawn PROVE IInv'
  OBVIOUS
<1> USE DEF IInv
<1>1. /\ pc = "cpu.spawn" /\ i \in Iterations
      /\ coset = CosetOf(i) /\ bp = Lifted(coset) /\ scaling = TableOf(i)
      /\ x = At(coset) /\ restore = "idle"
      /\ scatter = {} /\ RowsDone(i) /\ buf = Expected(i)
      /\ UNCHANGED <<coset, scaling, x, fetched, buf, cres, restore>>
      /\ scatter' = {i} /\ UnliftBlinding /\ i' = i + 1 /\ pc' = "cpu"
  BY RhoAssumption DEF CpuSpawn, CpuInv, TypeInv, Iterations
<1>2. Ready'
  <2>1. bp' = Resting(Before(i'))
    BY <1>1, MoveLemma, LiftLemma DEF UnliftBlinding, Resting, Lifted
  <2> QED  BY <1>1, <2>1, MoveLemma, RhoAssumption DEF Ready, TableOf, Iterations
<1>3. x' = At(Before(i'))
  BY <1>1, MoveLemma
<1>4. RowsUnderway(i)'
  BY <1>1, RhoAssumption DEF RowsDone, RowsUnderway, Iterations
<1>5. TypeInv'
  BY <1>1, MoveLemma DEF TypeInv
<1>6. GpuInv' /\ EndInv'
  BY <1>1 DEF GpuInv, EndInv
<1>7. CpuInv'
  BY <1>1, <1>2, <1>3, <1>4 DEF CpuInv
<1> QED  BY <1>5, <1>6, <1>7

LEMMA CpuLoopEndsInv == IInv /\ CpuLoopEnds => IInv'
<1> SUFFICES ASSUME IInv, CpuLoopEnds PROVE IInv'
  OBVIOUS
<1> USE DEF IInv
<1>1. /\ pc = "cpu" /\ i = Rho /\ Ready /\ x = At(Before(Rho))
      /\ RowsUnderway(Rho) /\ restore = "idle" /\ pc' = "restore"
      /\ UNCHANGED <<i, bp, x, fetched, buf, cres, scatter, restore>>
  BY DEF CpuLoopEnds, CpuInv, host
<1>2. TypeInv' /\ GpuInv' /\ CpuInv'
  BY <1>1 DEF TypeInv, GpuInv, CpuInv
<1>3. EndInv'
  BY <1>1 DEF EndInv, Ready, RowsUnderway
<1> QED  BY <1>2, <1>3

\* A scatter goroutine writes the rows of the iteration just before, from a
\* buf that still holds that iteration's evaluation.
LEMMA ScatterInv == ASSUME NEW k \in Iterations PROVE IInv /\ Scatter(k) => IInv'
<1> SUFFICES ASSUME IInv, Scatter(k) PROVE IInv'
  OBVIOUS
<1> USE DEF IInv
<1>1. /\ k \in scatter /\ cres' = [cres EXCEPT ![k] = buf] /\ scatter' = scatter \ {k}
      /\ UNCHANGED <<pc, i, coset, expo, bp, scaling, denoms, x, dx, fetched, buf, restore>>
      /\ cres = [j \in Iterations |-> cres[j]]
  BY DEF Scatter, TypeInv, host
<1>2. ASSUME NEW m, RowsUnderway(m) PROVE RowsUnderway(m)'
  BY <1>1, <1>2 DEF RowsUnderway
<1>3. TypeInv'
  BY <1>1 DEF TypeInv
<1>4. GpuInv'
  BY <1>1 DEF GpuInv, Untouched
<1>5. CpuInv'
  BY <1>1, <1>2 DEF CpuInv, Ready
<1>6. EndInv'
  BY <1>1, <1>2 DEF EndInv, RestoredExactly
<1> QED  BY <1>3, <1>4, <1>5, <1>6

-------------------------------------------------------------------------------
(* The end of computeNumerator.                                            *)

LEMMA StartRestoreInv == IInv /\ StartRestore => IInv'
BY DEF IInv, StartRestore, TypeInv, GpuInv, CpuInv, EndInv, RowsUnderway, host

LEMMA RestoreInv == IInv /\ Restore => IInv'
<1> SUFFICES ASSUME IInv, Restore PROVE IInv'
  OBVIOUS
<1> USE DEF IInv
<1>1. /\ restore = "run" /\ restore' = "done" /\ pc \in {"wait", "returned"}
      /\ x = At(Before(Rho)) /\ bp = Resting(Before(Rho))
      /\ x' = [p \in Polys |-> IF p = "Qk" THEN x[p] ELSE Mul(x[p], InverseOfAll)]
      /\ bp' = [bp EXCEPT !.shift = Mul(bp.shift, InverseOfAll)]
      /\ UNCHANGED <<pc, i, fetched, buf, cres, scatter>>
  BY DEF Restore, EndInv
<1>2. \A p \in Polys \ {"Qk"} : x'[p] = One
  BY <1>1, InverseLemma DEF At
<1>3. bp' = [shift |-> One, factor |-> Unlifted]
  BY <1>1, InverseLemma DEF Resting
<1>4. RestoredExactly'
  BY <1>2, <1>3 DEF RestoredExactly
<1>5. TypeInv' /\ GpuInv' /\ CpuInv'
  BY <1>1 DEF TypeInv, GpuInv, CpuInv
<1>6. EndInv'
  BY <1>1, <1>4 DEF EndInv, RowsUnderway, RowsDone
<1> QED  BY <1>5, <1>6

LEMMA ReturnNumeratorInv == IInv /\ ReturnNumerator => IInv'
<1> SUFFICES ASSUME IInv, ReturnNumerator PROVE IInv'
  OBVIOUS
<1> USE DEF IInv
<1>1. /\ pc = "wait" /\ pc' = "returned" /\ scatter = {} /\ RowsUnderway(Rho)
      /\ UNCHANGED <<i, coset, expo, bp, x, fetched, buf, cres, scatter, restore>>
  BY DEF ReturnNumerator, EndInv, host
<1>2. RowsDone(Rho)'
  BY <1>1 DEF RowsDone, RowsUnderway
<1>3. TypeInv' /\ GpuInv' /\ CpuInv'
  BY <1>1 DEF TypeInv, GpuInv, CpuInv
<1>4. EndInv'
  BY <1>1, <1>2 DEF EndInv, RestoredExactly
<1> QED  BY <1>3, <1>4

-------------------------------------------------------------------------------
LEMMA StepInv == SetupOnlyFails /\ IInv /\ [Next]_vars => IInv'
<1> SUFFICES ASSUME SetupOnlyFails, IInv, [Next]_vars PROVE IInv'
  OBVIOUS
<1>1. CASE UNCHANGED vars
  BY <1>1 DEF vars, IInv, TypeInv, GpuInv, CpuInv, EndInv, Ready, Untouched, RowsDone,
              RowsUnderway, RestoredExactly
<1>2. CASE SkipGpu \/ GpuSetup           BY <1>2, GpuSetupInv
<1>3. CASE GpuCoset                       BY <1>3, GpuCosetInv
<1>4. CASE GpuLift                        BY <1>4, GpuLiftInv
<1>5. CASE GpuKernels                     BY <1>5, GpuKernelsInv
<1>6. CASE GpuUnlift                      BY <1>6, GpuUnliftInv
<1>7. CASE GpuDownloadCres \/ GpuDownloadPoly  BY <1>7, GpuDownloadInv
<1>8. CASE CpuMove                        BY <1>8, CpuMoveInv
<1>9. CASE CpuEvaluate                    BY <1>9, CpuEvaluateInv
<1>10. CASE CpuSpawn                      BY <1>10, CpuSpawnInv
<1>11. CASE CpuLoopEnds                   BY <1>11, CpuLoopEndsInv
<1>12. CASE StartRestore                  BY <1>12, StartRestoreInv
<1>13. CASE ReturnNumerator               BY <1>13, ReturnNumeratorInv
<1>14. CASE Restore                       BY <1>14, RestoreInv
<1>15. ASSUME NEW k \in Iterations, Scatter(k) PROVE IInv'
  BY <1>15, ScatterInv
<1> QED
  BY <1>1, <1>2, <1>3, <1>4, <1>5, <1>6, <1>7, <1>8, <1>9, <1>10, <1>11, <1>12,
     <1>13, <1>14, <1>15 DEF Next, Loop

\* The invariant holds at every state, for every Rho.
LEMMA Invariance == SetupOnlyFails /\ Spec => []IInv
<1>1. SUFFICES ASSUME SetupOnlyFails PROVE Spec => []IInv
  OBVIOUS
<1>2. IInv /\ [Next]_vars => IInv'
  BY <1>1, StepInv
<1> QED  BY <1>2, InitInv, PTL DEF Spec

\* The numerator that computeNumerator returns holds, in the rows of every
\* coset, the evaluation that belongs to that coset: on the GPU, on the CPU,
\* and on the CPU after a GPU attempt that failed before its loop.
THEOREM NumeratorCorrectThm == SetupOnlyFails /\ Spec => []NumeratorCorrect
<1>1. IInv => NumeratorCorrect
  BY RhoAssumption DEF IInv, EndInv, NumeratorCorrect, RowsDone, Iterations
<1> QED  BY <1>1, Invariance, PTL

\* When the restoring goroutine has ended, the polynomials that stay in s.x
\* and the blinding polynomials are what they were before the loop.
THEOREM RestoredExactlyThm == SetupOnlyFails /\ Spec => []RestoredExactly
<1>1. IInv => RestoredExactly
  BY DEF IInv, EndInv, RestoredExactly
<1> QED  BY <1>1, Invariance, PTL

-------------------------------------------------------------------------------
(* Type correctness, whichever phases of the GPU attempt may fail.         *)

\* TypeOK, and that the loops only work on iterations there are.
Typed ==
  /\ TypeOK
  /\ bp = [shift |-> bp.shift, factor |-> bp.factor]
  /\ pc \in {"gpu.setup", "gpu.coset", "gpu.lift", "gpu.kernels", "gpu.unlift",
             "cpu.evaluate", "cpu.spawn"} => i < Rho

\* The cosets the loop computes with are closed under its products.
LEMMA CosetLemma ==
  /\ One \in Cosets /\ G \in Cosets /\ W \in Cosets /\ InverseOfAll \in Cosets
  /\ \A k : Shifter(k) \in {G, W}
  /\ \A c, d \in Cosets : Mul(c, d) \in Cosets
  /\ \A a \in [Polys -> Cosets], s \in Cosets : MoveAll(a, s) \in [Polys -> Cosets]
<1>1. /\ One \in Cosets /\ G \in Cosets /\ W \in Cosets /\ InverseOfAll \in Cosets
      /\ \A k : Shifter(k) \in {G, W}
      /\ \A c, d \in Cosets : Mul(c, d) \in Cosets
  BY RhoAssumption DEF One, G, W, InverseOfAll, Cosets, Shifter, Mul
<1> QED BY <1>1 DEF MoveAll

\* The GPU attempt, with its error returns.
LEMMA GpuTyped ==
  ASSUME Typed,
         \/ SkipGpu \/ GpuSetup \/ GpuCoset \/ GpuLift \/ GpuKernels \/ GpuUnlift
         \/ GpuDownloadCres \/ GpuDownloadPoly
  PROVE  Typed'
<1> USE RhoAssumption, CosetLemma DEF Typed, TypeOK, Iterations, FallBack
<1>1. CASE SkipGpu
  BY <1>1 DEF SkipGpu, host
<1>2. CASE GpuSetup
  <2>1. UNCHANGED <<coset, expo, bp, denoms, x, fetched, cres, scatter, restore>>
    BY <1>2 DEF GpuSetup, host
  <2>2. /\ i' = 0 \/ i' = i
        /\ scaling' \in {G, W} /\ dx' \in [Polys -> Cosets]
        /\ pc = "gpu.setup" /\ (pc' = "cpu" \/ pc' = "gpu.coset")
    BY <1>2 DEF GpuSetup
  <2> QED BY <2>1, <2>2
<1>3. CASE GpuCoset
  BY <1>3 DEF GpuCoset, MoveCoset
<1>4. CASE GpuLift
  <2>1. Mul(bp.shift, Shifter(i)) \in Cosets
    OBVIOUS
  <2>2. bp' = [shift |-> Mul(bp.shift, Shifter(i)), factor |-> Lift(bp.factor, coset)]
    BY <1>4 DEF GpuLift, LiftBlinding
  <2>3. \/ i' = 0 /\ pc' = "cpu" /\ scaling' = G
        \/ i' = i /\ pc' = "gpu.kernels" /\ scaling' = ScalingAt(i)
    BY <1>4 DEF GpuLift
  <2>4. ScalingAt(i) \in {G, W}
    BY DEF ScalingAt
  <2> QED BY <1>4, <2>1, <2>2, <2>3, <2>4 DEF GpuLift
<1>5. CASE GpuKernels
  BY <1>5 DEF GpuKernels, host
<1>6. CASE GpuUnlift
  <2>1. bp' = [shift |-> bp.shift, factor |-> Unlift(bp.factor, coset)]
    BY <1>6 DEF GpuUnlift, UnliftBlinding
  <2>2. expo' \in [of : Cosets, inverted : BOOLEAN]
    BY <1>6 DEF GpuUnlift, UnliftBlinding
  <2>3. i' \in 0 .. Rho /\ (pc' = "gpu.coset" => i' < Rho) /\ pc' \in {"gpu.coset", "gpu.cres"}
    BY <1>6 DEF GpuUnlift
  <2> QED BY <1>6, <2>1, <2>2, <2>3 DEF GpuUnlift
<1>7. CASE GpuDownloadCres
  <2>1. /\ UNCHANGED <<coset, expo, bp, denoms, x, dx, fetched, cres, scatter, restore>>
        /\ i' = 0 \/ i' = i
        /\ scaling' \in {G, W} /\ pc' \in {"cpu", "gpu.polys"}
    BY <1>7 DEF GpuDownloadCres, host
  <2> QED BY <2>1
<1>8. CASE GpuDownloadPoly
  <2>1. /\ UNCHANGED <<coset, expo, bp, denoms, dx, cres, scatter, restore>>
        /\ i' = 0 \/ i' = i
        /\ scaling' \in {G, W} /\ pc' \in {"cpu", "gpu.polys", "restore"}
        /\ fetched' \subseteq Polys
    BY <1>8 DEF GpuDownloadPoly, host
  <2>2. x' \in [Polys -> Cosets]
    BY <1>8 DEF GpuDownloadPoly
  <2> QED BY <2>1, <2>2
<1> QED BY <1>1, <1>2, <1>3, <1>4, <1>5, <1>6, <1>7, <1>8

\* The CPU loop and the goroutines.
LEMMA CpuTyped ==
  ASSUME Typed,
         \/ CpuMove \/ CpuEvaluate \/ CpuSpawn \/ CpuLoopEnds
         \/ StartRestore \/ ReturnNumerator \/ Restore \/ \E k \in Iterations : Scatter(k)
  PROVE  Typed'
<1> USE RhoAssumption, CosetLemma DEF Typed, TypeOK, Iterations
<1>1. CASE CpuMove
  <2>1. scaling' \in {G, W}
    BY <1>1 DEF CpuMove, ScalingAt
  <2>2. coset' \in Cosets /\ bp'.shift \in Cosets
    BY <1>1 DEF CpuMove, MoveCoset
  <2>3. x' \in [Polys -> Cosets]
    BY <1>1, <2>1 DEF CpuMove
  <2> QED BY <1>1, <2>1, <2>2, <2>3 DEF CpuMove, MoveCoset
<1>2. CASE CpuEvaluate \/ CpuLoopEnds \/ StartRestore \/ ReturnNumerator
  BY <1>2 DEF CpuEvaluate, CpuLoopEnds, StartRestore, ReturnNumerator, host
<1>3. CASE CpuSpawn
  <2>1. bp' = [shift |-> bp.shift, factor |-> Unlift(bp.factor, coset)]
    BY <1>3 DEF CpuSpawn, UnliftBlinding
  <2>2. expo' \in [of : Cosets, inverted : BOOLEAN]
    BY <1>3 DEF CpuSpawn, UnliftBlinding
  <2>3. i' \in 0 .. Rho /\ scatter' \subseteq Iterations /\ pc' = "cpu"
    BY <1>3 DEF CpuSpawn
  <2> QED BY <1>3, <2>1, <2>2, <2>3 DEF CpuSpawn
<1>4. CASE \E k \in Iterations : Scatter(k)
  BY <1>4 DEF Scatter, host
<1>5. CASE Restore
  BY <1>5 DEF Restore
<1> QED BY <1>1, <1>2, <1>3, <1>4, <1>5

\* Every coset the code computes with is one of Cosets and every counter is in
\* its range, on the GPU, on the CPU, and on the CPU after a failed attempt.
THEOREM TypeOKThm == Spec => []TypeOK
<1>1. Init => Typed
  BY RhoAssumption, CosetLemma DEF Init, Typed, TypeOK, Iterations
<1>2. Typed /\ [Next]_vars => Typed'
  <2>1. CASE UNCHANGED vars
    BY <2>1 DEF vars, host, Typed, TypeOK
  <2> QED BY <2>1, GpuTyped, CpuTyped DEF Next, Loop
<1> QED BY <1>1, <1>2, PTL DEF Spec, Typed
=============================================================================
