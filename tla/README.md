# A verification development of gnark-cuda

gnark-cuda is a CUDA shim (`src/src/*.cu`, `src/include/*.h`) for the gnark
BLS12-381 PLONK prover, with reference copies of the Go prover files that drive
it (`src/integration/*.go`). This directory holds TLA+ models of its concurrent
and stateful parts, the TLC runs that check them, and proofs checked by TLAPS.

## Inventory

| Component | State | Operations | Interaction | What is hard | What makes it correct |
|---|---|---|---|---|---|
| `Prove` (`prove.go:218-1068`) | `instance`: polynomials `x`, `bp`, `blindedZ`, the proof, the transcript, four challenges, nine channels, one context | nine stage goroutines, and the goroutines they start | channels closed once, an errgroup that cancels the context at the first error | no lock anywhere: every order is a channel, or a chain of channels; polynomials change basis in place; any call may fail while others are at work | no data race, the right basis at each use, Fiat-Shamir order, a returned proof is complete, the returned error is the cause, the call returns and leaves nothing running |
| `computeNumerator` (`prove.go:1072-1364`) and the GPU loop (`prove_gpu.go:193-616`) | coset shifter, its power, scaling table, denominators, `s.x`, `s.bp`, device copies, `buf`, `cres` | the loop over rho cosets (GPU, or CPU), scatter goroutines, the restoring goroutine | called by `computeQuotient`; the restoring goroutine outlives it and closes `chRestoreLRO` | everything moves in place from coset to coset; a buffer is reused under a running goroutine; the GPU attempt shares the caller's state | each coset evaluated with all state on it, exact restoration, on every path |
| Resident context (`proverGPUContext`) | device pointers | - | never assigned: dead at this commit | - | - |
| Quotient division, linearisation, `batchInvert`, blinding (`prove.go:1371-1876`) | none | pure | called by the stages | chunk boundaries, indices, slice aliasing | agree with their definitions |
| NTT domain (`api.cu:185-211`) | `g_ntt_domain_log`, icicle's domain | init, cleanup, transforms | every cgo thread | global check-then-act, release before a rebuild that may fail | a transform runs only on a domain that covers it |
| Coset NTT (`api.cu:264-355`) | generator flag, two global tables | setup, build, scale | every stream | tables rebuilt per call and shared between streams; half an allocation | the table read is the one built for the call |
| Device memory, streams (`api.cu:78-148`) | device and its thread | malloc, free, copies, sync | the Go side | asynchronous use, error returns | every buffer freed once, none read before it is written |
| MSM (`api.cu:421-509`) | host landing buffer | sync and async MSM, marshalling | external Go caller | result used before the stream is synchronised | marshal sees the settled result |
| Vector, ratio, KZG and constraint kernels (`vecops.cu`, `frvec.cu`, `ratio.cu`, `kzg.cu`, `plonk.cu`) | device arrays | pure | launched on a stream | block boundaries, index arithmetic | agree with their definitions |
| Fr arithmetic (`fr.h`) | none | pure | all kernels | carries, reductions | agrees with arithmetic modulo r |
| Timings, tests, build | - | - | - | - | - |

`PROJECT.json` lists the hazards of this code at their lines, with the properties
that would catch them, or the reason why none does.

## Plan

| | Modules | Status |
|---|---|---|
| A | `ProverPipeline`, refined to the abstract `PlonkProtocol`; `ProverPipelineProofs` | checked; every safety property proved, and the safety part of the refinement |
| B | `RhoLoop`; `RhoLoopProofs` | checked; proved for failures before the loop |
| C | `ShimGlobals`: the NTT domain and the coset tables under several threads and streams; `ShimGlobalsProofs` | checked; every property proved, for the configurations of one prover |
| D | `RhoDevice`: buffers, error returns and the asynchronous stream of the GPU loop, refined to the GPU part of `RhoLoop`; `RhoDeviceProofs` | checked; every property proved, the refinement included |
| E | `PrimeField`, `DeviceKernels`, `PlonkAlgebra`: the values of a proof and of the other kernels; `DeviceKernelsProofs`, `PlonkAlgebraProofs`, `PlonkVerifierProofs`; `BatchInvert`, `BatchInvertProofs` | checked; every property proved, but that `batchInvert` returns |

A comes first because every other part runs inside it; B because its state is
the longest-lived and the most often rewritten. D says the asynchronous device
may be seen as B sees it, and E computes in the order A establishes: `PlonkAlgebra`
has the values and no interleaving, `ProverPipeline` the interleavings and no
values, and `FormsReady` and `NoRace` are what allows the separation. Every safety property
of every run is proved; what is left to TLC is liveness, and what the theorems assume
that the runs do not.

## The modules

### PlonkProtocol

What one call of `Prove` promises, with no goroutine in it: `sent` (the proof
parts), `hinted` (BSB22 commitments), `derived` (challenges) and `outcome`. A
message may be produced only from challenges that are fixed, a challenge drawn
only when what it binds has been produced, and nothing changes afterwards. The
call ends, with a proof only when all of it is good.

### ProverPipeline

One label per piece of code between two points where a stage waits, can fail or
starts goroutines. `stage[s]` is the code the goroutine of stage `s` is running;
the action that leaves a label has all the effects of that code. Two labels at
the same time are two pieces of code running at the same time, which is why
`NoRace` is a statement about labels and footprints.

| Model | Code |
|---|---|
| `stage` | the nine `g.Go` closures of `Prove`; sub-calls (`commitToLRO`, `computeNumerator`, ...) are labels of the stage that makes them |
| `task` | the goroutines of `commitToLRO`, `commitToQuotient`, `computeLinearizedPolynomial` and the restoring goroutine |
| `closed` | the nine `chan struct{}`, closed once |
| `firstErr`, `CtxDone` | the errgroup's error; the context is cancelled by the first one |
| `Select(a)` | a `select` on one channel and `ctx.Done()`; when both are ready either is taken |
| `proof`, `hinted`, `derived` | `s.proof`, `Bsb22Commitments`, the transcript |
| `form` | the basis (and scaling) each polynomial is in |
| `Error`, the second disjuncts | the error returns |

Field values are abstracted to that. A hint is one step; the two goroutines
inside `solveConstraints` and the two inside the evaluations only split
independent work and join before the code goes on, so they are part of their
caller's label. The footprints (`StageReads`, `StageWrites`, ...) are the model's
reading of the source, label by label. `solve` writes the wires and the committed
polynomials as one footprint although its writes are spread over the code.

`chZ` is closed before the error of the commitment to `Z` is looked at (`prove.go:839`),
against the comment at `prove.go:737`; `ProofIsComplete` and `ErrorIsTheCause` show
that the call ends right all the same.

Two dead paths are left as the code has them: after `spr.Solve` accepted the
witness, `commitToLRO` cannot find it of another type.

### RhoLoop

A coset `g^a w^b` is the pair `<<a, b>>`, a polynomial in Lagrange form is the
coset its values are on, the blinding polynomials are their coefficient shift and
the factor `c^n - 1` they are multiplied by. `Evaluation` records what
`allConstraints` used for the rows of an iteration, so that a row is right when
every ingredient was on its coset (`Expected`).

| Model | Code |
|---|---|
| `Gpu...` | `gpuComputeNumeratorRhoLoop`, cut where it can return an error |
| `Cpu...`, `Scatter(k)` | the loop of `computeNumerator` and its goroutines |
| `FallBack` | the error return: the caller's `coset`, `cosetExponentiatedToNMinusOne`, `s.bp` and `s.x` stay as the attempt left them |
| `Restore` | the goroutine that scales everything back and closes `chRestoreLRO` |

The device is one copy of the arrays (`dx`); kernels and copies of one iteration
are one step. That the code may be seen so is what `RhoDevice` shows.

### RhoDevice

`gpuComputeNumeratorRhoLoop` again, with the device it drives.

| Model | Code |
|---|---|
| `mem` | each device buffer and the stream: not allocated, live, freed, or broken by a free it was not due |
| `held`, `Pointer` | `dPolys`, in which the entry `ZS` is the pointer of `Z` |
| `owed` | the deferred calls, the latest last; `Unwind` runs one |
| `queue`, `EndKernel` | the kernels on the stream; one takes effect when it ends |
| `Copies` | the buffers the host copies to or from at this label (copies do not wait for the stream) |
| `UploadPoly` ... `AllocateMeta` | `gpuUploadPolys` and the allocations, each malloc and copy with its error return |
| `MoveCoset` ... `DownloadPoly` | the loop and the downloads, cut at each launch and wait |
| `before` | history variable for `Refinement`: where the arrays were at the last iteration boundary |

Assumed of what is outside: freeing device memory waits for kernels that use it
(`cudaFree` synchronises), `PlonkRhoIteration` waits for its stream, and the stream
wait before the downloads succeeds (its result is not looked at).

### BatchInvert

`batchInvert` over an abstract group: the nonzero field elements, `Mul` and `Inv`
are constants with the group laws as their assumption. `at` and `accs` are the
loop variables of the chunk goroutines, one multiplication a step, so that the
goroutines of a round interleave entry by entry; `input` remembers the vector.

### PrimeField, DeviceKernels, PlonkAlgebra

`PlonkAlgebra` computes a whole proof, stage by stage, over the integers modulo a
small prime (`PrimeField`): `newInstance`'s domains and trace, the hints and the
public values they fix, the wire and `Z` commitments with their blinding, the rho
loop on either path with its lifting and restoring, the division by `X^n - 1`, the
shards with and without statistical zero knowledge, the linearised polynomial and
the openings. A polynomial is a function on its indices, as the code's slices are;
`ToCanonical` and `ToLagrange` change the form and not the polynomial. A curve point
is kept as its discrete logarithm, so a commitment is the value at `Tau`.
`s.spare` is a choice of the model: whether the slice that is blinded has
room, in which case `append` writes into it (the capacity comes from gnark's code).

`DeviceKernels` has the kernels the shim offers for the other stages, thread by
thread: the powers and scans, the copy-constraint ratio, the scanned inversion, the
KZG division, the chunked evaluation, the fold and the linearised polynomial.

### ShimGlobals

The NTT entry points of the shim as host threads (`Callers`) call them, each with
a stream and a device buffer of its own, and the kernels they launch. A buffer is
abstracted to what a polynomial in it stands for: coefficients or evaluations,
shifted to the coset or not, in natural or bit-reversed order; anything else is
`Wrong`. A kernel takes effect when it ends, in the order of its stream, on what
the globals hold then.

| Model | Code |
|---|---|
| `domainLog`, `domain` | `g_ntt_domain_log`, and the domain icicle really has |
| `StartInit`, `CheckRelease` | the two reads of `g_ntt_domain_log` in `gpu_ntt_init` (`api.cu:188`, `:189`), another thread's steps in between |
| `ReleaseDomain`, `BuildDomain`, `RecordDomain` | the rest of it: icicle's release, icicle's build, the write of the record |
| `Lost` | the transforms that were under way when the domain was released |
| `genReady`, `genSet` | the host's flag, and the device globals the set-up kernel writes |
| `tables`, `content` | which of `d_coset_l1`, `d_coset_l2` are allocated; what was last built in them |
| `StartTransform` ... `ReturnTransform` | the three plain transforms and the two coset ones, call by call and launch by launch |
| `EndKernel` | the end of a kernel |
| `Load` | the Go side: wait for the stream, copy out, copy in |
| `value`, `want` | what a buffer holds; what it holds by the calls that returned 0 |

Assumed of what is outside: icicle keeps a domain it already has, and refuses a
size its domain does not cover; kernels on one stream run in order; cleanup comes
when nothing is underway. A release is not taken to wait for transforms that are
queued or running: what they leave is `Wrong`. (`RhoDevice` assumes that `cudaFree`
waits. What icicle's release does is not in this repository, and the theorems do not
need it.) A caller that is told -1 gives its buffer up.

The constants name who uses the shim. `Initialisers` are the callers of
`gpu_ntt_init`, `InitLogs` the sizes they ask for, `Ops` what each caller transforms.
The passing runs have the callers of one prover: one thread that asks for the domain,
in the rho loop (`prove_gpu.go:223`), and one on the coset (`divideByZH`), with one
domain size, as `docs/RESIDENT_PROVER_PLAN.md:172` has it, or one thread that asks for
larger and larger ones. That is a real restriction. Two threads that ask for the same
domain, as two provers in one process would, break `GrantsHold` (`shim_overlap`,
finding 5). Two callers on cosets break `ResultsRight` within one call each: every
coset call rebuilds the tables, on its own stream, under a product on the other one.
The documents promise nothing of two such callers, so this is a bound of use and not a
finding. `AllocTables` takes the two allocations and the test before them in one step,
which one caller on cosets cannot tell apart; with two they would only be another way
to go wrong.

## The runs

| Run | Bounds | Shows |
|---|---|---|
| `pipeline` | two commitments | `TypeOK`, `NoRace`, `FormsReady`, `ProofIsComplete`, `ErrorIsTheCause`, `NoDeadlock`, `ImplementsProtocol`, `Returns`, `NoGoroutineLeft` in every interleaving, with every call that can fail failing or not, any number of them |
| `rho_cpu_gpu` | 8 cosets, four arrays, GPU failures before the loop | `TypeOK`, `NumeratorCorrect`, `RestoredExactly`, `NumeratorEnds` |
| `rho_fallback` | 8 cosets, GPU failures anywhere | finding 1 below |
| `shim_one_prover` | two threads, one that asks for the domain and one on cosets; three sizes; up to three kernels queued; domain, synchronisation, first allocation may fail | `TypeOK`, `GrantsHold`, `ResultsRight` |
| `shim_resize` | one thread, two domain sizes; the first allocation may fail | `GrantsHold` |
| `shim_domain` | one thread, two domain sizes, the domain may fail | finding 2 below |
| `shim_tables` | one thread, the second allocation may fail | finding 3 below |
| `shim_coset_dit` | one thread that uses the forward `gpu_ntt_coset_dit` | finding 4 below |
| `shim_overlap` | two threads that ask for one domain size, nothing fails | finding 5 below |
| `rho_device` | 8 cosets, four arrays, failures anywhere | `TypeOK`, `FreedOnce`, `NothingLeft`, `StreamSafe`, `Refinement` |
| `batch_invert` | every vector of up to five units modulo 5, one to four CPUs, threshold 3 | `TypeOK`, `Inverted`, `ChunksPartition`, `NoRace`, `Returns` |
| `plonk_algebra` | five circuits, field of 193 elements | `TypeOK`, `DigestsMatch`, `QuotientFits`, `VerifierAccepts`, `DeviceAgrees` |

The pipeline has no bound but the number of commitments. The commitments are
used in three places (a hint each, an evaluation each, one polynomial class), two
of them are enough for one to be ahead of the other. The prover uses four cosets,
and eight for systems of fewer than six constraints: the larger number runs every
branch of the loop (first, second and later iterations, last one), and the theorems
are for every number. Four arrays are one of each kind the loop and the
restoration tell apart: `Z`, whose array `ZS` shares, `Qk`, which leaves `s.x`,
and two that stay.

The sizes of the shim runs are chosen for the tables: 2^2 and 2^3 have the same
first level and differ in the second, 2^28 is the first one `COSET_LMAX` refuses.
A coset call launches at most two kernels on the tables and one transform, and a
call starts with two kernels still queued, so that a rebuild for one direction is
behind the use of the table for the other.

Threshold 3 in place of 2^16 lets vectors of both kinds be small: with up to five
entries on up to four CPUs there are no, one and several chunks, with and without
a remainder, and chunks of one entry.

193 is a prime whose group has subgroups of every order the domains need. The
circuits have 2, 3, 4, 5 and 7 rows, so that both values of rho occur, with exact
and padded domains, no, one and two BSB22 commitments and up to two public inputs;
each is run on the CPU and the GPU path, with and without statistical zero
knowledge and spare capacity, for a few blindings, randomizers and challenges. An
identity between polynomials that fails does so at nearly all challenges, so few
are enough; the mutants recorded in `PROJECT.json` are all found. `EVAL_CHUNKS` is
3 there, which gives chunks of unequal length. In a field this small a challenge
may lie in the domain or make a denominator zero; the chosen ones do not, as in the
real field they do not but with negligible probability.

`CHECK_DEADLOCK FALSE` in the pipeline, rho, `batch_invert` and `plonk_algebra` runs:
a call that has returned, with all its goroutines, does nothing more. The shim's
callers never stop, and its runs check for deadlock.

Fairness is weak fairness of each goroutine. The Go scheduler runs every goroutine
that can run, and the calls the goroutines make (solver, MSM, hash, device calls)
return: none of them waits for another part of the instance. No fairness is put
on the choice inside a `select`, nor on success rather than failure.

## Proofs

Each theorem holds for every value of the constants.

| Module | Theorem | Assumes |
|---|---|---|
| `ProverPipelineProofs` | `TypeOKThm`, `ErrorIsTheCauseThm`, `ProofIsCompleteThm` | nothing of `Commitments` |
| `ProverPipelineProofs` | `FormsReadyThm`, `NoRaceThm`, `NoDeadlockThm` | nothing of `Commitments` |
| `ProverPipelineProofs` | `ImplementsProtocolSafety`: `Protocol!Init /\ [][Protocol!Next]_(Protocol!vars)` | nothing of `Commitments` |
| `RhoLoopProofs` | `NumeratorCorrectThm`, `RestoredExactlyThm` | `Rho` positive, `Z` and `Qk` among the arrays, the GPU attempt fails only in its setup |
| `RhoLoopProofs` | `TypeOKThm` | `Rho` positive |
| `ShimGlobalsProofs` | `GrantsHoldThm` | at most one caller asks for the domain; if the domain can fail, it asks for one size |
| `ShimGlobalsProofs` | `ResultsRightThm` | at most one caller asks for the domain, and for one size; at most one caller on cosets, which does not ask for the forward transform on reversed order; the allocation of the second table does not fail |
| `ShimGlobalsProofs` | `TypeOKThm` | callers make transforms there are |
| `RhoDeviceProofs` | `FreedOnceThm`, `NothingLeftThm`, `StreamSafeThm`, `TypeOKThm`, `RefinementThm` | `Rho` positive, finitely many arrays, their names not those of the other buffers |
| `DeviceKernelsProofs` | `ScaleByPowersThm`, `VecBatchInvertThm`, `RatioCopyConstraintThm`, `PolyEvalThm`, `KzgDivideThm` | `Prime` is prime; the inverted entries and the point opened at are not 0; the ratio has two entries or more |
| `PlonkAlgebraProofs` | `DigestsThm`, `DeviceThm`, `TypeCorrect`, `QuotientDomainThm` | `PrimeAssumption`, `RootAssumption`, `CircuitsAssumption`, `ValuesAssumption` |
| `PlonkVerifierProofs` | `QuotientFitsThm`, `VerifierAcceptsThm` | these four, `CommitsAssumption`, `SatisfiedAssumption` |
| `BatchInvertProofs` | `InvertedThm`, `ChunksPartitionThm`, `NoRaceThm`, `TypeOKThm` | `F` with `Mul` is a commutative group |

The assumption on the GPU attempt is not for convenience: finding 1 is a run of the code that
refutes both theorems without it. The assumptions of `PlonkAlgebra` say what a compiled
circuit and the values drawn are: `Root` generates the group, which has a subgroup
properly inside it for both domains of each circuit; a circuit has two rows or more
(with one, `prove.go:751` fails and domain1 is too small by one); gates, witness and
challenges are field elements, `zeta` is not 0 and the setup's `Tau` is in no domain.
The digests match and the kernels agree whether the witness satisfies the circuit or
not. That the quotient fits and the verifier accepts can only hold if it does, which
`SatisfiedAssumption` says gate by gate, with the hash in its row and the committed
values among the terms; the copy constraints need no assumption, since a wire has one
value. `CommitsAssumption` says what the BSB22 hint relies on at `prove.go:433`: the
row of a commitment is its own, and the two rows that the hint blinds are not committed
ones. TLC evaluates all six on the run's circuits.

The assumptions of `GrantsHoldThm` and `ResultsRightThm` are needed too. Findings 2
and 5 are what becomes of the domain without them. Findings 3 and 4 are what becomes of
the results when the second table is not allocated and when the forward transform on
reversed order is used; two callers on cosets rebuild the tables under each other. One
size is assumed for
the results because a release for a larger one takes the transforms of the other
threads with it.

**The pipeline.** `ProofIsComplete` speaks of the moment `Prove` returns, and no
step of the code establishes it: it is the sum of what nine goroutines did. The
inductive invariant (`IInv`) attaches what a stage has achieved to the labels it
reaches only by achieving it. `SolveInv`, `RatioInv`, `QuotientInv` and
`OpeningInv` say that a stage past a join has all its tasks done, and that a task
that is done has written a good part. `RestoreInv` ties the restoring goroutine to
its channel: it starts after the loop, and `chRestoreLRO` is closed only when it
has ended, so that a quotient stage that ended leaves none of it running.
`EndInv` connects the two ends: a stage that failed was recorded, hence no error
recorded and every stage stopped means every stage done. `CauseInv` is why a
recorded error is never `errContextDone`: a select can return that only when an
error has been recorded before. The step lemma has one lemma per stage, one for all
selects (`SelectInv`) and one for all error returns (`ErrorInv`).

**The order of the pipeline.** `NoRace` and `FormsReady` say that certain labels
are never reached together, or not while a polynomial is in a certain basis, and no
stage waits for all the others. `OrderInv` says what each fact of the pipeline
implies of the past: a stage past a wait has its channel closed (`WaitInv`), a
channel that is closed has its stage at or past the closing label (`CloseInv`), a
goroutine at work has the stage that started it at the join, or past it where the
code does not join (`ForkInv`). Chained, these give for any two labels with a common
polynomial a channel between them. `EarlyInv` and `LateInv` split the life of the
polynomials at the rho loop: before it each is as the solver, the wire commitments
or the ratio left it, after it as the restoring goroutine did.

**No deadlock.** `NoDeadlock` is what `Returns` owes to the channels. `Stuck` is the
negation of the guards of a stage: it has returned, or no case of its `select` is
ready, or it waits for goroutines that have not ended. `HandedOn` is the converse of
`OrderInv`: a stage that ended well has closed its channel (`ClosedInv`), and
goroutines that are waited for have been started (`StartedInv`). If an error is
recorded every `select` is ready. If none is, no stage has failed, and the channels
come one after the other, from `chbp`, which waits for nothing, to
`chLinearizedPolynomial`. Every step runs one more hint or takes a goroutine
forward in code that has no loop, so what is left of `Returns` for the model checker
is the scheduler's fairness.

**The protocol.** `SentInv` says which parts of the proof are still absent and
`DerivedInv` which challenges are drawn, label by label; with `OrderInv` they give
the guard of the protocol's step for each step of the pipeline that it can see, and
every other step leaves the protocol's variables alone. `PendingInv` is why a stage
that still works does so in a call that has not returned.

**The rho loop.** At each program counter the invariant names the coset each
piece of state is on: before iteration `k` everything is on `Before(k)`, and
inside it the shifter, the table, the blinding polynomials and the arrays change
over one after the other. The rows that are scattered are right, or are still
in `buf` under the one goroutine that will write them (`RowsUnderway`), which is
what the join before the next evaluation is for.

**The shim's domain.** The two reads of `g_ntt_domain_log`, the release, the build and
the write of the record are separate steps, so another thread that asks can be between
any two of them, and finding 5 is what comes of it. With one such thread, `DomainInv`
says that nobody else moves the record or the domain: outside the call the record is
true of the domain, from the first read on nothing is promised, and after the build
the domain covers what will be recorded. A failed build leaves the record false, which
one size excludes: there `NoRelease` has the second read find 0 as the first did.

**The shim's results.** `ResultInv` reads a buffer through the kernels still on its
stream. `Chained`: what each kernel leaves is what the next one needs, the first one
finds what it needs now, and after the last the buffer holds what the code at this
label counts on (`Underway`), the promise at the end of a call. `Tabled`: a product
is right behind the build of its table, or is first and the table was last built
for it. That is where one caller on cosets is needed: its rebuilds come in the order
of its stream, and nobody else's come between. That no transform is lost under way is
`NoRelease`.

**The GPU loop's buffers.** The deferred calls are at any time a prefix of one
order, that of the `defer` statements. The invariant ties each buffer to its place
in it: it is live exactly while its call is outstanding. The polynomials are the
exception, on which the proof turns: until their deferred call exists they are the
entries of `dPolys` and freed by hand, so an error between has to be treated case by
case. For the stream, `KernelsAt` bounds what can still be queued at each label;
something is queued only with all deferred calls outstanding, hence all buffers
live, since the loop starts after the last allocation and a deferred call waits for
the stream.

**The GPU loop's values.** `RhoLoop` moves all arrays in one step and scatters in
another, where the code has launched a transform for each array and one scatter and
not waited. The mapping takes the arrays as they were before the batch until the
stream is waited for (`before`), and the denominators and rows as they will be when
what is queued has ended (`Pending`). `DataInv` says why these agree where the code
goes on: each array is moved once, when its transform ends (`BatchInv`), the scatter
is the first on the stream and the evaluation the last (`QueueOrder`). With it each
action is a step of `RhoLoop` or none (`StepMaps`).

**The kernels.** A field of prime order is remainders of integers (`ModOps`), with an
inverse for every nonzero element since the least positive combination of it and the
prime divides both (`Combination`). Induction is from the least element of a set of
naturals (`Least`, `Induction`), which takes no operator as parameter. Each scan,
power and Horner sum is a table that satisfies its recurrence
(`ScanMulIs`, `PowerLaws`, `EvalIs`); the rest is algebra at one index, and an
induction. The chunked evaluation turns on `SliceEval`: Horner's value at the
beginning of a slice is the value of the slice plus a power times its value at the
end, which is 0 at the end of the vector, so the last chunk may be short.

**The values of a proof.** The digests are computed at the beginning, from vectors in
Lagrange form: the wires less the value every padded cell has, only the cells that
differ, plus that value, plus a correction for the blinding. What is opened at the
end are coefficients that were scaled through all cosets, scaled back, and blinded
again, in place or not. `EvalPoly` connects the two forms: the polynomial of the
vector `v` has at `z` the sum of `v[k]` times the `k`-th Lagrange polynomial, by
exchanging the two sums (`TotalSwap`) and a geometric series (`Geometric`).
`LagrangeUnity`, that the Lagrange polynomials add up to 1, is why `commitToLRO` may
leave out the cells with the common value (`CommitWireIs`), and `TotalWindow` why it
may leave out the zeros then. In the loop `Matches` takes each digest at `Tau` over
the shift so far (`Scale`), so that `Rescale` leaves it as it is (`Reshift`); the
shift is never 0, nor is `c^n - 1`, by which the blindings are divided again, because
`Root` times a power of the generator is in no domain (`ShifterIs`), and the last
rescaling takes back the product of all (`UnshiftIs`). `Typed` carries the lengths,
for which the reversal of indices stays below the size (`BitReverseType`) and domain1
is large enough for the shards (`DomainSizes`). `Product` keeps the factors of `Z`
nonzero until the inversion is compared; with it and `Typed` the kernels' theorems
apply, and `DeviceLinearizes` is the same sum in the kernel's order.

**The verifier.** `QuotientFits` and `VerifierAccepts` speak of the end of a proof, and
are the completeness of PLONK for this code: nothing short of all stages together
makes them true. The argument is about polynomials as functions on the field with a
bound on their degree (`Degree`), since the code has them now as coefficients, now as
values on the small domain, on a coset or in bit-reversed order. Products of such
functions stay such functions (`DegreeMul`), and one that vanishes on the domain of n
points is a multiple of `X^n - 1` with a quotient of n coefficients less (`Division`),
by taking off one coefficient after the other.

The numerator vanishes on the small domain (`NumVanishes`) since each row holds and
the ratio goes round. The first is `SatisfiedAssumption` with what the prover adds,
public input rows, padding, the hash and the blinded values of the hint (`RowHolds`).
The second is that the permutation which the trace builds takes each cell to the next
on its wire, hence is injective and keeps values, so that numerators and denominators
are the same factors in another order (`ProductsAgree`, `PartialChange`). With a
degree of `4 n + 5` at most (`NumDegree`) the quotient has `3 n + 6 = 3 (n + 2)`
coefficients: the blinded `Z` and wires have 3 and 2 more than n, and that is what the
bound of three shards is tight for.

`Sound` carries this through the stages: what each field of `s.x` holds, less the shift
so far (`Plain`, `SolvedBy`, `RationedBy`, `KeptBy`); that each coset done has left the
numerator's values in its slots (`Scattered`), where the two loops agree because
`RowsAgree` reads both as the constraints at the point `c w^k`; and, after the
division, that `h` is the quotient (`Divided`). That step needs that the slots of all
cosets are all slots, once each (`SlotOf`, `SlotInjective`), that `XnMinusOneInverse`
has at each slot the inverse of `X^n - 1` there (`ZhInverse`), and that interpolation
gives back a polynomial from its values (`InterpolateValues`). After `openZ` the
numerator at `zeta` is stated with the two values of the blinded `Z` that the proof
opens.

`computeLinearizedPolynomial` is one polynomial evaluated twice (`EvalLinearized`). At
`zeta` the terms cancel against the quotient times `zeta^n - 1`, which is the
numerator: what remains is what the verifier computes from the claimed values
(`ValueAccepted`), the public inputs among it being what solving added to `Qk`
(`PublicInputIs`). At `Tau` it is the digest that the verifier builds
(`DigestAccepted`); the two randomizers of the shards have to cancel in both
(`FoldIs`). `Claimed` says so for the polynomial and the values that are about to be
opened, and `batchOpening` opens these. The identities of the field on which this
rests are proved by reducing both sides to remainders of the same integer
(`LinearizedAt` and the verifier's equations differ by one regrouping, `ClaimShapes`
and `DigestShapes`).

**batchInvert.** The first round leaves in each chunk its running products, the last
of which is the product `W(c)` of the chunk. Whatever `c`,
`prefixBefore[c] * W(c) * suffixAfter[c]` is the product of the whole vector, so
what the caller combines from the one inversion is the inverse of `W(c)`, and the
backward walk keeps `acc` the inverse of the running product it stands on.

Only model-checked is liveness, which is out of the prover's reach: `Returns`,
`NoGoroutineLeft`, `NumeratorEnds`, `BatchInvert`'s `Returns`, and the fairness of
`ImplementsProtocol`.

## Not modelled

- The arithmetic of 255-bit field elements (`fr.h`) and of curve points: the model
  computes in a small field, where no limb overflows. That denominators are not zero
  and `zeta` is not in the domain rests on the size of the real field.
- The solver, the hash, the verifier and icicle are outside this repository. The
  verifier's equation is gnark's. Whether the solver runs two hints at once, which
  would mix the inputs of their one hash (`prove.go:440`), is decided there.
- The MSM entry points, one call into icicle each: `gpu_msm_async` returns before its
  result is there, and its only caller is elsewhere. The order of the device per OS
  thread (`api.cu:95`) belongs to the external caller as well.
- Code with no caller in this repository, but for what `DeviceKernels` has: the
  noscale transforms, `gpu_bitreverse`, `gpu_kzg_divide`'s allocation failures, the
  element-wise additions and products, `buildPowerTable` and
  `scalePowersPrecomputed` (`prove.go:1513-1551`), and in it the division by a number
  of chunks of `api.cu:645` at `n = 0` and the error of `frvec.cu:157`, which is
  cleared before it is looked at, so that the call returns 0 with the vector as it
  was.
- The resident context (`gpuCtx` and `hFoldedForLinearized` are never assigned), so
  the branches on it; timings and debug output; tests and build files.
- `calculateNbTasks` and the splitting by tasks of loops over independent entries
  change no result; each such loop is one step.
- `commitBlindingFactor` drops the errors of its two MSMs (`prove.go:1600`), which
  cannot occur for the lengths it is called with.
- A circuit of one row, where `prove.go:751` indexes the second element of a domain
  that has one. For the ratio of one row `ratio.cu:95` asks for a grid of no blocks, an
  error that is returned.

`plonk_linearized_poly_kernel` has no BSB22 term: `DeviceAgrees` adds it, as a caller
would have to. The fold kernel computes the fold without the randomizers, so it
agrees only without statistical zero knowledge. A failed copy in `gpuUploadPolys`
(`prove_gpu.go:289`) leaves the polynomials uploaded so far allocated; `NothingLeft`
names it as the one path that does.

## Findings

1. **The CPU loop after a failed GPU attempt** (run `rho_fallback`). An error of
   the GPU attempt inside its loop or its downloads leaves the coset shifter, the
   blinding polynomials or part of `s.x` moved, and the CPU loop starts from them.
   `prove_nogpu.go:18` says "caller falls back to the CPU rho-loop on the returned
   error". A failure before the loop is a working fallback: that is what
   `rho_cpu_gpu` checks and the theorems of `RhoLoopProofs` prove.
2. **A domain that is recorded and gone** (run `shim_domain`). `gpu_ntt_init`
   releases the old domain first; when the larger one cannot be built
   `g_ntt_domain_log` still names the old size, and the next call for that size
   returns 0 by the early return "existing (larger) domain covers it"
   (`api.cu:188`) with no domain there.
3. **A table that is never allocated** (run `shim_tables`). After the second
   `cudaMalloc` of `coset_scale_fast` failed once, the first pointer is set, no
   later call allocates, and the kernels get a null table. Nothing looks at launch
   errors: the call returns 0.
4. **Forward `gpu_ntt_coset_dit`** (run `shim_coset_dit`) multiplies a bit-reversed
   vector by the powers of natural order, against `api.cu:259`. The inverse, which
   is the one with a caller, is right. Nothing in this repository calls the forward
   direction.
5. **A domain released after it was promised** (run `shim_overlap`). `gpu_ntt_init`
   reads `g_ntt_domain_log` at `api.cu:188` and again at 189. Of two threads that ask
   for the first domain, of one size, one can pass the first read on 0, and find at
   the second what the other has built and recorded meanwhile, and been told 0 for.
   It releases that domain; the record names it all the time, and still does when
   the rebuild fails, until a larger size is built. `api.cu:185` says "size the domain is currently built for" and 188
   "existing (larger) domain covers it"; that calls come from several threads is said
   at 91-92. One prover asks on one goroutine only, where `GrantsHold` is proved.
