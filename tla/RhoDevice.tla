------------------------------ MODULE RhoDevice ------------------------------
(***************************************************************************)
(* gpuComputeNumeratorRhoLoop (integration/prove_gpu.go) with the device   *)
(* it drives: which buffers are allocated, what the deferred calls still   *)
(* have to free, the kernels on the stream that have not ended, and what   *)
(* the buffers hold.  A kernel takes effect when it ENDS; the copies of    *)
(* the host are synchronous but do not wait for the stream.  There is no   *)
(* resident context at this commit (gpuCtx is nil).                        *)
(*                                                                         *)
(* RhoLoop sees the same loop in program order, as if every kernel were    *)
(* done when its launch returns.  Refinement says it may.                  *)
(***************************************************************************)
EXTENDS Integers, Sequences, SequencesExt

CONSTANTS Rho, Polys, Failures

ASSUME RhoAssumption == Rho \in Nat \ {0}
ASSUME FailuresAssumption ==
  Failures \subseteq {"upload", "setup", "loop", "download"}

\* s.x is a slice of finitely many polynomials.
ASSUME FiniteAssumption == IsFiniteSet(Polys)

\* The names of the polynomials are not those of the other buffers.
ASSUME PolysAssumption ==
  /\ {"Z", "Qk"} \subseteq Polys
  /\ Polys \cap {"ZS", "polys", "ptrs", "stream", "twiddles", "scale", "result", "cres",
                "challenges", "bp", "denoms", "coset"} = {}

VARIABLES
  pc,        \* the call the host executes next
  error,     \* the phase of the call that failed, or "none"
  held,      \* the entries of dPolys that are not nil
  mem,       \* mem[b]: "none", "live", "freed", or "broken" by a bad free
  owed,      \* the deferred releases, the latest one last
  queue,     \* the kernels on the stream that have not ended
  dev,       \* what the buffers hold
  i, coset, expo, scaling, bp, x, fetched,   \* as in RhoLoop
  cres,      \* the numerator on the host
  before     \* history: where the device polynomials were at the last
             \* iteration boundary

host == <<coset, expo, bp, x, fetched, cres>>
failed == error # "none"

vars == <<pc, error, held, mem, owed, queue, dev, i, scaling, host, before>>

-------------------------------------------------------------------------------
(* Buffers.  The entry ZS of dPolys is the pointer of Z.                   *)

Meta    == <<"twiddles", "scale", "result", "cres", "challenges", "bp", "denoms", "coset">>
Entries == Polys \cup {"ZS"}
Pointer(e) == IF e = "ZS" THEN "Z" ELSE e
Buffers == Polys \cup Range(Meta) \cup {"ptrs", "stream"}

Live == {b \in Buffers : mem[b] = "live"}

Allocate(b) == mem' = [mem EXCEPT ![b] = "live"]

\* Freeing a bag of pointers: one that is not live, or there twice, is broken.
Freed(entries) ==
  [b \in Buffers |->
     LET Es == {e \in entries : Pointer(e) = b}
     IN  IF Es = {} THEN mem[b]
         ELSE IF mem[b] = "live" /\ (\A e, f \in Es : e = f) THEN "freed" ELSE "broken"]

\* Faulty: the entry that shares Z's buffer is not skipped.
OwnedPolysWithZS == held

\* The loops over dPolys that free skip ZS.
OwnedPolys == held \ {"ZS"}

\* What one deferred call frees.
Deferred(d) == IF d = "polys" THEN OwnedPolys ELSE {d}

-------------------------------------------------------------------------------
(* Kernels: the buffers each one uses, and what it does when it ends.      *)

Denominators == [op |-> "denominators"]
Transform(p) == [op |-> "transform", poly |-> p]
Evaluate     == [op |-> "evaluate"]
Scatter(k)   == [op |-> "scatter", row |-> k]

Uses(kernel) ==
  CASE kernel.op = "denominators" -> {"twiddles", "coset", "denoms"}
    [] kernel.op = "transform"    -> {kernel.poly, "scale"}
    [] kernel.op = "evaluate"     -> Polys \cup {"ptrs", "twiddles", "bp", "challenges",
                                                 "denoms", "result"}
    [] kernel.op = "scatter"      -> {"result", "cres"}

One       == <<0, 0>>
Mul(c, d) == <<c[1] + d[1], c[2] + d[2]>>

\* vec_denominators_kernel, on the coset as it is on the device at that moment.
DenominatorsEnd(d) == [d EXCEPT !.denoms = d.coset]

\* gpu_fft_scale_fft of one array: on the next coset, by the scale on the device.
TransformEnd(d, p) == [d EXCEPT !.x[p] = Mul(@, d.scale)]

\* plonk_constraint_kernel: what its row was computed from.
EvaluateEnd(d) ==
  [d EXCEPT !.result = [coset |-> d.challenges.coset, expo |-> d.challenges.expo,
                        denoms |-> d.denoms, bp |-> d.bp, x |-> d.x]]

\* plonk_scatter_result_kernel: the row of iteration k to its place.
ScatterEnd(d, k) == [d EXCEPT !.cres[k] = d.result]

Effect(d, kernel) ==
  CASE kernel.op = "denominators" -> DenominatorsEnd(d)
    [] kernel.op = "transform"    -> TransformEnd(d, kernel.poly)
    [] kernel.op = "evaluate"     -> EvaluateEnd(d)
    [] kernel.op = "scatter"      -> ScatterEnd(d, kernel.row)

\* The batch of the iteration, in launch order: each polynomial once (ZS is
\* skipped), then the constraints.
Batch == [k \in 1 .. Len(SetToSeq(Polys)) |-> Transform(SetToSeq(Polys)[k])] \o <<Evaluate>>

-------------------------------------------------------------------------------
(* The abstraction: the loop in program order.                             *)

Setup == {"stream", "polys", "ptrs", "meta"}

AbstractPc ==
  CASE pc \in Setup                         -> "gpu.setup"
    [] pc = "gpu.sync"                      -> "gpu.kernels"
    [] pc = "gpu.wait"                      -> "gpu.cres"
    [] pc \in {"unwind", "end"} /\ failed   -> "cpu"
    [] pc \in {"unwind", "end"} /\ ~failed  -> "restore"
    [] OTHER                                -> pc

AbstractI       == IF failed THEN 0 ELSE i
AbstractScaling == IF failed THEN <<1, 0>> ELSE scaling

\* The arrays are between cosets while a batch runs; an error return leaves them
\* wherever they are.
AbstractDx == IF pc \in Setup \cup {"gpu.sync", "unwind", "end"} THEN before ELSE dev.x

Iterations == 0 .. Rho - 1
Unwritten  == [none |-> TRUE]
NoRows     == [k \in Iterations |-> Unwritten]

\* The denominators and the rows as they will be when the stream is done, for the
\* loop launches these two and does not wait.
Pending(kernel) == \E j \in DOMAIN queue : queue[j] = kernel
AbstractDenoms  == IF Pending(Denominators) THEN dev.coset ELSE dev.denoms
AbstractCres ==
  IF cres # NoRows THEN cres
  ELSE [k \in Iterations |-> IF Pending(Scatter(k)) THEN dev.result ELSE dev.cres[k]]

Loop == INSTANCE RhoLoop WITH
  GpuFailures <- {"setup", "loop", "download"},
  pc <- AbstractPc,  i <- AbstractI,  scaling <- AbstractScaling,
  denoms <- AbstractDenoms,  dx <- AbstractDx,  cres <- AbstractCres,
  buf <- [none |-> TRUE],  scatter <- {},  restore <- "idle"

Init ==
  /\ pc = "stream" /\ error = "none"
  /\ held = {} /\ mem = [b \in Buffers |-> "none"] /\ owed = <<>> /\ queue = <<>>
  /\ dev = [x |-> [p \in Polys |-> Unwritten], scale |-> Unwritten, coset |-> One,
            denoms |-> One, bp |-> Unwritten, challenges |-> Unwritten,
            result |-> Unwritten, cres |-> NoRows]
  /\ i = 0 /\ coset = One /\ expo = [of |-> One, inverted |-> FALSE]
  /\ scaling = Loop!G
  /\ bp = [shift |-> One, factor |-> Loop!Unlifted]
  /\ x = [p \in Polys |-> One] /\ fetched = {}
  /\ cres = NoRows
  /\ before = [p \in Polys |-> One]

-------------------------------------------------------------------------------
(* Allocation and upload.                                                  *)

\* The error return of a call in this phase: the deferred calls run.
Fail(phase) == phase \in Failures /\ pc' = "unwind" /\ error' = phase

Continue(label) == pc' = label /\ UNCHANGED error

AcquireStream ==
  /\ pc = "stream"
  /\ \/ Continue("polys") /\ Allocate("stream") /\ owed' = <<"stream">>
     \/ Fail("setup") /\ UNCHANGED <<mem, owed>>
  /\ UNCHANGED <<held, queue, dev, i, scaling, host, before>>

\* Faulty: a failed malloc returns without freeing the polynomials so far.
UploadPolyNoFree ==
  /\ pc = "polys"
  /\ \E p \in Polys \ held :
       \/ /\ Continue("polys")
          /\ Allocate(p) /\ held' = held \cup {p} /\ dev' = [dev EXCEPT !.x[p] = x[p]]
       \/ Fail("setup") /\ UNCHANGED <<mem, held, dev>>
  /\ UNCHANGED <<owed, queue, i, scaling, host, before>>

\* One polynomial: malloc, then copy.  A failed malloc frees those before; a
\* failed copy returns at once, and no deferred call knows the polynomials yet.
UploadPoly ==
  /\ pc = "polys"
  /\ \E p \in Polys \ held :
       \/ /\ Continue("polys")
          /\ Allocate(p) /\ held' = held \cup {p} /\ dev' = [dev EXCEPT !.x[p] = x[p]]
       \/ Fail("setup") /\ mem' = Freed(OwnedPolys) /\ UNCHANGED <<held, dev>>
       \/ Fail("upload") /\ Allocate(p) /\ held' = held \cup {p} /\ UNCHANGED dev
  /\ UNCHANGED <<owed, queue, i, scaling, host, before>>

ShareZ ==
  /\ pc = "polys" /\ held = Polys
  /\ Continue("ptrs") /\ held' = Entries
  /\ UNCHANGED <<mem, owed, queue, dev, i, scaling, host, before>>

\* The pointer array.  Until its copy has succeeded the polynomials are freed
\* by hand, from then on by a deferred call.
AllocatePointers ==
  /\ pc = "ptrs"
  /\ \/ Continue("meta") /\ Allocate("ptrs") /\ owed' = owed \o <<"ptrs", "polys">>
     \/ Fail("setup") /\ mem' = Freed(OwnedPolys) /\ UNCHANGED owed
     \/ /\ Fail("setup")
        /\ mem' = [Freed(OwnedPolys) EXCEPT !["ptrs"] = "live"]
        /\ owed' = Append(owed, "ptrs")
  /\ UNCHANGED <<held, queue, dev, i, scaling, host, before>>

\* The next of the remaining buffers, in the order of Meta; twiddles0 is copied
\* right after its malloc, the scaling vector after the last one.
AllocateMeta ==
  /\ pc = "meta"
  /\ LET k == Len(owed) - 2
         b == Meta[k]
     IN  \/ /\ Continue(IF k = Len(Meta) THEN "gpu.coset" ELSE "meta")
            /\ Allocate(b) /\ owed' = Append(owed, b)
            /\ IF k = Len(Meta)
               THEN dev' = [dev EXCEPT !.scale = scaling] /\ before' = dev.x
               ELSE UNCHANGED <<dev, before>>
         \/ Fail("setup") /\ UNCHANGED <<mem, owed, dev, before>>
         \/ /\ Fail("setup") /\ b \in {"twiddles", "coset"}
            /\ Allocate(b) /\ owed' = Append(owed, b) /\ UNCHANGED <<dev, before>>
  /\ UNCHANGED <<held, queue, i, scaling, host>>

-------------------------------------------------------------------------------
(* The loop.  memory is what it never allocates or frees.                  *)

memory == <<held, mem, owed>>

\* What the copies of the current call write or read on the device.
Copies ==
  CASE pc = "gpu.coset" -> {"coset"}
    [] pc = "gpu.lift"  -> {"bp", "challenges"} \cup (IF i = 1 THEN {"scale"} ELSE {})
    [] pc = "gpu.cres"  -> {"cres"}
    [] pc = "gpu.polys" -> Polys
    [] OTHER            -> {}

MoveCoset ==
  /\ pc = "gpu.coset"
  /\ coset' = Mul(coset, Loop!Shifter(i))
  /\ expo' = [of |-> coset', inverted |-> FALSE]
  /\ \/ /\ Continue("gpu.lift")
        /\ dev' = [dev EXCEPT !.coset = coset']
        /\ queue' = Append(queue, Denominators)
     \/ Fail("loop") /\ UNCHANGED <<dev, queue>>
  /\ UNCHANGED <<memory, i, scaling, bp, x, fetched, cres, before>>

LiftBlinding ==
  /\ pc = "gpu.lift"
  /\ bp' = [shift |-> Mul(bp.shift, Loop!Shifter(i)), factor |-> Loop!Lift(bp.factor, coset)]
  /\ \/ /\ Continue("gpu.kernels")
        /\ scaling' = Loop!ScalingAt(i)
        /\ dev' = [dev EXCEPT !.bp = bp', !.scale = IF i = 1 THEN scaling' ELSE @,
                              !.challenges = [coset |-> coset, expo |-> expo]]
     \/ Fail("loop") /\ UNCHANGED <<scaling, dev>>
  /\ UNCHANGED <<memory, queue, i, coset, expo, x, fetched, cres, before>>

\* PlonkRhoIteration launches the batch; a launch that fails leaves the earlier
\* ones on the stream.
LaunchIteration ==
  /\ pc = "gpu.kernels"
  /\ \/ Continue("gpu.sync") /\ queue' = queue \o Batch
     \/ Fail("loop") /\ \E k \in 0 .. Len(Batch) - 1 : queue' = queue \o SubSeq(Batch, 1, k)
  /\ UNCHANGED <<memory, dev, i, scaling, host, before>>

\* ... and waits for the stream; then the scatter is launched.
SyncAndScatter ==
  /\ pc = "gpu.sync"
  /\ \/ /\ queue = <<>>
        /\ Continue("gpu.unlift") /\ queue' = <<Scatter(i)>> /\ before' = dev.x
     \/ Fail("loop") /\ UNCHANGED <<queue, before>>
  /\ UNCHANGED <<memory, dev, i, scaling, host>>

\* Faulty: the loop runs once too often.
UnliftOneMore ==
  /\ pc = "gpu.unlift"
  /\ Continue(IF i = Rho THEN "gpu.wait" ELSE "gpu.coset")
  /\ i' = i + 1
  /\ expo' = [expo EXCEPT !.inverted = TRUE]
  /\ bp' = [bp EXCEPT !.factor = Loop!Unlift(bp.factor, coset)]
  /\ UNCHANGED <<memory, queue, dev, scaling, coset, x, fetched, cres, before>>

UnliftBlinding ==
  /\ pc = "gpu.unlift"
  /\ Continue(IF i + 1 = Rho THEN "gpu.wait" ELSE "gpu.coset")
  /\ i' = i + 1
  /\ expo' = [expo EXCEPT !.inverted = TRUE]
  /\ bp' = [bp EXCEPT !.factor = Loop!Unlift(bp.factor, coset)]
  /\ UNCHANGED <<memory, queue, dev, scaling, coset, x, fetched, cres, before>>

-------------------------------------------------------------------------------
(* Downloads and the deferred calls.                                       *)

\* Faulty: no StreamSync before the downloads.
NoStreamSync ==
  /\ pc = "gpu.wait"
  /\ Continue("gpu.cres")
  /\ UNCHANGED <<memory, queue, dev, i, scaling, host, before>>

StreamSync ==
  /\ pc = "gpu.wait" /\ queue = <<>>
  /\ Continue("gpu.cres")
  /\ UNCHANGED <<memory, queue, dev, i, scaling, host, before>>

DownloadCres ==
  /\ pc = "gpu.cres"
  /\ \/ Continue("gpu.polys") /\ cres' = dev.cres
     \/ Fail("download") /\ UNCHANGED cres
  /\ UNCHANGED <<memory, queue, dev, i, scaling, coset, expo, bp, x, fetched, before>>

DownloadPoly ==
  /\ pc = "gpu.polys"
  /\ \/ \E p \in Polys \ fetched :
          /\ x' = [x EXCEPT ![p] = dev.x[p]]
          /\ fetched' = fetched \cup {p}
          /\ UNCHANGED <<pc, error>>
     \/ fetched # Polys /\ Fail("download") /\ UNCHANGED <<x, fetched>>
     \/ fetched = Polys /\ Continue("unwind") /\ UNCHANGED <<x, fetched>>
  /\ UNCHANGED <<memory, queue, dev, i, scaling, coset, expo, bp, cres, before>>

\* Faulty: the deferred calls do not wait for the kernels.
UnwindAtOnce ==
  /\ pc = "unwind"
  /\ IF owed = <<>>
     THEN pc' = "end" /\ UNCHANGED <<mem, owed>>
     ELSE /\ mem' = Freed(Deferred(Last(owed))) /\ owed' = Front(owed) /\ UNCHANGED pc
  /\ UNCHANGED <<error, held, queue, dev, i, scaling, host, before>>

\* The deferred calls, the latest first.  Freeing device memory waits for the
\* kernels that are still running.
Unwind ==
  /\ pc = "unwind"
  /\ IF owed = <<>>
     THEN pc' = "end" /\ UNCHANGED <<mem, owed>>
     ELSE /\ queue = <<>>
          /\ mem' = Freed(Deferred(Last(owed))) /\ owed' = Front(owed) /\ UNCHANGED pc
  /\ UNCHANGED <<error, held, queue, dev, i, scaling, host, before>>

EndKernel ==
  /\ queue # <<>>
  /\ dev' = Effect(dev, Head(queue))
  /\ queue' = Tail(queue)
  /\ UNCHANGED <<pc, error, memory, i, scaling, host, before>>

Next == \/ AcquireStream \/ UploadPoly \/ ShareZ \/ AllocatePointers \/ AllocateMeta
        \/ MoveCoset \/ LiftBlinding \/ LaunchIteration \/ SyncAndScatter \/ UnliftBlinding
        \/ StreamSync \/ DownloadCres \/ DownloadPoly \/ Unwind \/ EndKernel

Spec == Init /\ [][Next]_vars

-------------------------------------------------------------------------------
(* Properties.                                                             *)

\* The shape of the state of gpuComputeNumeratorRhoLoop and of its buffers.
TypeOK ==
  /\ pc \in Setup \cup {"gpu.coset", "gpu.lift", "gpu.kernels", "gpu.sync", "gpu.unlift",
                        "gpu.wait", "gpu.cres", "gpu.polys", "unwind", "end"}
  /\ error \in Failures \cup {"none"}
  /\ held \subseteq Entries
  /\ mem \in [Buffers -> {"none", "live", "freed", "broken"}]
  /\ owed \in Seq(Buffers \cup {"polys"})
  /\ queue \in Seq({Denominators, Evaluate} \cup {Transform(p) : p \in Polys}
                   \cup {Scatter(k) : k \in Iterations})
  /\ i \in 0 .. Rho
  /\ fetched \subseteq Polys

\* No device buffer is freed twice or without having been allocated, although
\* ZS shares Z's buffer and the polynomials are freed by hand on some paths and
\* by the deferred call on others.
FreedOnce == \A b \in Buffers : mem[b] # "broken"

\* When the call returns, on whatever path, the stream is released and every
\* buffer is freed, but for one path: the polynomials uploaded so far stay
\* allocated when the upload of one of them fails.
NothingLeft ==
  pc = "end" => IF error = "upload" THEN Live \subseteq Polys ELSE Live = {}

\* While a kernel can still run all its buffers are live, and the host copies
\* into or out of none of them, though the loop queues the denominators and the
\* scatter without waiting for them.
StreamSafe ==
  \A k \in DOMAIN queue : Uses(queue[k]) \subseteq Live /\ Uses(queue[k]) \cap Copies = {}

\* The loop on the asynchronous device does what RhoLoop's GPU loop does in
\* program order, with the same effects on the caller's state on every error.
Refinement == Loop!Init /\ [][Loop!Next]_Loop!vars
===============================================================================
