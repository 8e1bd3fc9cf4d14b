---------------------------- MODULE ProverPipeline ----------------------------
(***************************************************************************)
(* Prove (integration/prove.go): one errgroup of nine stage goroutines     *)
(* that wait for one another through channels closed once, the goroutines  *)
(* those stages start themselves, and the cancellable context they share.  *)
(*                                                                         *)
(* A program counter value names the code the goroutine is executing: the  *)
(* step that leaves it has all the effects of that code.  So two counters  *)
(* at the same time mean two pieces of code running at the same time, and  *)
(* a data race is a conflict between their footprints.                     *)
(*                                                                         *)
(* Field values are abstracted to what the stages rely on: the basis (and  *)
(* scaling) a polynomial is in, and whether a part of the proof is absent, *)
(* good, or the left-over of a commitment that returned an error.          *)
(***************************************************************************)
CONSTANT Commitments      \* indices of the circuit's BSB22 commitments

Wires  == {"L", "R", "O"}
Shards == {"H1", "H2", "H3"}        \* the three pieces of the quotient

ASSUME CommitmentsAssumption == Commitments \cap Wires = {}

VARIABLES
  stage,       \* stage[s]: what the errgroup goroutine of stage s executes
  task,        \* task[t]: the state of a goroutine started by a stage
  closed,      \* the channels that have been closed
  firstErr,    \* the error the errgroup recorded; any error cancels ctx
  result,      \* what Prove returned
  witnessOk,   \* fullWitness.Vector() is a vector of this field
  proof,       \* proof[m]: "none", "good" or "bad"
  hinted,      \* the BSB22 hints that have run to their end
  derived,     \* the challenges drawn from the transcript
  form         \* form[p]: the basis polynomial p is in

vars == <<stage, task, closed, firstErr, result, witnessOk, proof, hinted,
          derived, form>>

\* Changed by nothing but the action that says so.
results == <<result, witnessOk>>

-------------------------------------------------------------------------------
(* The goroutines.                                                         *)

Stages == {"solveConstraints", "completeQk", "initBlindingPolynomials",
           "deriveGammaAndBeta", "buildRatioCopyConstraint", "computeQuotient",
           "openZ", "computeLinearizedPolynomial", "batchOpening"}

LroTasks   == {<<"lro", w>> : w \in Wires}
ShardTasks == {<<"shard", h>> : h \in Shards}
EvalTasks  == {<<"eval", e>> : e \in Wires \cup Commitments}
Restore    == <<"restore", "x">>
Tasks      == LroTasks \cup ShardTasks \cup EvalTasks \cup {Restore}

\* A stage that blocks does so in a select over one channel and ctx.Done():
\* where it blocks, the channel, and the code that follows.
Await(s, at, channel, then) ==
  [stage |-> s, at |-> at, channel |-> channel, then |-> then]

Awaits ==
  {Await("solveConstraints", "lro.await", "chbp", "lro.fork"),
   Await("completeQk", "qk.await", "chLRO", "qk.fill"),
   Await("deriveGammaAndBeta", "gamma.await", "chLRO", "gamma.derive"),
   Await("buildRatioCopyConstraint", "ratio.await", "chGammaBeta", "ratio.build"),
   Await("computeQuotient", "h.awaitLRO", "chLRO", "h.pi2"),
   Await("computeQuotient", "h.awaitZ", "chZ", "h.alpha"),
   Await("computeQuotient", "h.awaitQk", "chQk", "h.rho"),
   Await("computeQuotient", "h.awaitRestore", "chRestoreLRO", "h.close"),
   Await("openZ", "openZ.await", "chH", "openZ.blind"),
   Await("computeLinearizedPolynomial", "lin.await", "chH", "lin.fork"),
   Await("computeLinearizedPolynomial", "lin.awaitZ", "chZOpening", "lin.join"),
   Await("batchOpening", "batch.await", "chLinearizedPolynomial", "batch.open")}

Channels == {"chbp", "chLRO", "chQk", "chGammaBeta", "chZ", "chH",
             "chRestoreLRO", "chZOpening", "chLinearizedPolynomial"}

\* The code of each stage, cut where it waits, can fail or starts goroutines.
Code(s) ==
  {"done", "failed"} \cup
  CASE s = "solveConstraints" -> {"solve", "lro.await", "lro.fork", "lro.join"}
    [] s = "completeQk" -> {"qk.clone", "qk.await", "qk.fill"}
    [] s = "initBlindingPolynomials" -> {"bp.sample"}
    [] s = "deriveGammaAndBeta" ->
         {"gamma.bind", "gamma.await", "gamma.derive", "beta.derive"}
    [] s = "buildRatioCopyConstraint" ->
         {"ratio.await", "ratio.build", "ratio.commit", "ratio.return"}
    [] s = "computeQuotient" ->
         {"h.assign", "h.awaitLRO", "h.pi2", "h.awaitZ", "h.alpha", "h.shiftZ",
          "h.twiddles", "h.awaitQk", "h.rho", "h.divide", "h.fork", "h.join",
          "h.zeta", "h.awaitRestore", "h.close"}
    [] s = "openZ" -> {"openZ.await", "openZ.blind", "openZ.open"}
    [] s = "computeLinearizedPolynomial" ->
         {"lin.await", "lin.fork", "lin.awaitZ", "lin.join", "lin.inner", "lin.commit"}
    [] s = "batchOpening" -> {"batch.await", "batch.open"}

Entry(s) == CASE s = "solveConstraints"            -> "solve"
              [] s = "completeQk"                  -> "qk.clone"
              [] s = "initBlindingPolynomials"     -> "bp.sample"
              [] s = "deriveGammaAndBeta"          -> "gamma.bind"
              [] s = "buildRatioCopyConstraint"    -> "ratio.await"
              [] s = "computeQuotient"             -> "h.assign"
              [] s = "openZ"                       -> "openZ.await"
              [] s = "computeLinearizedPolynomial" -> "lin.await"
              [] s = "batchOpening"                -> "batch.await"

\* Errors: the code's own, or errContextDone from a select.
Errors == {"own", "contextDone"}

\* Faulty: the last error wins.
RecordedLast(e) == e

\* errgroup keeps the first error it is given and cancels the context.
Recorded(e) == IF firstErr = "none" THEN e ELSE firstErr

CtxDone == firstErr # "none"

Goto(s, from, to) == /\ stage[s] = from
                     /\ stage' = [stage EXCEPT ![s] = to]

\* The stage returns error e from the code at label from.
Return(s, from, e) == /\ Goto(s, from, "failed")
                      /\ firstErr' = Recorded(e)

Fork(T) == task' = [t \in Tasks |-> IF t \in T THEN "run" ELSE task[t]]
Ended(t) == task[t] \in {"done", "failed"}
Joined(T) == \A t \in T : Ended(t)
AllDone(T) == \A t \in T : task[t] = "done"

-------------------------------------------------------------------------------
(* Polynomials, messages, challenges.                                      *)

\* "fixed" are the selectors and permutation polynomials of the trace, which
\* computeQuotient puts in s.x by pointer; "Pi" the committed polynomials;
\* "Qk" the completed clone in s.x, "traceQk" the trace's own; "bp" the
\* blinding polynomials; "blindedZ" the slice openZ makes.
Polys == Wires \cup {"Z", "ZS", "Qk", "fixed", "Pi", "traceQk", "bp", "blindedZ"}

\* The forms each can be in.  shifted: s0 subtracted, not yet added back.
\* coset: Lagrange form on the last coset of the rho loop.  lifted: scaled for
\* it.  linearized: overwritten with the linearised polynomial.
FormsOf(p) ==
  CASE p \in Wires   -> {"nil", "lagrange", "shifted", "coset", "canonical"}
    [] p = "Qk"      -> {"nil", "lagrange", "coset"}
    [] p = "traceQk" -> {"lagrange", "canonical"}
    [] p = "bp"      -> {"nil", "canonical", "lifted"}
    [] p = "blindedZ" -> {"nil", "lagrange", "coset", "canonical", "linearized"}
    [] OTHER         -> {"nil", "lagrange", "coset", "canonical"}

Messages   == Wires \cup {"Z"} \cup Shards \cup {"ZShifted", "Batched"}
Challenges == {"gamma", "beta", "alpha", "zeta"}

\* fiatshamir.Transcript refuses a challenge before its predecessors.
Earlier(c) == CASE c = "gamma" -> {}
                [] c = "beta"  -> {"gamma"}
                [] c = "alpha" -> {"gamma", "beta"}
                [] c = "zeta"  -> {"gamma", "beta", "alpha"}

Set(P, f) == form' = [p \in Polys |-> IF p \in P THEN f ELSE form[p]]

Write(m, v) == proof' = [proof EXCEPT ![m] = v]

Derive(c) == /\ Earlier(c) \subseteq derived
             /\ derived' = derived \cup {c}

Init ==
  /\ stage = [s \in Stages |-> Entry(s)]
  /\ task = [t \in Tasks |-> "idle"]
  /\ closed = {}
  /\ firstErr = "none"
  /\ result = "pending"
  /\ witnessOk \in BOOLEAN
  /\ proof = [m \in Messages |-> "none"]
  /\ hinted = {}
  /\ derived = {}
  /\ form = [p \in Polys |-> IF p \in {"fixed", "traceQk"} THEN "lagrange"
                                                           ELSE "nil"]

-------------------------------------------------------------------------------
(* Steps several stages share.                                             *)

\* Faulty: computeQuotient does not wait for the restoring goroutine.
SelectNoRestore(a) ==
  /\ \/ /\ a.channel \in closed \/ a.channel = "chRestoreLRO"
        /\ Goto(a.stage, a.at, a.then)
        /\ UNCHANGED firstErr
     \/ /\ CtxDone
        /\ Return(a.stage, a.at, "contextDone")
  /\ UNCHANGED <<task, closed, results, proof, hinted, derived, form>>

\* A select over ctx.Done() and a channel.  When both are ready Go picks
\* either, so a stage may go on after the context is cancelled.
Select(a) ==
  /\ \/ /\ a.channel \in closed
        /\ Goto(a.stage, a.at, a.then)
        /\ UNCHANGED firstErr
     \/ /\ CtxDone
        /\ Return(a.stage, a.at, "contextDone")
  /\ UNCHANGED <<task, closed, results, proof, hinted, derived, form>>

\* A call at label from that returns an error, leaving what UNCHANGED says.
Error(s, from) ==
  /\ Return(s, from, "own")
  /\ UNCHANGED <<task, closed, results, proof, hinted, derived, form>>

\* The stage closes its channel and returns nil.
CloseAndReturn(s, from, ch) ==
  /\ Goto(s, from, "done")
  /\ closed' = closed \cup {ch}

-------------------------------------------------------------------------------
(* solveConstraints, with bsb22Hint and commitToLRO.                       *)

\* One hint: commitmentVal[c], cCommitments[c] and Bsb22Commitments[c].
Bsb22Hint(c) ==
  /\ stage["solveConstraints"] = "solve"
  /\ witnessOk
  /\ c \notin hinted
  /\ hinted' = hinted \cup {c}
  /\ UNCHANGED <<stage, task, closed, firstErr, results, proof, derived, form>>

\* The solver returns once every hint has run.  A vector of another field, an
\* unsatisfied constraint or a failed hint is an error.
Solve ==
  \/ /\ witnessOk /\ hinted = Commitments
     /\ Goto("solveConstraints", "solve", "lro.await")
     /\ Set(Wires \cup {"Pi"}, "lagrange")
     /\ UNCHANGED <<task, closed, firstErr, results, proof, hinted, derived>>
  \/ Error("solveConstraints", "solve")

CommitToLRO ==
  \/ /\ witnessOk
     /\ Goto("solveConstraints", "lro.fork", "lro.join")
     /\ Fork(LroTasks)
     /\ UNCHANGED <<closed, firstErr, results, proof, hinted, derived, form>>
  \/ /\ ~witnessOk
     /\ Error("solveConstraints", "lro.fork")

\* One wire: subtract s0, then the MSM, then add s0 back, blind and store.  A
\* failed MSM returns at once and leaves the wire shifted.
SubtractS0(w) ==
  /\ task[<<"lro", w>>] = "run"
  /\ task' = [task EXCEPT ![<<"lro", w>>] = "msm"]
  /\ Set({w}, "shifted")
  /\ UNCHANGED <<stage, closed, firstErr, results, proof, hinted, derived>>

\* Faulty: s0 is not added back.
CommitWireShifted(w) ==
  /\ task[<<"lro", w>>] = "msm"
  /\ \/ /\ task' = [task EXCEPT ![<<"lro", w>>] = "done"]
        /\ Write(w, "good")
     \/ /\ task' = [task EXCEPT ![<<"lro", w>>] = "failed"]
        /\ UNCHANGED proof
  /\ UNCHANGED <<stage, closed, firstErr, results, hinted, derived, form>>

CommitWire(w) ==
  /\ task[<<"lro", w>>] = "msm"
  /\ \/ /\ task' = [task EXCEPT ![<<"lro", w>>] = "done"]
        /\ Set({w}, "lagrange")
        /\ Write(w, "good")
     \/ /\ task' = [task EXCEPT ![<<"lro", w>>] = "failed"]
        /\ UNCHANGED <<form, proof>>
  /\ UNCHANGED <<stage, closed, firstErr, results, hinted, derived>>

\* Faulty: chLRO is closed by a defer, also when a commitment failed.
JoinLRODefer ==
  /\ Joined(LroTasks)
  /\ Goto("solveConstraints", "lro.join",
          IF AllDone(LroTasks) THEN "done" ELSE "failed")
  /\ firstErr' = IF AllDone(LroTasks) THEN firstErr ELSE Recorded("own")
  /\ closed' = closed \cup {"chLRO"}
  /\ UNCHANGED <<task, results, proof, hinted, derived, form>>

JoinLRO ==
  /\ Joined(LroTasks)
  /\ \/ /\ AllDone(LroTasks)
        /\ CloseAndReturn("solveConstraints", "lro.join", "chLRO")
        /\ UNCHANGED <<task, firstErr, results, proof, hinted, derived, form>>
     \/ /\ ~AllDone(LroTasks)
        /\ Error("solveConstraints", "lro.join")

-------------------------------------------------------------------------------
(* completeQk, initBlindingPolynomials, deriveGammaAndBeta.                *)

CloneQk ==
  \/ /\ witnessOk
     /\ Goto("completeQk", "qk.clone", "qk.await")
     /\ UNCHANGED <<task, closed, firstErr, results, proof, hinted, derived, form>>
  \/ /\ ~witnessOk
     /\ Error("completeQk", "qk.clone")

\* Faulty: chQk is never closed.
FillQkNoClose ==
  /\ Goto("completeQk", "qk.fill", "done")
  /\ Set({"Qk"}, "lagrange")
  /\ UNCHANGED <<task, closed, firstErr, results, proof, hinted, derived>>

FillQk ==
  /\ CloseAndReturn("completeQk", "qk.fill", "chQk")
  /\ Set({"Qk"}, "lagrange")
  /\ UNCHANGED <<task, firstErr, results, proof, hinted, derived>>

SampleBlinding ==
  /\ CloseAndReturn("initBlindingPolynomials", "bp.sample", "chbp")
  /\ Set({"bp"}, "canonical")
  /\ UNCHANGED <<task, firstErr, results, proof, hinted, derived>>

BindPublicData ==
  \/ /\ witnessOk
     /\ Goto("deriveGammaAndBeta", "gamma.bind", "gamma.await")
     /\ UNCHANGED <<task, closed, firstErr, results, proof, hinted, derived, form>>
  \/ Error("deriveGammaAndBeta", "gamma.bind")

DeriveGamma ==
  \/ /\ Goto("deriveGammaAndBeta", "gamma.derive", "beta.derive")
     /\ Derive("gamma")
     /\ UNCHANGED <<task, closed, firstErr, results, proof, hinted, form>>
  \/ Error("deriveGammaAndBeta", "gamma.derive")

DeriveBeta ==
  \/ /\ CloseAndReturn("deriveGammaAndBeta", "beta.derive", "chGammaBeta")
     /\ Derive("beta")
     /\ UNCHANGED <<task, firstErr, results, proof, hinted, form>>
  \/ Error("deriveGammaAndBeta", "beta.derive")

-------------------------------------------------------------------------------
(* buildRatioCopyConstraint.                                               *)

BuildRatio ==
  \/ /\ Goto("buildRatioCopyConstraint", "ratio.build", "ratio.commit")
     /\ Set({"Z"}, "lagrange")
     /\ UNCHANGED <<task, closed, firstErr, results, proof, hinted, derived>>
  \/ Error("buildRatioCopyConstraint", "ratio.build")

\* chZ is closed whether or not the commitment succeeded ...
CommitZ ==
  /\ Goto("buildRatioCopyConstraint", "ratio.commit", "ratio.return")
  /\ closed' = closed \cup {"chZ"}
  /\ \E v \in {"good", "bad"} : Write("Z", v)
  /\ UNCHANGED <<task, firstErr, results, hinted, derived, form>>

\* Faulty: the error of the commitment to Z is dropped.
ReturnFromRatioNil ==
  /\ Goto("buildRatioCopyConstraint", "ratio.return", "done")
  /\ UNCHANGED <<task, closed, firstErr, results, proof, hinted, derived, form>>

\* ... and only then is the commitment's error returned.
ReturnFromRatio ==
  \/ /\ proof["Z"] = "good"
     /\ Goto("buildRatioCopyConstraint", "ratio.return", "done")
     /\ UNCHANGED <<task, closed, firstErr, results, proof, hinted, derived, form>>
  \/ /\ proof["Z"] = "bad"
     /\ Error("buildRatioCopyConstraint", "ratio.return")

-------------------------------------------------------------------------------
(* computeQuotient, with computeNumerator, divideByZH and commitToQuotient. *)

\* Code of computeQuotient that cannot fail.
Proceed(from, to) ==
  /\ Goto("computeQuotient", from, to)
  /\ UNCHANGED <<task, closed, firstErr, results, proof, hinted, derived, form>>

AssignTrace == Proceed("h.assign", "h.awaitLRO")
AssignPi2   == Proceed("h.pi2", "h.awaitZ")

DeriveAlpha ==
  \/ /\ Goto("computeQuotient", "h.alpha", "h.shiftZ")
     /\ Derive("alpha")
     /\ UNCHANGED <<task, closed, firstErr, results, proof, hinted, form>>
  \/ Error("computeQuotient", "h.alpha")

ShiftZ ==
  /\ Goto("computeQuotient", "h.shiftZ", "h.twiddles")
  /\ Set({"ZS"}, form["Z"])
  /\ UNCHANGED <<task, closed, firstErr, results, proof, hinted, derived>>

BuildTwiddles ==
  \/ Proceed("h.twiddles", "h.awaitQk")
  \/ Error("computeQuotient", "h.twiddles")

OnLastCoset ==
  form' = [p \in Polys |->
             CASE p \in Wires \cup {"Z", "ZS", "Qk", "fixed", "Pi"} -> "coset"
               [] p = "bp" -> "lifted"
               [] OTHER    -> form[p]]

\* The rho loop over the cosets (module RhoLoop); it starts the restoring
\* goroutine when it is through.  An error comes before it or inside it.
EvaluateOnCosets ==
  /\ \/ /\ Goto("computeQuotient", "h.rho", "h.divide")
        /\ Fork({Restore})
        /\ OnLastCoset
        /\ UNCHANGED firstErr
     \/ /\ Return("computeQuotient", "h.rho", "own")
        /\ OnLastCoset \/ UNCHANGED form
        /\ UNCHANGED task
  /\ UNCHANGED <<closed, results, proof, hinted, derived>>

\* Faulty: Qk stays in s.x and is taken to canonical form with the others.
RestoreFormsKeepQk ==
  form' = [p \in Polys |->
             CASE p = "ZS" -> "nil"
               [] p \in Wires \cup {"Z", "Qk", "fixed", "Pi", "bp"} -> "canonical"
               [] OTHER -> form[p]]

RestoreForms ==
  form' = [p \in Polys |->
             CASE p \in {"ZS", "Qk"} -> "nil"
               [] p \in Wires \cup {"Z", "fixed", "Pi", "bp"} -> "canonical"
               [] OTHER -> form[p]]

\* Faulty: the restoring goroutine ends without closing chRestoreLRO.
RestoreLROSilent ==
  /\ task[Restore] = "run"
  /\ task' = [task EXCEPT ![Restore] = "done"]
  /\ RestoreForms
  /\ UNCHANGED <<stage, closed, firstErr, results, proof, hinted, derived>>

RestoreLRO ==
  /\ task[Restore] = "run"
  /\ task' = [task EXCEPT ![Restore] = "done"]
  /\ RestoreForms
  /\ closed' = closed \cup {"chRestoreLRO"}
  /\ UNCHANGED <<stage, firstErr, results, proof, hinted, derived>>

DivideByZH ==
  \/ Proceed("h.divide", "h.fork")
  \/ Error("computeQuotient", "h.divide")

CommitToQuotient ==
  /\ Goto("computeQuotient", "h.fork", "h.join")
  /\ Fork(ShardTasks)
  /\ UNCHANGED <<closed, firstErr, results, proof, hinted, derived, form>>

CommitShard(h) ==
  /\ task[<<"shard", h>>] = "run"
  /\ \/ /\ task' = [task EXCEPT ![<<"shard", h>>] = "done"]
        /\ Write(h, "good")
     \/ /\ task' = [task EXCEPT ![<<"shard", h>>] = "failed"]
        /\ Write(h, "bad")
  /\ UNCHANGED <<stage, closed, firstErr, results, hinted, derived, form>>

JoinQuotient ==
  /\ Joined(ShardTasks)
  /\ \/ /\ AllDone(ShardTasks)
        /\ Proceed("h.join", "h.zeta")
     \/ /\ ~AllDone(ShardTasks)
        /\ Error("computeQuotient", "h.join")

DeriveZeta ==
  \/ /\ Goto("computeQuotient", "h.zeta", "h.awaitRestore")
     /\ Derive("zeta")
     /\ UNCHANGED <<task, closed, firstErr, results, proof, hinted, form>>
  \/ Error("computeQuotient", "h.zeta")

CloseH ==
  /\ CloseAndReturn("computeQuotient", "h.close", "chH")
  /\ UNCHANGED <<task, firstErr, results, proof, hinted, derived, form>>

-------------------------------------------------------------------------------
(* openZ, computeLinearizedPolynomial, batchOpening.                       *)

BlindZ ==
  /\ Goto("openZ", "openZ.blind", "openZ.open")
  /\ Set({"blindedZ"}, form["Z"])
  /\ UNCHANGED <<task, closed, firstErr, results, proof, hinted, derived>>

OpenZ ==
  \/ /\ CloseAndReturn("openZ", "openZ.open", "chZOpening")
     /\ Write("ZShifted", "good")
     /\ UNCHANGED <<task, firstErr, results, hinted, derived, form>>
  \/ /\ Return("openZ", "openZ.open", "own")
     /\ Write("ZShifted", "bad")
     /\ UNCHANGED <<task, closed, results, hinted, derived, form>>

StartEvaluations ==
  /\ Goto("computeLinearizedPolynomial", "lin.fork", "lin.awaitZ")
  /\ Fork(EvalTasks)
  /\ UNCHANGED <<closed, firstErr, results, proof, hinted, derived, form>>

\* Faulty: the goroutine hands its value over an unbuffered channel that only
\* the joining stage reads.
EvaluateUnbuffered(t) ==
  /\ t \in EvalTasks
  /\ task[t] = "run"
  /\ stage["computeLinearizedPolynomial"] = "lin.join"
  /\ task' = [task EXCEPT ![t] = "done"]
  /\ UNCHANGED <<stage, closed, firstErr, results, proof, hinted, derived, form>>

Evaluate(t) ==
  /\ t \in EvalTasks
  /\ task[t] = "run"
  /\ task' = [task EXCEPT ![t] = "done"]
  /\ UNCHANGED <<stage, closed, firstErr, results, proof, hinted, derived, form>>

JoinEvaluations ==
  /\ Joined(EvalTasks)
  /\ Goto("computeLinearizedPolynomial", "lin.join", "lin.inner")
  /\ UNCHANGED <<task, closed, firstErr, results, proof, hinted, derived, form>>

\* In place: the blinded Z becomes the linearised polynomial, and the trace's
\* own Qk goes to canonical form.
Linearize ==
  /\ Goto("computeLinearizedPolynomial", "lin.inner", "lin.commit")
  /\ form' = [form EXCEPT !["blindedZ"] = "linearized", !["traceQk"] = "canonical"]
  /\ UNCHANGED <<task, closed, firstErr, results, proof, hinted, derived>>

CommitLinearized ==
  \/ /\ CloseAndReturn("computeLinearizedPolynomial", "lin.commit",
                       "chLinearizedPolynomial")
     /\ UNCHANGED <<task, firstErr, results, proof, hinted, derived, form>>
  \/ Error("computeLinearizedPolynomial", "lin.commit")

BatchOpen ==
  /\ \/ /\ Goto("batchOpening", "batch.open", "done")
        /\ Write("Batched", "good")
        /\ UNCHANGED firstErr
     \/ /\ Return("batchOpening", "batch.open", "own")
        /\ Write("Batched", "bad")
  /\ UNCHANGED <<task, closed, results, hinted, derived, form>>

-------------------------------------------------------------------------------
(* Prove.                                                                  *)

Stopped(s) == stage[s] \in {"done", "failed"}

\* g.Wait() returns when every stage has; tasks a stage left behind go on.
ReturnFromProve ==
  /\ result = "pending"
  /\ \A s \in Stages : Stopped(s)
  /\ result' = IF firstErr = "none" THEN "proof" ELSE "error"
  /\ UNCHANGED <<stage, task, closed, firstErr, witnessOk, proof, hinted,
                 derived, form>>

Stage(s) ==
  \/ \E a \in Awaits : a.stage = s /\ Select(a)
  \/ /\ s = "solveConstraints"
     /\ (\E c \in Commitments : Bsb22Hint(c)) \/ Solve \/ CommitToLRO \/ JoinLRO
  \/ /\ s = "completeQk"
     /\ CloneQk \/ FillQk
  \/ /\ s = "initBlindingPolynomials"
     /\ SampleBlinding
  \/ /\ s = "deriveGammaAndBeta"
     /\ BindPublicData \/ DeriveGamma \/ DeriveBeta
  \/ /\ s = "buildRatioCopyConstraint"
     /\ BuildRatio \/ CommitZ \/ ReturnFromRatio
  \/ /\ s = "computeQuotient"
     /\ \/ AssignTrace \/ AssignPi2 \/ DeriveAlpha \/ ShiftZ \/ BuildTwiddles
        \/ EvaluateOnCosets \/ DivideByZH \/ CommitToQuotient \/ JoinQuotient
        \/ DeriveZeta \/ CloseH
  \/ /\ s = "openZ"
     /\ BlindZ \/ OpenZ
  \/ /\ s = "computeLinearizedPolynomial"
     /\ StartEvaluations \/ JoinEvaluations \/ Linearize \/ CommitLinearized
  \/ /\ s = "batchOpening"
     /\ BatchOpen

Task(t) ==
  \/ \E w \in Wires : t = <<"lro", w>> /\ (SubtractS0(w) \/ CommitWire(w))
  \/ \E h \in Shards : t = <<"shard", h>> /\ CommitShard(h)
  \/ Evaluate(t)
  \/ t = Restore /\ RestoreLRO

Next == \/ \E s \in Stages : Stage(s)
        \/ \E t \in Tasks : Task(t)
        \/ ReturnFromProve

\* The Go scheduler runs every goroutine that can run, and every call the
\* goroutines make (solver, MSM, hash) returns.
Fairness == /\ \A s \in Stages : WF_vars(Stage(s))
            /\ \A t \in Tasks : WF_vars(Task(t))
            /\ WF_vars(ReturnFromProve)

Spec == Init /\ [][Next]_vars /\ Fairness
-------------------------------------------------------------------------------
(* What each piece of code reads and writes while it runs.                 *)

Coeffs(P) == {<<"x", p>> : p \in P}
Parts(M)  == {<<"proof", m>> : m \in M}
Fields(F) == {<<"field", f>> : f \in F}

NumeratorPolys == Wires \cup {"Z", "ZS", "Qk", "fixed", "Pi", "bp"}

StageReads(l) ==
  CASE l = "qk.clone"     -> Coeffs({"traceQk"})
    [] l = "qk.fill"      -> Fields({"commitmentVal"})
    [] l = "gamma.derive" -> Parts(Wires)
    [] l = "ratio.build"  -> Coeffs(Wires) \cup Fields({"gamma", "beta"})
    [] l = "ratio.commit" -> Coeffs({"Z", "bp"})
    [] l = "h.pi2"        -> Coeffs({"Pi"})
    [] l = "h.alpha"      -> Parts({"Z"}) \cup Fields({"bsb22"})
    [] l = "h.shiftZ"     -> Coeffs({"Z"})
    [] l = "h.rho"        -> Fields({"gamma", "beta", "alpha"})
    [] l = "h.zeta"       -> Parts(Shards)
    [] l = "openZ.blind"  -> Coeffs({"Z", "bp"}) \cup Fields({"zeta"})
    [] l = "openZ.open"   -> Coeffs({"blindedZ"}) \cup Fields({"zeta"})
    [] l = "lin.join"     -> Parts({"ZShifted"})
    [] l = "lin.inner"    -> Coeffs({"fixed", "Pi"}) \cup
                             Fields({"gamma", "beta", "alpha", "zeta", "h"})
    [] l = "lin.commit"   -> Coeffs({"blindedZ"})
    [] l = "batch.open"   -> Coeffs(Wires \cup {"bp", "fixed", "blindedZ"}) \cup
                             Parts(Wires \cup {"ZShifted"}) \cup
                             Fields({"zeta", "linDigest"})
    [] OTHER              -> {}

StageWrites(l) ==
  CASE l = "solve"        -> Coeffs(Wires \cup {"Pi"}) \cup
                             Fields({"commitmentVal", "bsb22"})
    [] l = "qk.fill"      -> Coeffs({"Qk"})
    [] l = "bp.sample"    -> Coeffs({"bp"})
    [] l = "gamma.bind"   -> Fields({"fs"})
    [] l = "gamma.derive" -> Fields({"fs"})
    [] l = "beta.derive"  -> Fields({"fs", "gamma", "beta"})
    [] l = "ratio.build"  -> Coeffs({"Z"})
    [] l = "ratio.commit" -> Parts({"Z"})
    [] l = "h.alpha"      -> Fields({"fs", "alpha"})
    [] l = "h.shiftZ"     -> Coeffs({"ZS"})
    [] l = "h.rho"        -> Coeffs(NumeratorPolys)
    [] l = "h.divide"     -> Fields({"h"})
    [] l = "h.zeta"       -> Fields({"fs", "zeta"})
    [] l = "openZ.blind"  -> Coeffs({"blindedZ"})
    [] l = "openZ.open"   -> Parts({"ZShifted"})
    [] l = "lin.inner"    -> Coeffs({"blindedZ", "traceQk"})
    [] l = "lin.commit"   -> Fields({"linDigest"})
    [] l = "batch.open"   -> Parts({"Batched"})
    [] OTHER              -> {}

TaskReads(t) ==
  CASE t \in LroTasks   -> Coeffs({"bp"})
    [] t \in ShardTasks -> Fields({"h"})
    [] t \in EvalTasks  -> Coeffs(IF t[2] \in Wires THEN {t[2], "bp"} ELSE {"fixed"})
                           \cup Fields({"zeta"})
    [] OTHER            -> {}

TaskWrites(t) ==
  CASE t \in LroTasks   -> Coeffs({t[2]}) \cup Parts({t[2]})
    [] t \in ShardTasks -> Parts({t[2]})
    [] t = Restore      -> Coeffs(NumeratorPolys)
    [] OTHER            -> {}

Alive(t) == task[t] \in {"run", "msm"}

-------------------------------------------------------------------------------
(* Properties.                                                             *)

\* The type invariant.
TypeOK ==
  /\ DOMAIN stage = Stages /\ \A s \in Stages : stage[s] \in Code(s)
  /\ task \in [Tasks -> {"idle", "run", "msm", "done", "failed"}]
  /\ closed \subseteq Channels
  /\ firstErr \in {"none"} \cup Errors
  /\ result \in {"pending", "proof", "error"}
  /\ witnessOk \in BOOLEAN
  /\ proof \in [Messages -> {"none", "good", "bad"}]
  /\ hinted \subseteq Commitments
  /\ derived \subseteq Challenges
  /\ DOMAIN form = Polys /\ \A p \in Polys : form[p] \in FormsOf(p)

\* No two goroutines of a call to Prove touch the same polynomial, proof part
\* or field at the same time when one of them writes it: the instance has no
\* lock, only the channels order its stages and the goroutines they start.
NoRace ==
  /\ \A s, r \in Stages : s # r =>
       StageWrites(stage[s]) \cap (StageReads(stage[r]) \cup StageWrites(stage[r])) = {}
  /\ \A t \in Tasks, s \in Stages : Alive(t) =>
       /\ TaskWrites(t) \cap (StageReads(stage[s]) \cup StageWrites(stage[s])) = {}
       /\ StageWrites(stage[s]) \cap TaskReads(t) = {}
  /\ \A t, u \in Tasks : t # u /\ Alive(t) /\ Alive(u) =>
       TaskWrites(t) \cap (TaskReads(u) \cup TaskWrites(u)) = {}

\* Each consumer finds the polynomials in the basis it computes in, although
\* the rho loop and the restoring goroutine move all of them in place: the
\* ratio and the numerator read Lagrange form with s0 added back, the openings
\* and the linearisation read canonical form, and the blinded Z is opened
\* before it is overwritten and batch-opened after.
FormsReady ==
  /\ stage["buildRatioCopyConstraint"] = "ratio.build" =>
       \A w \in Wires : form[w] = "lagrange"
  /\ stage["buildRatioCopyConstraint"] = "ratio.commit" =>
       form["Z"] = "lagrange" /\ form["bp"] = "canonical"
  /\ stage["computeQuotient"] = "h.rho" =>
       \A p \in NumeratorPolys : form[p] = IF p = "bp" THEN "canonical" ELSE "lagrange"
  /\ stage["openZ"] = "openZ.blind" =>
       form["Z"] = "canonical" /\ form["bp"] = "canonical"
  /\ stage["openZ"] = "openZ.open" => form["blindedZ"] = "canonical"
  /\ \A t \in EvalTasks : Alive(t) =>
       \A p \in {"fixed", "bp"} \cup Wires : form[p] = "canonical"
  /\ stage["computeLinearizedPolynomial"] = "lin.inner" =>
       \A p \in {"fixed", "Pi", "blindedZ"} : form[p] = "canonical"
  /\ stage["batchOpening"] = "batch.open" =>
       /\ \A p \in {"fixed", "bp"} \cup Wires : form[p] = "canonical"
       /\ form["blindedZ"] = "linearized"

\* When Prove returns a proof every part of it was written by a call that
\* succeeded, all four challenges were drawn, and no goroutine it started is
\* still running: the caller owns the proof and the instance's buffers.
ProofIsComplete ==
  result = "proof" =>
    /\ \A m \in Messages : proof[m] = "good"
    /\ hinted = Commitments /\ derived = Challenges
    /\ \A t \in Tasks : task[t] = "done"

\* The error Prove returns is the one that made the call fail, never the
\* errContextDone of a stage that only noticed the cancellation.
ErrorIsTheCause == result = "error" => firstErr = "own"

\* A stage that cannot go on: it has returned, or is in a select none of whose
\* channels is ready, or waits for the goroutines it started.
Joins == {[at |-> "lro.join", tasks |-> LroTasks],
          [at |-> "h.join", tasks |-> ShardTasks],
          [at |-> "lin.join", tasks |-> EvalTasks]}

Stuck(s) ==
  \/ Stopped(s)
  \/ ~CtxDone /\ \E a \in Awaits :
       a.stage = s /\ stage[s] = a.at /\ a.channel \notin closed
  \/ \E j \in Joins : stage[s] = j.at /\ ~Joined(j.tasks)

\* When no goroutine of the call can go on, every stage has returned, so that
\* g.Wait() does too: stages never wait for one another in a circle, for a
\* channel whose closer returned without closing it, or for a goroutine that
\* was never started.
NoDeadlock ==
  (\A s \in Stages : Stuck(s)) /\ (\A t \in Tasks : ~Alive(t)) =>
    \A s \in Stages : Stopped(s)

\* Prove is an implementation of the protocol it runs: it produces the
\* messages and challenges in an order the protocol allows, never rewrites
\* one that a challenge has bound, and accepts only a complete run.
Protocol == INSTANCE PlonkProtocol WITH sent <- proof, outcome <- result
ImplementsProtocol == Protocol!Spec

\* Prove returns, whatever fails: no stage waits for ever on a channel.
Returns == <>(result # "pending")

\* No goroutine outlives the call for ever, those that a failed stage left
\* behind included.
NoGoroutineLeft == <>[](\A t \in Tasks : ~Alive(t))
===============================================================================
