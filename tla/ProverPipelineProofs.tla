------------------------ MODULE ProverPipelineProofs ------------------------
(***************************************************************************)
(* For every set of BSB22 commitments: the type invariant of the pipeline, *)
(* that the error Prove returns is the cause of the failure, that a        *)
(* returned proof is complete, that no two goroutines of a call race, that *)
(* every polynomial is in the basis its consumer needs, and that the steps *)
(* are those of PlonkProtocol.                                             *)
(*                                                                         *)
(* Completeness is proved stage by stage (IInv).  What a stage has         *)
(* achieved is attached to the labels it can only reach by achieving it;   *)
(* Prove returns a proof only when every stage has ended without an error. *)
(*                                                                         *)
(* The rest follows from what the channels order.  OrderInv says what a    *)
(* stage at a label has waited for, what a closed channel says of the      *)
(* stage that closes it, and where a stage is while a goroutine it started *)
(* is at work; from a label one reads off which labels the others can be   *)
(* at.  The polynomials have two lives, before the rho loop (EarlyInv) and *)
(* after the restoring goroutine (LateInv), and nothing is said of them in *)
(* between, where only that goroutine and the loop may touch them.         *)
(***************************************************************************)
EXTENDS ProverPipeline, TLAPS

-------------------------------------------------------------------------------
(* The strengthening of completeness.                                      *)

\* The only error that can be the first is one of the code's own.
CauseInv == /\ firstErr \in {"none", "own"}
            /\ result = "error" => firstErr = "own"

\* A stage that failed has been heard, and a proof means that all have ended.
EndInv == /\ \A s \in Stages : stage[s] = "failed" => CtxDone
          /\ result = "proof" => \A s \in Stages : stage[s] = "done"

\* Labels of computeQuotient up to the rho loop.
BeforeRestore == {"h.assign", "h.awaitLRO", "h.pi2", "h.awaitZ", "h.alpha",
                  "h.shiftZ", "h.twiddles", "h.awaitQk", "h.rho"}

SolveInv ==
  /\ stage["solveConstraints"] \in {"lro.await", "lro.fork", "lro.join", "done"} =>
       hinted = Commitments
  /\ stage["solveConstraints"] = "done" => AllDone(LroTasks)
  /\ \A w \in Wires : task[<<"lro", w>>] = "done" => proof[w] = "good"

RatioInv == stage["buildRatioCopyConstraint"] = "done" => proof["Z"] = "good"

QuotientInv ==
  /\ stage["computeQuotient"] \in {"h.zeta", "h.awaitRestore", "h.close", "done"} =>
       AllDone(ShardTasks)
  /\ \A h \in Shards : task[<<"shard", h>>] = "done" => proof[h] = "good"
  /\ stage["computeQuotient"] \in {"h.awaitRestore", "h.close", "done"} =>
       "zeta" \in derived
  /\ "zeta" \in derived => Challenges \subseteq derived

RestoreInv ==
  /\ stage["computeQuotient"] \in BeforeRestore =>
       task[Restore] = "idle" /\ "chRestoreLRO" \notin closed
  /\ "chRestoreLRO" \in closed => task[Restore] = "done"
  /\ stage["computeQuotient"] \in {"h.close", "done"} => task[Restore] = "done"

OpeningInv ==
  /\ stage["openZ"] = "done" => proof["ZShifted"] = "good"
  /\ stage["computeLinearizedPolynomial"] \in {"lin.inner", "lin.commit", "done"} =>
       AllDone(EvalTasks)
  /\ \A t \in EvalTasks : task[t] # "failed"
  /\ stage["batchOpening"] = "done" => proof["Batched"] = "good"

Achieved == SolveInv /\ RatioInv /\ QuotientInv /\ RestoreInv /\ OpeningInv

IInv == TypeOK /\ CauseInv /\ EndInv /\ Achieved

-------------------------------------------------------------------------------
(* Labels, waits and forms.                                                *)

\* Every label an action leads to is one of its stage.
LEMMA CodeLemma ==
  /\ \A s \in Stages : {Entry(s), "done", "failed"} \subseteq Code(s)
  /\ {"lro.await", "lro.fork", "lro.join"} \subseteq Code("solveConstraints")
  /\ {"qk.await", "qk.fill"} \subseteq Code("completeQk")
  /\ {"gamma.await", "gamma.derive", "beta.derive"} \subseteq Code("deriveGammaAndBeta")
  /\ {"ratio.build", "ratio.commit", "ratio.return"} \subseteq Code("buildRatioCopyConstraint")
  /\ {"h.awaitLRO", "h.pi2", "h.awaitZ", "h.alpha", "h.shiftZ", "h.twiddles",
      "h.awaitQk", "h.rho", "h.divide", "h.fork", "h.join", "h.zeta",
      "h.awaitRestore", "h.close"} \subseteq Code("computeQuotient")
  /\ {"openZ.blind", "openZ.open"} \subseteq Code("openZ")
  /\ {"lin.fork", "lin.awaitZ", "lin.join", "lin.inner", "lin.commit"}
       \subseteq Code("computeLinearizedPolynomial")
  /\ "batch.open" \in Code("batchOpening")
BY DEF Code, Entry, Stages

\* A wait leads to a label of its stage, and to one of those Achieved speaks of
\* only from a label that has achieved it or through chRestoreLRO.
LEMMA AwaitLemma ==
  ASSUME NEW a \in Awaits
  PROVE  /\ a.stage \in Stages
         /\ a.then \in Code(a.stage)
         /\ a.at \notin {"done", "failed"}
         /\ a.then \notin {"done", "failed", "lro.await", "lro.join", "h.zeta",
                           "h.awaitRestore", "lin.inner", "lin.commit"}
         /\ a.then = "lro.fork" => a.at = "lro.await"
         /\ a.then \in BeforeRestore => a.at \in BeforeRestore
         /\ a.then = "h.close" => a.at = "h.awaitRestore" /\ a.channel = "chRestoreLRO"
BY CodeLemma DEF Awaits, Await, Stages, BeforeRestore

\* The forms the actions put polynomials in are theirs.
LEMMA FormLemma ==
  /\ \A w \in Wires : {"nil", "lagrange", "shifted", "coset", "canonical"} \subseteq FormsOf(w)
  /\ \A p \in {"Z", "ZS", "fixed", "Pi"} :
       FormsOf(p) = {"nil", "lagrange", "coset", "canonical"}
  /\ {"nil", "lagrange", "coset"} \subseteq FormsOf("Qk")
  /\ {"lagrange", "canonical"} \subseteq FormsOf("traceQk")
  /\ {"nil", "canonical", "lifted"} \subseteq FormsOf("bp")
  /\ {"nil", "lagrange", "coset", "canonical", "linearized"} \subseteq FormsOf("blindedZ")
BY DEF FormsOf, Wires

LEMMA InitInv == Init => IInv
<1> SUFFICES ASSUME Init PROVE IInv
  OBVIOUS
<1>1. TypeOK
  BY CodeLemma, FormLemma DEF Init, TypeOK, Polys, Errors
<1>2. CauseInv /\ EndInv
  BY DEF Init, CauseInv, EndInv, CtxDone, Entry, Stages
<1>3. Achieved
  BY DEF Init, Achieved, SolveInv, RatioInv, QuotientInv, RestoreInv, OpeningInv,
         Entry, Stages, BeforeRestore, Wires, Shards, LroTasks, ShardTasks,
         EvalTasks, Tasks, Restore
<1> QED BY <1>1, <1>2, <1>3 DEF IInv

\* A select, whichever way it goes.
LEMMA SelectInv ==
  ASSUME IInv, NEW a \in Awaits, Select(a)
  PROVE  IInv'
<1>1. TypeOK'
  BY AwaitLemma, CodeLemma DEF IInv, TypeOK, Select, Goto, Return, Recorded, Errors, results
<1> DEFINE s == a.stage
<1>2. /\ stage' = [stage EXCEPT ![s] = stage'[s]]
      /\ \/ stage'[s] = a.then /\ a.channel \in closed
         \/ stage'[s] = "failed" /\ CtxDone'
      /\ stage[s] = a.at
      /\ UNCHANGED <<task, closed, results, proof, hinted, derived, firstErr>>
  <2>1. CASE a.channel \in closed /\ Goto(s, a.at, a.then) /\ UNCHANGED firstErr
    BY <2>1, AwaitLemma DEF IInv, TypeOK, Select, Goto
  <2>2. CASE CtxDone /\ Return(s, a.at, "contextDone")
    BY <2>2, AwaitLemma DEF IInv, TypeOK, Select, Goto, Return, Recorded, CtxDone
  <2> QED BY <2>1, <2>2 DEF Select
<1>3. CauseInv' /\ EndInv'
  BY <1>2, AwaitLemma DEF IInv, TypeOK, CauseInv, EndInv, CtxDone, results
<1>4. SolveInv'
  BY <1>2, AwaitLemma DEF IInv, TypeOK, Achieved, SolveInv, Stages, AllDone
<1>5. RatioInv' /\ QuotientInv' /\ OpeningInv'
  BY <1>2, AwaitLemma DEF IInv, TypeOK, Achieved, RatioInv, QuotientInv, OpeningInv, Stages, AllDone
<1>6. RestoreInv'
  BY <1>2, AwaitLemma DEF IInv, TypeOK, Achieved, RestoreInv, Stages, BeforeRestore
<1> QED BY <1>1, <1>3, <1>4, <1>5, <1>6 DEF IInv, Achieved

\* A call that returns an error, leaving everything else as it is.
LEMMA ErrorInv ==
  ASSUME IInv, NEW s \in Stages, NEW from, from # "done", Error(s, from)
  PROVE  IInv'
<1> USE DEF IInv, TypeOK
<1>1. /\ stage' = [stage EXCEPT ![s] = "failed"] /\ stage[s] = from
      /\ firstErr' = "own"
      /\ UNCHANGED <<task, closed, result, witnessOk, proof, hinted, derived, form>>
  BY DEF Error, Return, Goto, Recorded, CauseInv, results
<1>2. TypeOK'
  BY <1>1, CodeLemma DEF Errors
<1>3. CauseInv' /\ EndInv'
  BY <1>1 DEF CauseInv, EndInv, CtxDone
<1>4. SolveInv' /\ RatioInv'
  BY <1>1 DEF Achieved, SolveInv, RatioInv, Stages, AllDone
<1>5. QuotientInv' /\ OpeningInv'
  BY <1>1 DEF Achieved, QuotientInv, OpeningInv, Stages, AllDone
<1>6. RestoreInv'
  BY <1>1 DEF Achieved, RestoreInv, Stages, BeforeRestore
<1> QED BY <1>2, <1>3, <1>4, <1>5, <1>6 DEF Achieved

\* A stage that goes on, or ends, without an error.
LEMMA GoesOn ==
  ASSUME IInv, NEW s \in Stages, NEW from, NEW to \in Code(s),
         from # "done", to # "failed", Goto(s, from, to), UNCHANGED <<firstErr, result>>
  PROVE  /\ CauseInv' /\ EndInv'
         /\ DOMAIN stage' = Stages /\ \A r \in Stages : stage'[r] \in Code(r)
         /\ stage[s] = from /\ stage'[s] = to
         /\ \A r \in Stages \ {s} : stage'[r] = stage[r]
BY DEF IInv, TypeOK, CauseInv, EndInv, CtxDone, Goto

\* A goroutine of a stage.
LEMMA RunsOn ==
  ASSUME IInv, UNCHANGED <<stage, firstErr, result>>
  PROVE  CauseInv' /\ EndInv'
BY DEF IInv, CauseInv, EndInv, CtxDone

\* Tasks of different kinds are different.
LEMMA TaskLemma ==
  /\ LroTasks \cap ShardTasks = {} /\ LroTasks \cap EvalTasks = {}
  /\ ShardTasks \cap EvalTasks = {}
  /\ Restore \notin LroTasks \cup ShardTasks \cup EvalTasks
  /\ \A w \in Wires : <<"lro", w>> \in LroTasks
  /\ \A h \in Shards : <<"shard", h>> \in ShardTasks
BY DEF LroTasks, ShardTasks, EvalTasks, Restore

\* solveConstraints.
LEMMA SolveConstraintsInv ==
  ASSUME IInv,
         (\E c \in Commitments : Bsb22Hint(c)) \/ Solve \/ CommitToLRO \/ JoinLRO
  PROVE  IInv'
<1> DEFINE s == "solveConstraints"
<1>0. s \in Stages /\ {"lro.await", "lro.join", "done"} \subseteq Code(s)
  BY CodeLemma DEF Stages
<1>1. ASSUME NEW c \in Commitments, Bsb22Hint(c) PROVE IInv'
  <2>1. TypeOK'
    BY <1>1 DEF IInv, TypeOK, Bsb22Hint, results
  <2>2. CauseInv' /\ EndInv'
    BY <1>1, RunsOn DEF Bsb22Hint, results
  <2>3. Achieved'
    BY <1>1 DEF IInv, Achieved, SolveInv, RatioInv, QuotientInv, RestoreInv, OpeningInv,
                Bsb22Hint, AllDone
  <2> QED BY <2>1, <2>2, <2>3 DEF IInv
<1>2. CASE /\ witnessOk /\ hinted = Commitments
           /\ Goto(s, "solve", "lro.await")
           /\ Set(Wires \cup {"Pi"}, "lagrange")
           /\ UNCHANGED <<task, closed, firstErr, results, proof, hinted, derived>>
  <2>1. TypeOK'
    BY <1>0, <1>2, GoesOn, FormLemma DEF IInv, TypeOK, Set, results
  <2>2. CauseInv' /\ EndInv'
    BY <1>0, <1>2, GoesOn DEF results
  <2>3. Achieved'
    BY <1>0, <1>2, GoesOn DEF IInv, Achieved, SolveInv, RatioInv, QuotientInv,
       RestoreInv, OpeningInv, AllDone, Stages, results
  <2> QED BY <2>1, <2>2, <2>3 DEF IInv
<1>3. CASE /\ Goto(s, "lro.fork", "lro.join")
           /\ Fork(LroTasks)
           /\ UNCHANGED <<closed, firstErr, results, proof, hinted, derived, form>>
  <2>1. TypeOK'
    BY <1>0, <1>3, GoesOn DEF IInv, TypeOK, Fork, results
  <2>2. CauseInv' /\ EndInv'
    BY <1>0, <1>3, GoesOn DEF results
  <2>3. /\ \A t \in LroTasks : task'[t] = "run"
        /\ \A t \in Tasks \ LroTasks : task'[t] = task[t]
    BY <1>3 DEF Fork, Tasks
  <2>4. SolveInv'
    BY <1>0, <1>3, <2>3, GoesOn, TaskLemma DEF IInv, Achieved, SolveInv, results
  <2>5. RatioInv' /\ QuotientInv' /\ RestoreInv' /\ OpeningInv'
    BY <1>0, <1>3, <2>3, GoesOn, TaskLemma DEF IInv, Achieved, RatioInv, QuotientInv,
       RestoreInv, OpeningInv, AllDone, Stages, Tasks, results
  <2> QED BY <2>1, <2>2, <2>4, <2>5 DEF IInv, Achieved
<1>4. CASE /\ AllDone(LroTasks)
           /\ CloseAndReturn(s, "lro.join", "chLRO")
           /\ UNCHANGED <<task, firstErr, results, proof, hinted, derived, form>>
  <2>1. TypeOK'
    BY <1>0, <1>4, GoesOn DEF IInv, TypeOK, CloseAndReturn, Channels, results
  <2>2. CauseInv' /\ EndInv'
    BY <1>0, <1>4, GoesOn DEF CloseAndReturn, results
  <2>3. Achieved'
    BY <1>0, <1>4, GoesOn DEF IInv, Achieved, SolveInv, RatioInv, QuotientInv,
       RestoreInv, OpeningInv, AllDone, Stages, CloseAndReturn, results
  <2> QED BY <2>1, <2>2, <2>3 DEF IInv
<1>5. ASSUME NEW from \in {"solve", "lro.fork", "lro.join"}, Error(s, from) PROVE IInv'
  BY <1>0, <1>5, ErrorInv
<1> QED BY <1>1, <1>2, <1>3, <1>4, <1>5 DEF Solve, CommitToLRO, JoinLRO

\* completeQk, initBlindingPolynomials and deriveGammaAndBeta: what Achieved
\* speaks of stays as it is.
LEMMA EarlyStagesKeep ==
  ASSUME IInv,
         NEW s \in {"completeQk", "initBlindingPolynomials", "deriveGammaAndBeta"},
         \A r \in Stages \ {s} : stage'[r] = stage[r],
         UNCHANGED <<task, proof, hinted>>,
         "chRestoreLRO" \in closed' <=> "chRestoreLRO" \in closed,
         derived \subseteq derived', "zeta" \in derived' => "zeta" \in derived
  PROVE  Achieved'
BY DEF IInv, Achieved, SolveInv, RatioInv, QuotientInv, RestoreInv, OpeningInv, Stages, AllDone

LEMMA EarlyStagesInv ==
  ASSUME IInv,
         \/ CloneQk \/ FillQk \/ SampleBlinding
         \/ BindPublicData \/ DeriveGamma \/ DeriveBeta
  PROVE  IInv'
<1>0. /\ {"completeQk", "initBlindingPolynomials", "deriveGammaAndBeta"} \subseteq Stages
      /\ {"qk.await", "done"} \subseteq Code("completeQk")
      /\ "done" \in Code("initBlindingPolynomials")
      /\ {"gamma.await", "beta.derive", "done"} \subseteq Code("deriveGammaAndBeta")
  BY CodeLemma DEF Stages
<1>1. CASE /\ Goto("completeQk", "qk.clone", "qk.await")
           /\ UNCHANGED <<task, closed, firstErr, results, proof, hinted, derived, form>>
  <2>1. TypeOK' /\ CauseInv' /\ EndInv'
    BY <1>0, <1>1, GoesOn DEF IInv, TypeOK, results
  <2>2. Achieved'
    BY <1>0, <1>1, GoesOn, EarlyStagesKeep DEF results
  <2> QED BY <2>1, <2>2 DEF IInv
<1>2. CASE FillQk
  <2>1. TypeOK' /\ CauseInv' /\ EndInv'
    BY <1>0, <1>2, GoesOn, FormLemma DEF FillQk, CloseAndReturn, Set, IInv, TypeOK, Channels, results
  <2>2. Achieved'
    BY <1>0, <1>2, GoesOn, EarlyStagesKeep DEF FillQk, CloseAndReturn, results
  <2> QED BY <2>1, <2>2 DEF IInv
<1>3. CASE SampleBlinding
  <2>1. TypeOK' /\ CauseInv' /\ EndInv'
    BY <1>0, <1>3, GoesOn, FormLemma
       DEF SampleBlinding, CloseAndReturn, Set, IInv, TypeOK, Channels, results
  <2>2. Achieved'
    BY <1>0, <1>3, GoesOn, EarlyStagesKeep DEF SampleBlinding, CloseAndReturn, results
  <2> QED BY <2>1, <2>2 DEF IInv
<1>4. CASE /\ Goto("deriveGammaAndBeta", "gamma.bind", "gamma.await")
           /\ UNCHANGED <<task, closed, firstErr, results, proof, hinted, derived, form>>
  <2>1. TypeOK' /\ CauseInv' /\ EndInv'
    BY <1>0, <1>4, GoesOn DEF IInv, TypeOK, results
  <2>2. Achieved'
    BY <1>0, <1>4, GoesOn, EarlyStagesKeep DEF results
  <2> QED BY <2>1, <2>2 DEF IInv
<1>5. CASE /\ Goto("deriveGammaAndBeta", "gamma.derive", "beta.derive")
           /\ Derive("gamma")
           /\ UNCHANGED <<task, closed, firstErr, results, proof, hinted, form>>
  <2>1. TypeOK' /\ CauseInv' /\ EndInv'
    BY <1>0, <1>5, GoesOn DEF IInv, TypeOK, Derive, Challenges, results
  <2>2. Achieved'
    BY <1>0, <1>5, GoesOn, EarlyStagesKeep DEF Derive, results
  <2> QED BY <2>1, <2>2 DEF IInv
<1>6. CASE /\ CloseAndReturn("deriveGammaAndBeta", "beta.derive", "chGammaBeta")
           /\ Derive("beta")
           /\ UNCHANGED <<task, firstErr, results, proof, hinted, form>>
  <2>1. TypeOK' /\ CauseInv' /\ EndInv'
    BY <1>0, <1>6, GoesOn DEF IInv, TypeOK, CloseAndReturn, Derive, Channels, Challenges, results
  <2>2. Achieved'
    BY <1>0, <1>6, GoesOn, EarlyStagesKeep DEF CloseAndReturn, Derive, results
  <2> QED BY <2>1, <2>2 DEF IInv
<1>7. ASSUME NEW s \in Stages, NEW from, from # "done", Error(s, from) PROVE IInv'
  BY <1>7, ErrorInv
<1> QED
  BY <1>0, <1>1, <1>2, <1>3, <1>4, <1>5, <1>6, <1>7
     DEF CloneQk, BindPublicData, DeriveGamma, DeriveBeta

\* buildRatioCopyConstraint.
LEMMA RatioStageInv ==
  ASSUME IInv, BuildRatio \/ CommitZ \/ ReturnFromRatio
  PROVE  IInv'
<1> DEFINE s == "buildRatioCopyConstraint"
<1>0. s \in Stages /\ {"ratio.commit", "ratio.return", "done"} \subseteq Code(s)
  BY CodeLemma DEF Stages
<1>1. CASE /\ Goto(s, "ratio.build", "ratio.commit")
           /\ Set({"Z"}, "lagrange")
           /\ UNCHANGED <<task, closed, firstErr, results, proof, hinted, derived>>
  <2>1. TypeOK' /\ CauseInv' /\ EndInv'
    BY <1>0, <1>1, GoesOn, FormLemma DEF IInv, TypeOK, Set, results
  <2>2. Achieved'
    BY <1>0, <1>1, GoesOn DEF IInv, Achieved, SolveInv, RatioInv, QuotientInv,
       RestoreInv, OpeningInv, AllDone, Stages, results
  <2> QED BY <2>1, <2>2 DEF IInv
<1>2. CASE CommitZ
  <2>1. PICK v \in {"good", "bad"} : proof' = [proof EXCEPT !["Z"] = v]
    BY <1>2 DEF CommitZ, Write
  <2>2. TypeOK' /\ CauseInv' /\ EndInv'
    BY <1>0, <1>2, <2>1, GoesOn DEF CommitZ, IInv, TypeOK, Channels, results
  <2>3. /\ stage'[s] = "ratio.return"
        /\ \A r \in Stages \ {s} : stage'[r] = stage[r]
        /\ \A m \in Messages \ {"Z"} : proof'[m] = proof[m]
        /\ closed' = closed \cup {"chZ"}
    BY <1>0, <1>2, <2>1, GoesOn DEF CommitZ, IInv, TypeOK, results
  <2>4. Achieved'
    BY <1>2, <2>3 DEF CommitZ, IInv, TypeOK, Achieved, SolveInv, RatioInv, QuotientInv,
       RestoreInv, OpeningInv, AllDone, Stages, Messages, Wires, Shards, results
  <2> QED BY <2>2, <2>4 DEF IInv
<1>3. CASE /\ proof["Z"] = "good"
           /\ Goto(s, "ratio.return", "done")
           /\ UNCHANGED <<task, closed, firstErr, results, proof, hinted, derived, form>>
  <2>1. TypeOK' /\ CauseInv' /\ EndInv'
    BY <1>0, <1>3, GoesOn DEF IInv, TypeOK, results
  <2>2. Achieved'
    BY <1>0, <1>3, GoesOn DEF IInv, Achieved, SolveInv, RatioInv, QuotientInv,
       RestoreInv, OpeningInv, AllDone, Stages, results
  <2> QED BY <2>1, <2>2 DEF IInv
<1>4. ASSUME NEW from, from # "done", Error(s, from) PROVE IInv'
  BY <1>0, <1>4, ErrorInv
<1> QED BY <1>1, <1>2, <1>3, <1>4 DEF BuildRatio, ReturnFromRatio

\* computeQuotient goes on before the rho loop, or between two of its labels
\* that Achieved does not tell apart.
LEMMA QuotientKeeps ==
  ASSUME IInv,
         \A r \in Stages \ {"computeQuotient"} : stage'[r] = stage[r],
         \/ /\ stage["computeQuotient"] \in BeforeRestore
            /\ stage'["computeQuotient"] \in BeforeRestore
         \/ stage'["computeQuotient"] \in {"h.divide", "h.fork", "h.join"},
         UNCHANGED <<task, proof, hinted, closed>>,
         derived \subseteq derived', "zeta" \in derived' => "zeta" \in derived
  PROVE  Achieved'
BY DEF IInv, Achieved, SolveInv, RatioInv, QuotientInv, RestoreInv, OpeningInv, Stages,
       AllDone, BeforeRestore

LEMMA QuotientStageInv ==
  ASSUME IInv,
         \/ AssignTrace \/ AssignPi2 \/ DeriveAlpha \/ ShiftZ \/ BuildTwiddles
         \/ EvaluateOnCosets \/ DivideByZH \/ CommitToQuotient \/ JoinQuotient
         \/ DeriveZeta \/ CloseH
  PROVE  IInv'
<1> DEFINE s == "computeQuotient"
<1>0. /\ s \in Stages /\ "done" \in Code(s)
      /\ {"h.awaitLRO", "h.awaitZ", "h.shiftZ", "h.twiddles", "h.awaitQk", "h.divide",
          "h.fork", "h.join", "h.zeta", "h.awaitRestore"} \subseteq Code(s)
  BY CodeLemma DEF Stages
<1>1. ASSUME NEW from, NEW to, Proceed(from, to),
             \/ from \in BeforeRestore /\ to \in {"h.awaitLRO", "h.awaitZ", "h.awaitQk"}
             \/ from = "h.divide" /\ to = "h.fork"
      PROVE  IInv'
  <2>1. TypeOK' /\ CauseInv' /\ EndInv'
    BY <1>0, <1>1, GoesOn DEF Proceed, IInv, TypeOK, BeforeRestore, results
  <2>2. Achieved'
    BY <1>0, <1>1, GoesOn, QuotientKeeps DEF Proceed, BeforeRestore, results
  <2> QED BY <2>1, <2>2 DEF IInv
<1>2. CASE /\ Goto(s, "h.alpha", "h.shiftZ")
           /\ Derive("alpha")
           /\ UNCHANGED <<task, closed, firstErr, results, proof, hinted, form>>
  <2>1. TypeOK' /\ CauseInv' /\ EndInv'
    BY <1>0, <1>2, GoesOn DEF IInv, TypeOK, Derive, Challenges, results
  <2>2. Achieved'
    BY <1>0, <1>2, GoesOn, QuotientKeeps DEF Derive, BeforeRestore, results
  <2> QED BY <2>1, <2>2 DEF IInv
<1>3. CASE ShiftZ
  <2>1. form["Z"] \in FormsOf("ZS")
    BY FormLemma DEF IInv, TypeOK, Polys
  <2>2. TypeOK' /\ CauseInv' /\ EndInv'
    BY <1>0, <1>3, <2>1, GoesOn DEF ShiftZ, Set, IInv, TypeOK, results
  <2>3. Achieved'
    BY <1>0, <1>3, GoesOn, QuotientKeeps DEF ShiftZ, BeforeRestore, results
  <2> QED BY <2>2, <2>3 DEF IInv
<1>4. ASSUME OnLastCoset PROVE DOMAIN form' = Polys /\ \A p \in Polys : form'[p] \in FormsOf(p)
  BY <1>4, FormLemma DEF OnLastCoset, IInv, TypeOK, Polys
<1>5. CASE /\ Goto(s, "h.rho", "h.divide")
           /\ Fork({Restore})
           /\ OnLastCoset
           /\ UNCHANGED <<firstErr, closed, results, proof, hinted, derived>>
  <2>1. /\ task'[Restore] = "run"
        /\ \A t \in Tasks \ {Restore} : task'[t] = task[t]
        /\ task' \in [Tasks -> {"idle", "run", "msm", "done", "failed"}]
    BY <1>5 DEF Fork, Tasks, IInv, TypeOK
  <2>2. TypeOK' /\ CauseInv' /\ EndInv'
    BY <1>0, <1>4, <1>5, <2>1, GoesOn DEF IInv, TypeOK, results
  <2>3. SolveInv' /\ RatioInv'
    BY <1>0, <1>5, <2>1, GoesOn, TaskLemma DEF IInv, Achieved, SolveInv, RatioInv, AllDone,
       Stages, Tasks, results
  <2>4. QuotientInv' /\ OpeningInv'
    BY <1>0, <1>5, <2>1, GoesOn, TaskLemma DEF IInv, Achieved, QuotientInv, OpeningInv,
       AllDone, Stages, Tasks, results
  <2>5. RestoreInv'
    BY <1>0, <1>5, <2>1, GoesOn DEF IInv, Achieved, RestoreInv, BeforeRestore, results
  <2> QED BY <2>2, <2>3, <2>4, <2>5 DEF IInv, Achieved
<1>6. CASE /\ Return(s, "h.rho", "own")
           /\ OnLastCoset \/ UNCHANGED form
           /\ UNCHANGED <<task, closed, results, proof, hinted, derived>>
  <2>1. /\ stage' = [stage EXCEPT ![s] = "failed"] /\ stage[s] = "h.rho"
        /\ firstErr' = "own"
    BY <1>6 DEF Return, Goto, Recorded, IInv, CauseInv
  <2>2. TypeOK'
    BY <1>0, <1>4, <1>6, <2>1, CodeLemma DEF IInv, TypeOK, Errors, results
  <2>3. CauseInv' /\ EndInv'
    BY <1>0, <1>6, <2>1 DEF IInv, TypeOK, CauseInv, EndInv, CtxDone, results
  <2>4. Achieved'
    BY <1>0, <1>6, <2>1 DEF IInv, TypeOK, Achieved, SolveInv, RatioInv, QuotientInv,
       RestoreInv, OpeningInv, AllDone, Stages, BeforeRestore, results
  <2> QED BY <2>2, <2>3, <2>4 DEF IInv
<1>7. CASE CommitToQuotient
  <2>1. /\ \A t \in ShardTasks : task'[t] = "run"
        /\ \A t \in Tasks \ ShardTasks : task'[t] = task[t]
        /\ task' \in [Tasks -> {"idle", "run", "msm", "done", "failed"}]
    BY <1>7 DEF CommitToQuotient, Fork, Tasks, IInv, TypeOK
  <2>2. TypeOK' /\ CauseInv' /\ EndInv'
    BY <1>0, <1>7, <2>1, GoesOn DEF CommitToQuotient, IInv, TypeOK, results
  <2>3. SolveInv' /\ RatioInv' /\ OpeningInv'
    BY <1>0, <1>7, <2>1, GoesOn, TaskLemma DEF CommitToQuotient, IInv, Achieved, SolveInv,
       RatioInv, OpeningInv, AllDone, Stages, Tasks, results
  <2>4. QuotientInv' /\ RestoreInv'
    BY <1>0, <1>7, <2>1, GoesOn, TaskLemma DEF CommitToQuotient, IInv, Achieved, QuotientInv,
       RestoreInv, BeforeRestore, Tasks, results
  <2> QED BY <2>2, <2>3, <2>4 DEF IInv, Achieved
<1>8. CASE AllDone(ShardTasks) /\ Proceed("h.join", "h.zeta")
  <2>1. TypeOK' /\ CauseInv' /\ EndInv'
    BY <1>0, <1>8, GoesOn DEF Proceed, IInv, TypeOK, results
  <2>2. Achieved'
    BY <1>0, <1>8, GoesOn DEF Proceed, IInv, Achieved, SolveInv, RatioInv, QuotientInv,
       RestoreInv, OpeningInv, AllDone, Stages, BeforeRestore, results
  <2> QED BY <2>1, <2>2 DEF IInv
<1>9. CASE /\ Goto(s, "h.zeta", "h.awaitRestore")
           /\ Derive("zeta")
           /\ UNCHANGED <<task, closed, firstErr, results, proof, hinted, form>>
  <2>1. derived' = Challenges
    BY <1>9 DEF Derive, Earlier, Challenges, IInv, TypeOK
  <2>2. TypeOK' /\ CauseInv' /\ EndInv'
    BY <1>0, <1>9, <2>1, GoesOn DEF IInv, TypeOK, results
  <2>3. Achieved'
    BY <1>0, <1>9, <2>1, GoesOn DEF IInv, Achieved, SolveInv, RatioInv, QuotientInv,
       RestoreInv, OpeningInv, AllDone, Stages, BeforeRestore, Challenges, results
  <2> QED BY <2>2, <2>3 DEF IInv
<1>10. CASE CloseH
  <2>1. TypeOK' /\ CauseInv' /\ EndInv'
    BY <1>0, <1>10, GoesOn DEF CloseH, CloseAndReturn, IInv, TypeOK, Channels, results
  <2>2. Achieved'
    BY <1>0, <1>10, GoesOn DEF CloseH, CloseAndReturn, IInv, Achieved, SolveInv, RatioInv,
       QuotientInv, RestoreInv, OpeningInv, AllDone, Stages, BeforeRestore, results
  <2> QED BY <2>1, <2>2 DEF IInv
<1>11. ASSUME NEW from, from # "done", Error(s, from) PROVE IInv'
  BY <1>0, <1>11, ErrorInv
<1> QED
  <2>1. CASE AssignTrace \/ AssignPi2 \/ BuildTwiddles \/ DivideByZH
    BY <2>1, <1>1, <1>11 DEF AssignTrace, AssignPi2, BuildTwiddles, DivideByZH, BeforeRestore
  <2>2. CASE DeriveAlpha \/ ShiftZ \/ EvaluateOnCosets
    BY <2>2, <1>2, <1>3, <1>5, <1>6, <1>11 DEF DeriveAlpha, EvaluateOnCosets
  <2>3. CASE CommitToQuotient \/ JoinQuotient \/ DeriveZeta \/ CloseH
    BY <2>3, <1>7, <1>8, <1>9, <1>10, <1>11 DEF JoinQuotient, DeriveZeta
  <2> QED BY <2>1, <2>2, <2>3

\* openZ, computeLinearizedPolynomial and batchOpening.
LEMMA OpeningStagesInv ==
  ASSUME IInv,
         \/ BlindZ \/ OpenZ
         \/ StartEvaluations \/ JoinEvaluations \/ Linearize \/ CommitLinearized
         \/ BatchOpen
  PROVE  IInv'
<1> DEFINE lin == "computeLinearizedPolynomial"
<1>0. /\ {"openZ", lin, "batchOpening"} \subseteq Stages
      /\ {"openZ.open", "done"} \subseteq Code("openZ")
      /\ {"lin.awaitZ", "lin.inner", "lin.commit", "done"} \subseteq Code(lin)
      /\ "done" \in Code("batchOpening")
      /\ \A s \in Stages : "failed" \in Code(s)
  BY CodeLemma DEF Stages
<1>1. CASE BlindZ
  <2>1. form["Z"] \in FormsOf("blindedZ")
    BY FormLemma DEF IInv, TypeOK, Polys
  <2>2. TypeOK' /\ CauseInv' /\ EndInv'
    BY <1>0, <1>1, <2>1, GoesOn DEF BlindZ, Set, IInv, TypeOK, results
  <2>3. Achieved'
    BY <1>0, <1>1, GoesOn DEF BlindZ, IInv, Achieved, SolveInv, RatioInv, QuotientInv,
       RestoreInv, OpeningInv, AllDone, Stages, results
  <2> QED BY <2>2, <2>3 DEF IInv
<1>2. CASE /\ CloseAndReturn("openZ", "openZ.open", "chZOpening")
           /\ Write("ZShifted", "good")
           /\ UNCHANGED <<task, firstErr, results, hinted, derived, form>>
  <2>1. /\ proof' \in [Messages -> {"none", "good", "bad"}] /\ proof'["ZShifted"] = "good"
        /\ \A m \in Messages \ {"ZShifted"} : proof'[m] = proof[m]
    BY <1>2 DEF Write, IInv, TypeOK, Messages
  <2>2. TypeOK' /\ CauseInv' /\ EndInv'
    BY <1>0, <1>2, <2>1, GoesOn DEF CloseAndReturn, IInv, TypeOK, Channels, results
  <2>3. Achieved'
    BY <1>0, <1>2, <2>1, GoesOn DEF CloseAndReturn, IInv, Achieved, SolveInv, RatioInv,
       QuotientInv, RestoreInv, OpeningInv, AllDone, Stages, Messages, Wires, Shards, results
  <2> QED BY <2>2, <2>3 DEF IInv
<1>3. ASSUME NEW s \in {"openZ", "batchOpening"}, NEW from, from # "done",
             NEW m \in {"ZShifted", "Batched"},
             Return(s, from, "own"), Write(m, "bad"),
             UNCHANGED <<task, closed, results, hinted, derived, form>>,
             stage["openZ"] = "done" => m # "ZShifted",
             stage["batchOpening"] = "done" => m # "Batched"
      PROVE  IInv'
  <2>1. /\ proof' \in [Messages -> {"none", "good", "bad"}]
        /\ \A l \in Messages \ {m} : proof'[l] = proof[l]
    BY <1>3 DEF Write, IInv, TypeOK, Messages
  <2>2. /\ stage' = [stage EXCEPT ![s] = "failed"] /\ stage[s] = from
        /\ firstErr' = "own"
    BY <1>3 DEF Return, Goto, Recorded, IInv, CauseInv
  <2>3. TypeOK'
    BY <1>0, <1>3, <2>1, <2>2 DEF IInv, TypeOK, Errors, results
  <2>4. CauseInv' /\ EndInv'
    BY <1>0, <1>3, <2>2 DEF IInv, TypeOK, CauseInv, EndInv, CtxDone, results
  <2>5. Achieved'
    BY <1>0, <1>3, <2>1, <2>2 DEF IInv, TypeOK, Achieved, SolveInv, RatioInv, QuotientInv,
       RestoreInv, OpeningInv, AllDone, Stages, Messages, Wires, Shards, results
  <2> QED BY <2>3, <2>4, <2>5 DEF IInv
<1>4. CASE StartEvaluations
  <2>1. /\ \A t \in EvalTasks : task'[t] = "run"
        /\ \A t \in Tasks \ EvalTasks : task'[t] = task[t]
        /\ task' \in [Tasks -> {"idle", "run", "msm", "done", "failed"}]
    BY <1>4 DEF StartEvaluations, Fork, Tasks, IInv, TypeOK
  <2>2. TypeOK' /\ CauseInv' /\ EndInv'
    BY <1>0, <1>4, <2>1, GoesOn DEF StartEvaluations, IInv, TypeOK, results
  <2>3. SolveInv' /\ RatioInv' /\ QuotientInv'
    BY <1>0, <1>4, <2>1, GoesOn, TaskLemma DEF StartEvaluations, IInv, Achieved, SolveInv,
       RatioInv, QuotientInv, AllDone, Stages, Tasks, results
  <2>4. RestoreInv' /\ OpeningInv'
    BY <1>0, <1>4, <2>1, GoesOn, TaskLemma DEF StartEvaluations, IInv, Achieved, RestoreInv,
       OpeningInv, BeforeRestore, Stages, Tasks, results
  <2> QED BY <2>2, <2>3, <2>4 DEF IInv, Achieved
<1>5. CASE JoinEvaluations
  <2>1. AllDone(EvalTasks)
    BY <1>5 DEF JoinEvaluations, Joined, Ended, AllDone, IInv, Achieved, OpeningInv
  <2>2. TypeOK' /\ CauseInv' /\ EndInv'
    BY <1>0, <1>5, GoesOn DEF JoinEvaluations, IInv, TypeOK, results
  <2>3. Achieved'
    BY <1>0, <1>5, <2>1, GoesOn DEF JoinEvaluations, IInv, Achieved, SolveInv, RatioInv,
       QuotientInv, RestoreInv, OpeningInv, AllDone, Stages, results
  <2> QED BY <2>2, <2>3 DEF IInv
<1>6. CASE Linearize
  <2>1. TypeOK' /\ CauseInv' /\ EndInv'
    BY <1>0, <1>6, GoesOn, FormLemma DEF Linearize, IInv, TypeOK, results
  <2>2. Achieved'
    BY <1>0, <1>6, GoesOn DEF Linearize, IInv, Achieved, SolveInv, RatioInv,
       QuotientInv, RestoreInv, OpeningInv, AllDone, Stages, results
  <2> QED BY <2>1, <2>2 DEF IInv
<1>7. CASE /\ CloseAndReturn(lin, "lin.commit", "chLinearizedPolynomial")
           /\ UNCHANGED <<task, firstErr, results, proof, hinted, derived, form>>
  <2>1. TypeOK' /\ CauseInv' /\ EndInv'
    BY <1>0, <1>7, GoesOn DEF CloseAndReturn, IInv, TypeOK, Channels, results
  <2>2. Achieved'
    BY <1>0, <1>7, GoesOn DEF CloseAndReturn, IInv, Achieved, SolveInv, RatioInv,
       QuotientInv, RestoreInv, OpeningInv, AllDone, Stages, results
  <2> QED BY <2>1, <2>2 DEF IInv
<1>8. CASE /\ Goto("batchOpening", "batch.open", "done")
           /\ Write("Batched", "good")
           /\ UNCHANGED <<task, closed, firstErr, results, hinted, derived, form>>
  <2>1. /\ proof' \in [Messages -> {"none", "good", "bad"}] /\ proof'["Batched"] = "good"
        /\ \A m \in Messages \ {"Batched"} : proof'[m] = proof[m]
    BY <1>8 DEF Write, IInv, TypeOK, Messages
  <2>2. TypeOK' /\ CauseInv' /\ EndInv'
    BY <1>0, <1>8, <2>1, GoesOn DEF IInv, TypeOK, results
  <2>3. Achieved'
    BY <1>0, <1>8, <2>1, GoesOn DEF IInv, Achieved, SolveInv, RatioInv,
       QuotientInv, RestoreInv, OpeningInv, AllDone, Stages, Messages, Wires, Shards, results
  <2> QED BY <2>2, <2>3 DEF IInv
<1>9. CASE Error(lin, "lin.commit")
  BY <1>0, <1>9, ErrorInv
<1>10. CASE OpenZ
  BY <1>2, <1>3, <1>10 DEF OpenZ, Return, Goto
<1>11. CASE BatchOpen
  BY <1>3, <1>8, <1>11 DEF BatchOpen, Return, Goto
<1> QED
  BY <1>1, <1>4, <1>5, <1>6, <1>7, <1>9, <1>10, <1>11 DEF CommitLinearized

\* The goroutines the stages start.
LEMMA TaskInv ==
  ASSUME IInv, NEW t \in Tasks, Task(t)
  PROVE  IInv'
<1>1. ASSUME NEW w \in Wires, SubtractS0(w) PROVE IInv'
  <2>1. TypeOK'
    BY <1>1, FormLemma DEF SubtractS0, Set, IInv, TypeOK, results
  <2>2. CauseInv' /\ EndInv'
    BY <1>1, RunsOn DEF SubtractS0, results
  <2>3. Achieved'
    BY <1>1, TaskLemma DEF SubtractS0, IInv, TypeOK, Achieved, SolveInv, RatioInv,
       QuotientInv, RestoreInv, OpeningInv, AllDone, Tasks, results
  <2> QED BY <2>1, <2>2, <2>3 DEF IInv
<1>2. ASSUME NEW w \in Wires, CommitWire(w) PROVE IInv'
  <2> DEFINE u == <<"lro", w>>
  <2>1. /\ task[u] = "msm" /\ task' = [task EXCEPT ![u] = task'[u]]
        /\ \/ task'[u] = "done" /\ proof' = [proof EXCEPT ![w] = "good"]
           \/ task'[u] = "failed" /\ proof' = proof
    BY <1>2 DEF CommitWire, Write, IInv, TypeOK, Tasks, LroTasks
  <2>2. TypeOK'
    BY <1>2, FormLemma DEF CommitWire, Set, Write, IInv, TypeOK, Messages, results
  <2>3. CauseInv' /\ EndInv'
    BY <1>2, RunsOn DEF CommitWire, results
  <2>4. SolveInv'
    BY <1>2, <2>1, TaskLemma DEF CommitWire, IInv, TypeOK, Achieved, SolveInv, AllDone,
       Tasks, Messages, results
  <2>5. RatioInv' /\ QuotientInv' /\ RestoreInv' /\ OpeningInv'
    BY <1>2, <2>1, TaskLemma DEF CommitWire, IInv, TypeOK, Achieved, RatioInv, QuotientInv,
       RestoreInv, OpeningInv, AllDone, Tasks, Messages, Wires, Shards, results
  <2> QED BY <2>2, <2>3, <2>4, <2>5 DEF IInv, Achieved
<1>3. ASSUME NEW h \in Shards, CommitShard(h) PROVE IInv'
  <2> DEFINE u == <<"shard", h>>
  <2>1. /\ task[u] = "run" /\ task' = [task EXCEPT ![u] = task'[u]]
        /\ \/ task'[u] = "done" /\ proof' = [proof EXCEPT ![h] = "good"]
           \/ task'[u] = "failed" /\ proof' = [proof EXCEPT ![h] = "bad"]
    BY <1>3 DEF CommitShard, Write, IInv, TypeOK, Tasks, ShardTasks
  <2>2. TypeOK'
    BY <1>3 DEF CommitShard, Write, IInv, TypeOK, Messages, results
  <2>3. CauseInv' /\ EndInv'
    BY <1>3, RunsOn DEF CommitShard, results
  <2>4. QuotientInv'
    BY <1>3, <2>1, TaskLemma DEF CommitShard, IInv, TypeOK, Achieved, QuotientInv, AllDone,
       Tasks, Messages, results
  <2>5. RatioInv' /\ SolveInv' /\ RestoreInv' /\ OpeningInv'
    BY <1>3, <2>1, TaskLemma DEF CommitShard, IInv, TypeOK, Achieved, RatioInv, SolveInv,
       RestoreInv, OpeningInv, AllDone, Tasks, Messages, Wires, Shards, results
  <2> QED BY <2>2, <2>3, <2>4, <2>5 DEF IInv, Achieved
<1>4. CASE Evaluate(t)
  <2>1. TypeOK'
    BY <1>4 DEF Evaluate, IInv, TypeOK, results
  <2>2. CauseInv' /\ EndInv'
    BY <1>4, RunsOn DEF Evaluate, results
  <2>3. Achieved'
    BY <1>4, TaskLemma DEF Evaluate, IInv, TypeOK, Achieved, SolveInv, RatioInv,
       QuotientInv, RestoreInv, OpeningInv, AllDone, Tasks, results
  <2> QED BY <2>1, <2>2, <2>3 DEF IInv
<1>5. CASE RestoreLRO
  <2>1. DOMAIN form' = Polys /\ \A p \in Polys : form'[p] \in FormsOf(p)
    BY <1>5, FormLemma DEF RestoreLRO, RestoreForms, IInv, TypeOK, Polys
  <2>2. TypeOK'
    BY <1>5, <2>1 DEF RestoreLRO, IInv, TypeOK, Channels, results
  <2>3. CauseInv' /\ EndInv'
    BY <1>5, RunsOn DEF RestoreLRO, results
  <2>4. Achieved'
    BY <1>5, TaskLemma DEF RestoreLRO, IInv, TypeOK, Achieved, SolveInv, RatioInv,
       QuotientInv, RestoreInv, OpeningInv, AllDone, Tasks, results
  <2> QED BY <2>2, <2>3, <2>4 DEF IInv
<1> QED BY <1>1, <1>2, <1>3, <1>4, <1>5 DEF Task

LEMMA ReturnInv ==
  ASSUME IInv, ReturnFromProve
  PROVE  IInv'
<1>1. TypeOK'
  BY DEF ReturnFromProve, IInv, TypeOK
<1>2. CauseInv' /\ EndInv'
  BY DEF ReturnFromProve, IInv, TypeOK, CauseInv, EndInv, CtxDone, Stopped
<1>3. Achieved'
  BY DEF ReturnFromProve, IInv, Achieved, SolveInv, RatioInv, QuotientInv, RestoreInv,
     OpeningInv, AllDone
<1> QED BY <1>1, <1>2, <1>3 DEF IInv

-------------------------------------------------------------------------------
(* The theorems.                                                           *)

LEMMA StepInv == IInv /\ [Next]_vars => IInv'
<1> SUFFICES ASSUME IInv, [Next]_vars PROVE IInv'
  OBVIOUS
<1>1. ASSUME NEW s \in Stages, Stage(s) PROVE IInv'
  <2>1. CASE \E a \in Awaits : Select(a)
    BY <2>1, SelectInv
  <2>2. CASE (\E c \in Commitments : Bsb22Hint(c)) \/ Solve \/ CommitToLRO \/ JoinLRO
    BY <2>2, SolveConstraintsInv
  <2>3. CASE \/ CloneQk \/ FillQk \/ SampleBlinding
             \/ BindPublicData \/ DeriveGamma \/ DeriveBeta
    BY <2>3, EarlyStagesInv
  <2>4. CASE BuildRatio \/ CommitZ \/ ReturnFromRatio
    BY <2>4, RatioStageInv
  <2>5. CASE \/ AssignTrace \/ AssignPi2 \/ DeriveAlpha \/ ShiftZ \/ BuildTwiddles
             \/ EvaluateOnCosets \/ DivideByZH \/ CommitToQuotient \/ JoinQuotient
             \/ DeriveZeta \/ CloseH
    BY <2>5, QuotientStageInv
  <2>6. CASE \/ BlindZ \/ OpenZ
             \/ StartEvaluations \/ JoinEvaluations \/ Linearize \/ CommitLinearized
             \/ BatchOpen
    BY <2>6, OpeningStagesInv
  <2> QED BY <1>1, <2>1, <2>2, <2>3, <2>4, <2>5, <2>6 DEF Stage
<1>2. ASSUME NEW t \in Tasks, Task(t) PROVE IInv'
  BY <1>2, TaskInv
<1>3. CASE ReturnFromProve
  BY <1>3, ReturnInv
<1>4. CASE UNCHANGED vars
  BY <1>4 DEF vars, results, IInv, TypeOK, CauseInv, EndInv, CtxDone, Achieved, SolveInv,
     RatioInv, QuotientInv, RestoreInv, OpeningInv, AllDone
<1> QED BY <1>1, <1>2, <1>3, <1>4 DEF Next

\* The strengthened invariant holds of every run of Prove.
THEOREM Invariance == Spec => []IInv
BY InitInv, StepInv, PTL DEF Spec

\* Every stage executes its own code and every polynomial is in one of its
\* forms, whatever the set of commitments.
THEOREM TypeOKThm == Spec => []TypeOK
BY Invariance, PTL DEF IInv

\* The error Prove returns is the one that made the call fail: errgroup keeps
\* the first error, and a stage can notice the cancellation only after one.
THEOREM ErrorIsTheCauseThm == Spec => []ErrorIsTheCause
<1>1. IInv => ErrorIsTheCause
  BY DEF IInv, CauseInv, ErrorIsTheCause
<1> QED BY <1>1, Invariance, PTL

\* When Prove returns a proof, every part of it was written by a call that
\* succeeded, every challenge was drawn, every hint ran, and no goroutine the
\* stages started is still running.
THEOREM ProofIsCompleteThm == Spec => []ProofIsComplete
<1>1. ASSUME IInv PROVE ProofIsComplete
  <2> SUFFICES ASSUME result = "proof"
               PROVE  /\ \A m \in Messages : proof[m] = "good"
                      /\ hinted = Commitments /\ derived = Challenges
                      /\ \A t \in Tasks : task[t] = "done"
    BY DEF ProofIsComplete
  <2>1. \A s \in Stages : stage[s] = "done"
    BY <1>1 DEF IInv, EndInv
  <2>2. hinted = Commitments /\ derived = Challenges
    BY <1>1, <2>1 DEF IInv, TypeOK, Achieved, SolveInv, QuotientInv, Stages
  <2>3. \A t \in Tasks : task[t] = "done"
    BY <1>1, <2>1 DEF IInv, Achieved, SolveInv, QuotientInv, RestoreInv, OpeningInv,
       Stages, Tasks, AllDone
  <2>4. \A m \in Messages : proof[m] = "good"
    BY <1>1, <2>1, <2>3, TaskLemma DEF IInv, Achieved, SolveInv, RatioInv, QuotientInv,
       OpeningInv, Stages, Messages, Tasks
  <2> QED BY <2>2, <2>3, <2>4
<1> QED BY <1>1, Invariance, PTL

-------------------------------------------------------------------------------
(* The strengthening of what the channels order.                           *)

\* What a stage has waited for when it is at a label.
WaitInv ==
  /\ stage["solveConstraints"] \in {"lro.fork", "lro.join", "done"} => "chbp" \in closed
  /\ stage["completeQk"] \in {"qk.fill", "done"} => "chLRO" \in closed
  /\ stage["deriveGammaAndBeta"] \in {"gamma.derive", "beta.derive", "done"} =>
       "chLRO" \in closed
  /\ stage["buildRatioCopyConstraint"] \in {"ratio.build", "ratio.commit", "ratio.return", "done"} =>
       "chGammaBeta" \in closed
  /\ stage["computeQuotient"] \notin {"h.assign", "h.awaitLRO", "failed"} => "chLRO" \in closed
  /\ stage["computeQuotient"] \notin {"h.assign", "h.awaitLRO", "h.pi2", "h.awaitZ", "failed"} =>
       "chZ" \in closed
  /\ stage["computeQuotient"] \notin (BeforeRestore \ {"h.rho"}) \cup {"failed"} => "chQk" \in closed
  /\ stage["computeQuotient"] \in {"h.close", "done"} => "chRestoreLRO" \in closed
  /\ stage["openZ"] \in {"openZ.blind", "openZ.open", "done"} => "chH" \in closed
  /\ stage["computeLinearizedPolynomial"] \notin {"lin.await", "failed"} => "chH" \in closed
  /\ stage["computeLinearizedPolynomial"] \in {"lin.join", "lin.inner", "lin.commit", "done"} =>
       "chZOpening" \in closed
  /\ stage["batchOpening"] \in {"batch.open", "done"} => "chLinearizedPolynomial" \in closed

\* What a closed channel says of the stage that closes it.
CloseInv ==
  /\ "chbp" \in closed => stage["initBlindingPolynomials"] = "done"
  /\ "chLRO" \in closed => stage["solveConstraints"] = "done"
  /\ "chQk" \in closed => stage["completeQk"] = "done"
  /\ "chGammaBeta" \in closed => stage["deriveGammaAndBeta"] = "done"
  /\ "chZ" \in closed => /\ stage["buildRatioCopyConstraint"] \in {"ratio.return", "done", "failed"}
                         /\ "chGammaBeta" \in closed
  /\ "chH" \in closed => stage["computeQuotient"] = "done"
  /\ "chZOpening" \in closed => stage["openZ"] = "done"
  /\ "chLinearizedPolynomial" \in closed => stage["computeLinearizedPolynomial"] = "done"

\* Where the stage that started a goroutine is while the goroutine is at work.
ForkInv ==
  /\ \A t \in LroTasks : Alive(t) => stage["solveConstraints"] = "lro.join"
  /\ \A t \in ShardTasks : Alive(t) => stage["computeQuotient"] = "h.join"
  /\ \A t \in EvalTasks : Alive(t) => "chH" \in closed
  /\ task[Restore] # "idle" => "chZ" \in closed /\ "chQk" \in closed

\* Up to the rho loop: Z may not be committed, or the quotient stage has not
\* come that far.
Early == "chZ" \notin closed \/ stage["computeQuotient"] \in BeforeRestore

EarlyInv ==
  Early =>
    /\ stage["solveConstraints"] \in {"lro.await", "lro.fork"} =>
         \A w \in Wires : form[w] = "lagrange"
    /\ stage["solveConstraints"] \in {"lro.join", "done"} =>
         \A w \in Wires : task[<<"lro", w>>] \in {"run", "done"} => form[w] = "lagrange"
    /\ stage["solveConstraints"] \in {"lro.await", "lro.fork", "lro.join", "done"} =>
         form["Pi"] = "lagrange"
    /\ form["fixed"] = "lagrange"
    /\ "chbp" \in closed => form["bp"] = "canonical"
    /\ stage["buildRatioCopyConstraint"] = "ratio.commit" \/ "chZ" \in closed => form["Z"] = "lagrange"
    /\ "chQk" \in closed => form["Qk"] = "lagrange"
    /\ stage["computeQuotient"] \in {"h.twiddles", "h.awaitQk", "h.rho"} => form["ZS"] = "lagrange"

\* After the restoring goroutine, and the life of the blinded Z.
LateInv ==
  /\ task[Restore] = "done" =>
       \A p \in Wires \cup {"Z", "fixed", "Pi", "bp"} : form[p] = "canonical"
  /\ stage["openZ"] = "openZ.open" => form["blindedZ"] = "canonical"
  /\ stage["openZ"] = "done" /\ stage["computeLinearizedPolynomial"] \in
       {"lin.await", "lin.fork", "lin.awaitZ", "lin.join", "lin.inner"} => form["blindedZ"] = "canonical"
  /\ stage["computeLinearizedPolynomial"] \in {"lin.commit", "done"} => form["blindedZ"] = "linearized"

OrderInv == WaitInv /\ CloseInv /\ ForkInv /\ EarlyInv /\ LateInv

-------------------------------------------------------------------------------
(* Every step keeps it.                                                    *)

\* A select, whichever way it goes.
LEMMA SelectOrder ==
  ASSUME IInv, OrderInv, NEW a \in Awaits, Select(a)
  PROVE  OrderInv'
<1>1. /\ a.stage \in Stages
      /\ \A r \in Stages \ {a.stage} : stage'[r] = stage[r]
      /\ stage[a.stage] = a.at
      /\ \/ stage'[a.stage] = a.then /\ a.channel \in closed
         \/ stage'[a.stage] = "failed"
      /\ UNCHANGED <<task, closed, form>>
  BY AwaitLemma DEF IInv, TypeOK, Select, Goto, Return
<1>2. WaitInv'
  BY <1>1 DEF OrderInv, WaitInv, Awaits, Await, Stages, BeforeRestore
<1>3. CloseInv'
  BY <1>1 DEF OrderInv, CloseInv, Awaits, Await, Stages
<1>4. ForkInv'
  BY <1>1 DEF OrderInv, ForkInv, Awaits, Await, Stages, Alive
<1>5. EarlyInv'
  BY <1>1 DEF OrderInv, EarlyInv, Early, Awaits, Await, Stages, BeforeRestore
<1>6. LateInv'
  BY <1>1 DEF OrderInv, LateInv, Awaits, Await, Stages
<1> QED BY <1>2, <1>3, <1>4, <1>5, <1>6 DEF OrderInv

\* A call that returns an error, after it has waited for its goroutines.
LEMMA ErrorOrder ==
  ASSUME IInv, OrderInv, NEW s \in Stages, NEW from, from \notin {"done", "failed"}, Error(s, from),
         from = "lro.join" => Joined(LroTasks), from = "h.join" => Joined(ShardTasks)
  PROVE  OrderInv'
<1>1. /\ \A r \in Stages \ {s} : stage'[r] = stage[r]
      /\ stage[s] = from /\ stage'[s] = "failed"
      /\ UNCHANGED <<task, closed, form>>
  BY DEF IInv, TypeOK, Error, Return, Goto
<1>2. WaitInv'
  BY <1>1 DEF OrderInv, WaitInv, Stages, BeforeRestore
<1>3. CloseInv'
  BY <1>1 DEF OrderInv, CloseInv, Stages
<1>4. ForkInv'
  BY <1>1 DEF OrderInv, ForkInv, Stages, Joined, Ended, Alive
<1>5. EarlyInv'
  BY <1>1 DEF OrderInv, EarlyInv, Early, Stages, BeforeRestore
<1>6. LateInv'
  BY <1>1 DEF OrderInv, LateInv, Stages
<1> QED BY <1>2, <1>3, <1>4, <1>5, <1>6 DEF OrderInv

\* A stage that goes on leaves the others where they are.
LEMMA Moves ==
  ASSUME IInv, NEW s \in Stages, NEW from, NEW to, Goto(s, from, to)
  PROVE  /\ stage[s] = from /\ stage'[s] = to
         /\ \A r \in Stages \ {s} : stage'[r] = stage[r]
BY DEF IInv, TypeOK, Goto

\* The stages by name.
LEMMA StageNames ==
  /\ {"solveConstraints", "completeQk", "initBlindingPolynomials",
      "deriveGammaAndBeta", "buildRatioCopyConstraint", "computeQuotient",
      "openZ", "computeLinearizedPolynomial", "batchOpening"} = Stages
BY DEF Stages

\* solveConstraints.
LEMMA SolveConstraintsOrder ==
  ASSUME IInv, OrderInv, (\E c \in Commitments : Bsb22Hint(c)) \/ Solve \/ CommitToLRO \/ JoinLRO
  PROVE  OrderInv'
<1> DEFINE s == "solveConstraints"
<1>1. ASSUME NEW c \in Commitments, Bsb22Hint(c) PROVE OrderInv'
  BY <1>1 DEF Bsb22Hint, OrderInv, WaitInv, CloseInv, ForkInv, EarlyInv, Early, LateInv, Alive
<1>2. CASE /\ Goto(s, "solve", "lro.await")
           /\ Set(Wires \cup {"Pi"}, "lagrange")
           /\ UNCHANGED <<task, closed, firstErr, results, proof, hinted, derived>>
  <2>1. /\ stage[s] = "solve" /\ stage'[s] = "lro.await"
        /\ \A r \in Stages \ {s} : stage'[r] = stage[r]
    BY <1>2, Moves, StageNames
  <2>2. /\ "chLRO" \notin closed /\ "chZ" \notin closed /\ task[Restore] = "idle"
    BY <2>1, StageNames DEF OrderInv, WaitInv, CloseInv, ForkInv
  <2>3. /\ \A p \in Wires \cup {"Pi"} : form'[p] = "lagrange"
        /\ \A p \in Polys \ (Wires \cup {"Pi"}) : form'[p] = form[p]
    BY <1>2 DEF Set, Polys
  <2>4. WaitInv' /\ CloseInv' /\ ForkInv'
    BY <1>2, <2>1, <2>2, StageNames DEF OrderInv, WaitInv, CloseInv, ForkInv, Alive, BeforeRestore
  <2>5. EarlyInv'
    BY <1>2, <2>1, <2>2, <2>3, StageNames DEF OrderInv, WaitInv, EarlyInv, Early,
       BeforeRestore, Polys, Wires
  <2>6. LateInv'
    BY <1>2, <2>1, <2>2, <2>3, StageNames DEF OrderInv, LateInv, Polys, Wires
  <2> QED BY <2>4, <2>5, <2>6 DEF OrderInv
<1>3. CASE /\ Goto(s, "lro.fork", "lro.join")
           /\ Fork(LroTasks)
           /\ UNCHANGED <<closed, firstErr, results, proof, hinted, derived, form>>
  <2>1. /\ stage[s] = "lro.fork" /\ stage'[s] = "lro.join"
        /\ \A r \in Stages \ {s} : stage'[r] = stage[r]
    BY <1>3, Moves, StageNames
  <2>2. /\ \A t \in LroTasks : task'[t] = "run"
        /\ \A t \in Tasks \ LroTasks : task'[t] = task[t]
    BY <1>3 DEF Fork, Tasks
  <2>3. WaitInv' /\ CloseInv'
    BY <1>3, <2>1, StageNames DEF OrderInv, WaitInv, CloseInv, BeforeRestore
  <2>4. ForkInv'
    BY <1>3, <2>1, <2>2, StageNames, TaskLemma DEF OrderInv, ForkInv, Alive, Tasks
  <2>5. EarlyInv'
    BY <1>3, <2>1, <2>2, StageNames, TaskLemma DEF OrderInv, EarlyInv, Early, BeforeRestore
  <2>6. LateInv'
    BY <1>3, <2>1, <2>2, StageNames, TaskLemma DEF OrderInv, LateInv, Tasks
  <2> QED BY <2>3, <2>4, <2>5, <2>6 DEF OrderInv
<1>4. CASE /\ AllDone(LroTasks)
           /\ CloseAndReturn(s, "lro.join", "chLRO")
           /\ UNCHANGED <<task, firstErr, results, proof, hinted, derived, form>>
  <2>1. /\ stage[s] = "lro.join" /\ stage'[s] = "done"
        /\ \A r \in Stages \ {s} : stage'[r] = stage[r]
        /\ closed' = closed \cup {"chLRO"}
    BY <1>4, Moves, StageNames DEF CloseAndReturn
  <2>2. WaitInv' /\ CloseInv'
    BY <1>4, <2>1, StageNames DEF OrderInv, WaitInv, CloseInv, BeforeRestore
  <2>3. ForkInv'
    BY <1>4, <2>1, StageNames, TaskLemma DEF OrderInv, ForkInv, Alive, AllDone
  <2>4. EarlyInv' /\ LateInv'
    BY <1>4, <2>1, StageNames DEF OrderInv, EarlyInv, Early, LateInv, BeforeRestore
  <2> QED BY <2>2, <2>3, <2>4 DEF OrderInv
<1>5. ASSUME NEW from \in {"solve", "lro.fork", "lro.join"}, Error(s, from),
             from = "lro.join" => Joined(LroTasks)
      PROVE  OrderInv'
  BY <1>5, ErrorOrder, StageNames
<1> QED BY <1>1, <1>2, <1>3, <1>4, <1>5 DEF Solve, CommitToLRO, JoinLRO

\* completeQk, initBlindingPolynomials and deriveGammaAndBeta.
LEMMA EarlyStagesOrder ==
  ASSUME IInv, OrderInv,
         \/ CloneQk \/ FillQk \/ SampleBlinding
         \/ BindPublicData \/ DeriveGamma \/ DeriveBeta
  PROVE  OrderInv'
<1>1. ASSUME NEW s \in {"completeQk", "deriveGammaAndBeta"},
             NEW from \in {"qk.clone", "gamma.bind", "gamma.derive"},
             NEW to \in {"qk.await", "gamma.await", "beta.derive"},
             Goto(s, from, to), from = "gamma.derive" <=> to = "beta.derive",
             UNCHANGED <<task, closed, form>>
      PROVE  OrderInv'
  <2>1. /\ stage[s] = from /\ stage'[s] = to
        /\ \A r \in Stages \ {s} : stage'[r] = stage[r]
    BY <1>1, Moves, StageNames
  <2>2. WaitInv' /\ CloseInv'
    BY <1>1, <2>1, StageNames DEF OrderInv, WaitInv, CloseInv, BeforeRestore
  <2>3. ForkInv'
    BY <1>1, <2>1, StageNames DEF OrderInv, ForkInv, Alive
  <2>4. EarlyInv' /\ LateInv'
    BY <1>1, <2>1, StageNames DEF OrderInv, EarlyInv, Early, LateInv, BeforeRestore
  <2> QED BY <2>2, <2>3, <2>4 DEF OrderInv
<1>2. CASE FillQk
  <2>1. /\ stage["completeQk"] = "qk.fill" /\ stage'["completeQk"] = "done"
        /\ \A r \in Stages \ {"completeQk"} : stage'[r] = stage[r]
        /\ closed' = closed \cup {"chQk"}
        /\ UNCHANGED task
    BY <1>2, Moves, StageNames DEF FillQk, CloseAndReturn
  <2>2. form'["Qk"] = "lagrange" /\ \A p \in Polys \ {"Qk"} : form'[p] = form[p]
    BY <1>2 DEF FillQk, Set, Polys
  <2>3. WaitInv' /\ CloseInv'
    BY <2>1, StageNames DEF OrderInv, WaitInv, CloseInv, BeforeRestore
  <2>4. ForkInv'
    BY <2>1, StageNames DEF OrderInv, ForkInv, Alive
  <2>5. EarlyInv' /\ LateInv'
    BY <2>1, <2>2, StageNames DEF OrderInv, EarlyInv, Early, LateInv, BeforeRestore, Polys, Wires
  <2> QED BY <2>3, <2>4, <2>5 DEF OrderInv
<1>3. CASE SampleBlinding
  <2> DEFINE s == "initBlindingPolynomials"
  <2>1. /\ stage[s] = "bp.sample" /\ stage'[s] = "done"
        /\ \A r \in Stages \ {s} : stage'[r] = stage[r]
        /\ closed' = closed \cup {"chbp"}
        /\ UNCHANGED task
    BY <1>3, Moves, StageNames DEF SampleBlinding, CloseAndReturn
  <2>2. form'["bp"] = "canonical" /\ \A p \in Polys \ {"bp"} : form'[p] = form[p]
    BY <1>3 DEF SampleBlinding, Set, Polys
  <2>3. WaitInv' /\ CloseInv'
    BY <2>1, StageNames DEF OrderInv, WaitInv, CloseInv, BeforeRestore
  <2>4. ForkInv'
    BY <2>1, StageNames DEF OrderInv, ForkInv, Alive
  <2>5. EarlyInv' /\ LateInv'
    BY <2>1, <2>2, StageNames DEF OrderInv, EarlyInv, Early, LateInv, BeforeRestore, Polys, Wires
  <2> QED BY <2>3, <2>4, <2>5 DEF OrderInv
<1>4. ASSUME CloseAndReturn("deriveGammaAndBeta", "beta.derive", "chGammaBeta"),
             UNCHANGED <<task, form>>
      PROVE  OrderInv'
  <2> DEFINE s == "deriveGammaAndBeta"
  <2>1. /\ stage[s] = "beta.derive" /\ stage'[s] = "done"
        /\ \A r \in Stages \ {s} : stage'[r] = stage[r]
        /\ closed' = closed \cup {"chGammaBeta"}
    BY <1>4, Moves, StageNames DEF CloseAndReturn
  <2>3. WaitInv' /\ CloseInv'
    BY <2>1, StageNames DEF OrderInv, WaitInv, CloseInv, BeforeRestore
  <2>4. ForkInv'
    BY <1>4, <2>1, StageNames DEF OrderInv, ForkInv, Alive
  <2>5. EarlyInv' /\ LateInv'
    BY <1>4, <2>1, StageNames DEF OrderInv, EarlyInv, Early, LateInv, BeforeRestore
  <2> QED BY <2>3, <2>4, <2>5 DEF OrderInv
<1>5. ASSUME NEW s \in {"completeQk", "deriveGammaAndBeta"},
             NEW from \in {"qk.clone", "gamma.bind", "gamma.derive", "beta.derive"},
             Error(s, from)
      PROVE  OrderInv'
  BY <1>5, ErrorOrder, StageNames
<1> QED
  BY <1>1, <1>2, <1>3, <1>4, <1>5 DEF CloneQk, BindPublicData, DeriveGamma, DeriveBeta

\* buildRatioCopyConstraint.
LEMMA RatioOrder ==
  ASSUME IInv, OrderInv, BuildRatio \/ CommitZ \/ ReturnFromRatio
  PROVE  OrderInv'
<1> DEFINE s == "buildRatioCopyConstraint"
<1>1. CASE /\ Goto(s, "ratio.build", "ratio.commit")
           /\ Set({"Z"}, "lagrange")
           /\ UNCHANGED <<task, closed, firstErr, results, proof, hinted, derived>>
  <2>1. /\ stage[s] = "ratio.build" /\ stage'[s] = "ratio.commit"
        /\ \A r \in Stages \ {s} : stage'[r] = stage[r]
        /\ "chZ" \notin closed
    BY <1>1, Moves, StageNames DEF OrderInv, CloseInv
  <2>2. form'["Z"] = "lagrange" /\ \A p \in Polys \ {"Z"} : form'[p] = form[p]
    BY <1>1 DEF Set, Polys
  <2>3. WaitInv' /\ CloseInv'
    BY <1>1, <2>1, StageNames DEF OrderInv, WaitInv, CloseInv, BeforeRestore
  <2>4. ForkInv'
    BY <1>1, <2>1, StageNames DEF OrderInv, ForkInv, Alive
  <2>5. EarlyInv'
    BY <1>1, <2>1, <2>2, StageNames DEF OrderInv, EarlyInv, Early, BeforeRestore, Polys, Wires
  <2>6. LateInv'
    BY <1>1, <2>1, <2>2, StageNames DEF OrderInv, ForkInv, LateInv, Polys, Wires
  <2> QED BY <2>3, <2>4, <2>5, <2>6 DEF OrderInv
<1>2. CASE CommitZ
  <2>1. /\ stage[s] = "ratio.commit" /\ stage'[s] = "ratio.return"
        /\ \A r \in Stages \ {s} : stage'[r] = stage[r]
        /\ closed' = closed \cup {"chZ"}
        /\ UNCHANGED <<task, form>>
    BY <1>2, Moves, StageNames DEF CommitZ
  <2>3. WaitInv' /\ CloseInv'
    BY <2>1, StageNames DEF OrderInv, WaitInv, CloseInv, BeforeRestore
  <2>4. ForkInv'
    BY <2>1, StageNames DEF OrderInv, ForkInv, Alive
  <2>5. EarlyInv' /\ LateInv'
    BY <2>1, StageNames DEF OrderInv, EarlyInv, Early, LateInv, BeforeRestore
  <2> QED BY <2>3, <2>4, <2>5 DEF OrderInv
<1>3. ASSUME Goto(s, "ratio.return", "done"), UNCHANGED <<task, closed, form>>
      PROVE  OrderInv'
  <2>1. /\ stage[s] = "ratio.return" /\ stage'[s] = "done"
        /\ \A r \in Stages \ {s} : stage'[r] = stage[r]
    BY <1>3, Moves, StageNames
  <2>3. WaitInv' /\ CloseInv'
    BY <1>3, <2>1, StageNames DEF OrderInv, WaitInv, CloseInv, BeforeRestore
  <2>4. ForkInv'
    BY <1>3, <2>1, StageNames DEF OrderInv, ForkInv, Alive
  <2>5. EarlyInv' /\ LateInv'
    BY <1>3, <2>1, StageNames DEF OrderInv, EarlyInv, Early, LateInv, BeforeRestore
  <2> QED BY <2>3, <2>4, <2>5 DEF OrderInv
<1>4. ASSUME NEW from \in {"ratio.build", "ratio.return"}, Error(s, from) PROVE OrderInv'
  BY <1>4, ErrorOrder, StageNames
<1> QED BY <1>1, <1>2, <1>3, <1>4 DEF BuildRatio, ReturnFromRatio

\* computeQuotient.
LEMMA QuotientOrder ==
  ASSUME IInv, OrderInv,
         \/ AssignTrace \/ AssignPi2 \/ DeriveAlpha \/ ShiftZ \/ BuildTwiddles
         \/ EvaluateOnCosets \/ DivideByZH \/ CommitToQuotient \/ JoinQuotient
         \/ DeriveZeta \/ CloseH
  PROVE  OrderInv'
<1> DEFINE s == "computeQuotient"
<1>1. ASSUME NEW from, NEW to, Goto(s, from, to), UNCHANGED <<task, closed, form>>,
             \/ from = "h.assign" /\ to = "h.awaitLRO"
             \/ from = "h.pi2" /\ to = "h.awaitZ"
             \/ from = "h.alpha" /\ to = "h.shiftZ"
             \/ from = "h.twiddles" /\ to = "h.awaitQk"
             \/ from = "h.divide" /\ to = "h.fork"
             \/ from = "h.join" /\ to = "h.zeta" /\ Joined(ShardTasks)
             \/ from = "h.zeta" /\ to = "h.awaitRestore"
      PROVE  OrderInv'
  <2>1. /\ stage[s] = from /\ stage'[s] = to
        /\ \A r \in Stages \ {s} : stage'[r] = stage[r]
    BY <1>1, Moves, StageNames
  <2>2. WaitInv' /\ CloseInv'
    BY <1>1, <2>1, StageNames DEF OrderInv, WaitInv, CloseInv, BeforeRestore
  <2>3. ForkInv'
    BY <1>1, <2>1, StageNames DEF OrderInv, ForkInv, Alive, Joined, Ended
  <2>4. EarlyInv' /\ LateInv'
    BY <1>1, <2>1, StageNames DEF OrderInv, WaitInv, EarlyInv, Early, LateInv, BeforeRestore
  <2> QED BY <2>2, <2>3, <2>4 DEF OrderInv
<1>2. CASE ShiftZ
  <2>1. /\ stage[s] = "h.shiftZ" /\ stage'[s] = "h.twiddles"
        /\ \A r \in Stages \ {s} : stage'[r] = stage[r]
        /\ UNCHANGED <<task, closed>>
    BY <1>2, Moves, StageNames DEF ShiftZ
  <2>2. form'["ZS"] = form["Z"] /\ \A p \in Polys \ {"ZS"} : form'[p] = form[p]
    BY <1>2 DEF ShiftZ, Set, Polys
  <2>3. WaitInv' /\ CloseInv'
    BY <2>1, StageNames DEF OrderInv, WaitInv, CloseInv, BeforeRestore
  <2>4. ForkInv'
    BY <2>1, StageNames DEF OrderInv, ForkInv, Alive
  <2>5. EarlyInv'
    BY <2>1, <2>2, StageNames DEF OrderInv, WaitInv, EarlyInv, Early, BeforeRestore, Polys, Wires
  <2>6. LateInv'
    BY <2>1, <2>2, StageNames DEF OrderInv, LateInv, Polys, Wires
  <2> QED BY <2>3, <2>4, <2>5, <2>6 DEF OrderInv
<1>3. ASSUME OnLastCoset PROVE form'["blindedZ"] = form["blindedZ"]
  BY <1>3 DEF OnLastCoset, Polys, Wires
<1>4. ASSUME stage[s] = "h.rho"
      PROVE  "chZ" \in closed /\ "chQk" \in closed /\ task[Restore] = "idle"
  BY <1>4, StageNames DEF IInv, Achieved, RestoreInv, OrderInv, WaitInv, BeforeRestore
<1>5. CASE /\ Goto(s, "h.rho", "h.divide")
           /\ Fork({Restore})
           /\ OnLastCoset
           /\ UNCHANGED <<firstErr, closed, results, proof, hinted, derived>>
  <2>1. /\ stage[s] = "h.rho" /\ stage'[s] = "h.divide"
        /\ \A r \in Stages \ {s} : stage'[r] = stage[r]
    BY <1>5, Moves, StageNames
  <2>2. /\ task'[Restore] = "run"
        /\ \A t \in Tasks \ {Restore} : task'[t] = task[t]
    BY <1>5 DEF Fork, Tasks
  <2>3. WaitInv' /\ CloseInv'
    BY <1>5, <2>1, StageNames DEF OrderInv, WaitInv, CloseInv, BeforeRestore
  <2>4. ForkInv'
    BY <1>4, <1>5, <2>1, <2>2, StageNames, TaskLemma DEF OrderInv, ForkInv, Alive, Tasks
  <2>5. EarlyInv' /\ LateInv'
    BY <1>3, <1>4, <1>5, <2>1, <2>2, StageNames DEF OrderInv, EarlyInv, Early, LateInv, BeforeRestore
  <2> QED BY <2>3, <2>4, <2>5 DEF OrderInv
<1>6. CASE /\ Return(s, "h.rho", "own")
           /\ OnLastCoset \/ UNCHANGED form
           /\ UNCHANGED <<task, closed, results, proof, hinted, derived>>
  <2>1. /\ stage[s] = "h.rho" /\ stage'[s] = "failed"
        /\ \A r \in Stages \ {s} : stage'[r] = stage[r]
    BY <1>6, Moves, StageNames DEF Return
  <2>3. WaitInv' /\ CloseInv'
    BY <1>6, <2>1, StageNames DEF OrderInv, WaitInv, CloseInv, BeforeRestore
  <2>4. ForkInv'
    BY <1>6, <2>1, StageNames DEF OrderInv, ForkInv, Alive
  <2>5. EarlyInv' /\ LateInv'
    BY <1>3, <1>4, <1>6, <2>1, StageNames DEF OrderInv, EarlyInv, Early, LateInv, BeforeRestore
  <2> QED BY <2>3, <2>4, <2>5 DEF OrderInv
<1>7. CASE CommitToQuotient
  <2>1. /\ stage[s] = "h.fork" /\ stage'[s] = "h.join"
        /\ \A r \in Stages \ {s} : stage'[r] = stage[r]
        /\ UNCHANGED <<closed, form>>
    BY <1>7, Moves, StageNames DEF CommitToQuotient
  <2>2. /\ \A t \in Tasks \ ShardTasks : task'[t] = task[t]
    BY <1>7 DEF CommitToQuotient, Fork, Tasks
  <2>3. WaitInv' /\ CloseInv'
    BY <2>1, StageNames DEF OrderInv, WaitInv, CloseInv, BeforeRestore
  <2>4. ForkInv'
    BY <2>1, <2>2, StageNames, TaskLemma DEF OrderInv, ForkInv, Alive, Tasks
  <2>5. EarlyInv' /\ LateInv'
    BY <2>1, <2>2, StageNames, TaskLemma DEF OrderInv, EarlyInv, Early, LateInv, BeforeRestore, Tasks
  <2> QED BY <2>3, <2>4, <2>5 DEF OrderInv
<1>8. CASE CloseH
  <2>1. /\ stage[s] = "h.close" /\ stage'[s] = "done"
        /\ \A r \in Stages \ {s} : stage'[r] = stage[r]
        /\ closed' = closed \cup {"chH"}
        /\ UNCHANGED <<task, form>>
    BY <1>8, Moves, StageNames DEF CloseH, CloseAndReturn
  <2>3. WaitInv' /\ CloseInv'
    BY <2>1, StageNames DEF OrderInv, WaitInv, CloseInv, BeforeRestore
  <2>4. ForkInv'
    BY <2>1, StageNames DEF OrderInv, ForkInv, Alive
  <2>5. EarlyInv' /\ LateInv'
    BY <2>1, StageNames DEF OrderInv, EarlyInv, Early, LateInv, BeforeRestore
  <2> QED BY <2>3, <2>4, <2>5 DEF OrderInv
<1>9. ASSUME NEW from \in {"h.alpha", "h.twiddles", "h.divide", "h.join", "h.zeta"},
             Error(s, from), from = "h.join" => Joined(ShardTasks)
      PROVE  OrderInv'
  BY <1>9, ErrorOrder, StageNames
<1> QED
  <2>1. CASE AssignTrace \/ AssignPi2 \/ BuildTwiddles \/ DivideByZH
    BY <2>1, <1>1, <1>9 DEF AssignTrace, AssignPi2, BuildTwiddles, DivideByZH, Proceed
  <2>2. CASE DeriveAlpha \/ ShiftZ \/ EvaluateOnCosets
    BY <2>2, <1>1, <1>2, <1>5, <1>6, <1>9 DEF DeriveAlpha, EvaluateOnCosets
  <2>3. CASE CommitToQuotient \/ JoinQuotient \/ DeriveZeta \/ CloseH
    BY <2>3, <1>1, <1>7, <1>8, <1>9 DEF JoinQuotient, DeriveZeta, Proceed
  <2> QED BY <2>1, <2>2, <2>3

\* openZ, computeLinearizedPolynomial and batchOpening.
LEMMA OpeningsOrder ==
  ASSUME IInv, OrderInv,
         \/ BlindZ \/ OpenZ
         \/ StartEvaluations \/ JoinEvaluations \/ Linearize \/ CommitLinearized
         \/ BatchOpen
  PROVE  OrderInv'
<1> DEFINE lin == "computeLinearizedPolynomial"
<1>0. "chH" \in closed => task[Restore] = "done" /\ ~Early
  BY StageNames DEF OrderInv, WaitInv, CloseInv, IInv, Achieved, RestoreInv, Early, BeforeRestore
<1>1. CASE BlindZ
  <2>1. /\ stage["openZ"] = "openZ.blind" /\ stage'["openZ"] = "openZ.open"
        /\ \A r \in Stages \ {"openZ"} : stage'[r] = stage[r]
        /\ UNCHANGED <<task, closed>>
    BY <1>1, Moves, StageNames DEF BlindZ
  <2>2. form'["blindedZ"] = form["Z"] /\ \A p \in Polys \ {"blindedZ"} : form'[p] = form[p]
    BY <1>1 DEF BlindZ, Set, Polys
  <2>3. WaitInv' /\ CloseInv'
    BY <2>1, StageNames DEF OrderInv, WaitInv, CloseInv, BeforeRestore
  <2>4. ForkInv'
    BY <2>1, StageNames DEF OrderInv, ForkInv, Alive
  <2>5. EarlyInv'
    BY <1>0, <2>1, StageNames DEF OrderInv, WaitInv, EarlyInv, Early, BeforeRestore
  <2>6. LateInv'
    BY <1>0, <2>1, <2>2, StageNames DEF OrderInv, WaitInv, CloseInv, LateInv, Polys, Wires
  <2> QED BY <2>3, <2>4, <2>5, <2>6 DEF OrderInv
<1>2. ASSUME CloseAndReturn("openZ", "openZ.open", "chZOpening"), UNCHANGED <<task, form>>
      PROVE  OrderInv'
  <2>1. /\ stage["openZ"] = "openZ.open" /\ stage'["openZ"] = "done"
        /\ \A r \in Stages \ {"openZ"} : stage'[r] = stage[r]
        /\ closed' = closed \cup {"chZOpening"}
    BY <1>2, Moves, StageNames DEF CloseAndReturn
  <2>3. WaitInv' /\ CloseInv'
    BY <2>1, StageNames DEF OrderInv, WaitInv, CloseInv, BeforeRestore
  <2>4. ForkInv'
    BY <1>2, <2>1, StageNames DEF OrderInv, ForkInv, Alive
  <2>5. EarlyInv' /\ LateInv'
    BY <1>2, <2>1, StageNames DEF OrderInv, EarlyInv, Early, LateInv, BeforeRestore
  <2> QED BY <2>3, <2>4, <2>5 DEF OrderInv
<1>3. ASSUME NEW s \in {"openZ", "batchOpening"}, NEW from \in {"openZ.open", "batch.open"},
             NEW to \in {"done", "failed"}, s = "openZ" => to = "failed",
             s = "openZ" <=> from = "openZ.open",
             Goto(s, from, to), UNCHANGED <<task, closed, form>>
      PROVE  OrderInv'
  <2>1. /\ stage[s] = from /\ stage'[s] = to
        /\ \A r \in Stages \ {s} : stage'[r] = stage[r]
    BY <1>3, Moves, StageNames
  <2>3. WaitInv' /\ CloseInv'
    BY <1>3, <2>1, StageNames DEF OrderInv, WaitInv, CloseInv, BeforeRestore
  <2>4. ForkInv'
    BY <1>3, <2>1, StageNames DEF OrderInv, ForkInv, Alive
  <2>5. EarlyInv' /\ LateInv'
    BY <1>3, <2>1, StageNames DEF OrderInv, EarlyInv, Early, LateInv, BeforeRestore
  <2> QED BY <2>3, <2>4, <2>5 DEF OrderInv
<1>4. CASE StartEvaluations
  <2>1. /\ stage[lin] = "lin.fork" /\ stage'[lin] = "lin.awaitZ"
        /\ \A r \in Stages \ {lin} : stage'[r] = stage[r]
        /\ UNCHANGED <<closed, form>>
    BY <1>4, Moves, StageNames DEF StartEvaluations
  <2>2. \A t \in Tasks \ EvalTasks : task'[t] = task[t]
    BY <1>4 DEF StartEvaluations, Fork, Tasks
  <2>3. WaitInv' /\ CloseInv'
    BY <2>1, StageNames DEF OrderInv, WaitInv, CloseInv, BeforeRestore
  <2>4. ForkInv'
    BY <2>1, <2>2, StageNames, TaskLemma DEF OrderInv, WaitInv, ForkInv, Alive, Tasks
  <2>5. EarlyInv' /\ LateInv'
    BY <2>1, <2>2, StageNames, TaskLemma DEF OrderInv, EarlyInv, Early, LateInv, BeforeRestore, Tasks
  <2> QED BY <2>3, <2>4, <2>5 DEF OrderInv
<1>5. CASE JoinEvaluations
  <2>1. /\ stage[lin] = "lin.join" /\ stage'[lin] = "lin.inner"
        /\ \A r \in Stages \ {lin} : stage'[r] = stage[r]
        /\ UNCHANGED <<task, closed, form>>
    BY <1>5, Moves, StageNames DEF JoinEvaluations
  <2>3. WaitInv' /\ CloseInv'
    BY <2>1, StageNames DEF OrderInv, WaitInv, CloseInv, BeforeRestore
  <2>4. ForkInv'
    BY <2>1, StageNames DEF OrderInv, ForkInv, Alive
  <2>5. EarlyInv' /\ LateInv'
    BY <2>1, StageNames DEF OrderInv, EarlyInv, Early, LateInv, BeforeRestore
  <2> QED BY <2>3, <2>4, <2>5 DEF OrderInv
<1>6. CASE Linearize
  <2>1. /\ stage[lin] = "lin.inner" /\ stage'[lin] = "lin.commit"
        /\ \A r \in Stages \ {lin} : stage'[r] = stage[r]
        /\ UNCHANGED <<task, closed>>
    BY <1>6, Moves, StageNames DEF Linearize
  <2>2. /\ form'["blindedZ"] = "linearized"
        /\ \A p \in Polys \ {"blindedZ", "traceQk"} : form'[p] = form[p]
    BY <1>6 DEF Linearize, Polys, IInv, TypeOK
  <2>3. WaitInv' /\ CloseInv'
    BY <2>1, StageNames DEF OrderInv, WaitInv, CloseInv, BeforeRestore
  <2>4. ForkInv'
    BY <2>1, StageNames DEF OrderInv, ForkInv, Alive
  <2>5. EarlyInv'
    BY <1>0, <2>1, StageNames DEF OrderInv, WaitInv, EarlyInv, Early, BeforeRestore
  <2>6. LateInv'
    BY <2>1, <2>2, StageNames DEF OrderInv, WaitInv, CloseInv, LateInv, Polys, Wires
  <2> QED BY <2>3, <2>4, <2>5, <2>6 DEF OrderInv
<1>7. ASSUME CloseAndReturn(lin, "lin.commit", "chLinearizedPolynomial"),
             UNCHANGED <<task, form>>
      PROVE  OrderInv'
  <2>1. /\ stage[lin] = "lin.commit" /\ stage'[lin] = "done"
        /\ \A r \in Stages \ {lin} : stage'[r] = stage[r]
        /\ closed' = closed \cup {"chLinearizedPolynomial"}
    BY <1>7, Moves, StageNames DEF CloseAndReturn
  <2>3. WaitInv' /\ CloseInv'
    BY <2>1, StageNames DEF OrderInv, WaitInv, CloseInv, BeforeRestore
  <2>4. ForkInv'
    BY <1>7, <2>1, StageNames DEF OrderInv, ForkInv, Alive
  <2>5. EarlyInv' /\ LateInv'
    BY <1>7, <2>1, StageNames DEF OrderInv, EarlyInv, Early, LateInv, BeforeRestore
  <2> QED BY <2>3, <2>4, <2>5 DEF OrderInv
<1>8. CASE Error(lin, "lin.commit")
  BY <1>8, ErrorOrder, StageNames
<1>9. CASE OpenZ \/ BatchOpen
  BY <1>2, <1>3, <1>9 DEF OpenZ, BatchOpen, Return
<1> QED BY <1>1, <1>4, <1>5, <1>6, <1>7, <1>8, <1>9 DEF CommitLinearized

\* The goroutines the stages start.
LEMMA TasksOrder ==
  ASSUME IInv, OrderInv, NEW t \in Tasks, Task(t)
  PROVE  OrderInv'
<1>1. ASSUME NEW w \in Wires, SubtractS0(w) \/ CommitWire(w) PROVE OrderInv'
  <2> DEFINE u == <<"lro", w>>
  <2>1. /\ u \in LroTasks /\ Alive(u)
        /\ \A k \in Tasks \ {u} : task'[k] = task[k]
        /\ UNCHANGED <<stage, closed>>
    BY <1>1 DEF SubtractS0, CommitWire, Alive, LroTasks, Tasks, IInv, TypeOK
  <2>2. /\ \A p \in Polys \ {w} : form'[p] = form[p]
        /\ task'[u] # "run"
        /\ task'[u] = "done" => form'[w] = "lagrange"
    BY <1>1 DEF SubtractS0, CommitWire, Set, LroTasks, Tasks, IInv, TypeOK, Polys
  <2>3. stage["solveConstraints"] = "lro.join" /\ "chLRO" \notin closed /\ task[Restore] = "idle"
    BY <2>1 DEF OrderInv, ForkInv, CloseInv, WaitInv
  <2>4. WaitInv' /\ CloseInv'
    BY <2>1 DEF OrderInv, WaitInv, CloseInv, BeforeRestore
  <2>5. ForkInv'
    BY <2>1, <2>3, TaskLemma DEF OrderInv, ForkInv, Alive, Tasks
  <2>6. EarlyInv'
    BY <2>1, <2>2, <2>3, TaskLemma DEF OrderInv, EarlyInv, Early, BeforeRestore, Tasks, Polys, Wires
  <2>7. LateInv'
    BY <2>1, <2>2, <2>3, TaskLemma DEF OrderInv, LateInv, Tasks, Polys, Wires
  <2> QED BY <2>4, <2>5, <2>6, <2>7 DEF OrderInv
<1>2. ASSUME NEW u \in ShardTasks \cup EvalTasks, task[u] = "run",
             task' = [task EXCEPT ![u] = "done"] \/ task' = [task EXCEPT ![u] = "failed"],
             UNCHANGED <<stage, closed, form>>
      PROVE  OrderInv'
  <2>1. /\ \A k \in Tasks \ {u} : task'[k] = task[k]
        /\ task'[u] \in {"done", "failed"} /\ task[Restore] = task'[Restore]
    BY <1>2, TaskLemma DEF Tasks, IInv, TypeOK
  <2>4. WaitInv' /\ CloseInv'
    BY <1>2 DEF OrderInv, WaitInv, CloseInv, BeforeRestore
  <2>5. ForkInv'
    BY <1>2, <2>1, TaskLemma DEF OrderInv, ForkInv, Alive, Tasks
  <2>6. EarlyInv' /\ LateInv'
    BY <1>2, <2>1, TaskLemma DEF OrderInv, EarlyInv, Early, LateInv, BeforeRestore, Tasks
  <2> QED BY <2>4, <2>5, <2>6 DEF OrderInv
<1>3. CASE RestoreLRO
  <2>1. /\ task[Restore] = "run" /\ task'[Restore] = "done"
        /\ \A k \in Tasks \ {Restore} : task'[k] = task[k]
        /\ closed' = closed \cup {"chRestoreLRO"}
        /\ UNCHANGED stage
    BY <1>3 DEF RestoreLRO, Tasks, IInv, TypeOK
  <2>2. /\ \A p \in Wires \cup {"Z", "fixed", "Pi", "bp"} : form'[p] = "canonical"
        /\ form'["blindedZ"] = form["blindedZ"]
    BY <1>3 DEF RestoreLRO, RestoreForms, Polys, Wires
  <2>3. ~Early'
    BY <2>1 DEF IInv, Achieved, RestoreInv, OrderInv, ForkInv, Early
  <2>4. WaitInv' /\ CloseInv'
    BY <2>1 DEF OrderInv, WaitInv, CloseInv, BeforeRestore
  <2>5. ForkInv'
    BY <2>1, TaskLemma DEF OrderInv, ForkInv, Alive, Tasks
  <2>6. EarlyInv'
    BY <2>3 DEF EarlyInv
  <2>7. LateInv'
    BY <2>1, <2>2 DEF OrderInv, LateInv
  <2> QED BY <2>4, <2>5, <2>6, <2>7 DEF OrderInv
<1> QED
  BY <1>1, <1>2, <1>3, TaskLemma DEF Task, CommitShard, Evaluate

\* Nothing has been waited for, closed or started.
LEMMA InitOrder == Init => OrderInv
BY StageNames, TaskLemma DEF Init, OrderInv, WaitInv, CloseInv, ForkInv, EarlyInv, Early,
   LateInv, Entry, BeforeRestore, Alive, Tasks, Polys

\* All steps together.
LEMMA StepOrder == IInv /\ OrderInv /\ [Next]_vars => OrderInv'
<1> SUFFICES ASSUME IInv, OrderInv, [Next]_vars PROVE OrderInv'
  OBVIOUS
<1>1. ASSUME NEW s \in Stages, Stage(s) PROVE OrderInv'
  <2>1. CASE \E a \in Awaits : Select(a)
    BY <2>1, SelectOrder
  <2>2. CASE (\E c \in Commitments : Bsb22Hint(c)) \/ Solve \/ CommitToLRO \/ JoinLRO
    BY <2>2, SolveConstraintsOrder
  <2>3. CASE \/ CloneQk \/ FillQk \/ SampleBlinding
             \/ BindPublicData \/ DeriveGamma \/ DeriveBeta
    BY <2>3, EarlyStagesOrder
  <2>4. CASE BuildRatio \/ CommitZ \/ ReturnFromRatio
    BY <2>4, RatioOrder
  <2>5. CASE \/ AssignTrace \/ AssignPi2 \/ DeriveAlpha \/ ShiftZ \/ BuildTwiddles
             \/ EvaluateOnCosets \/ DivideByZH \/ CommitToQuotient \/ JoinQuotient
             \/ DeriveZeta \/ CloseH
    BY <2>5, QuotientOrder
  <2>6. CASE \/ BlindZ \/ OpenZ
             \/ StartEvaluations \/ JoinEvaluations \/ Linearize \/ CommitLinearized
             \/ BatchOpen
    BY <2>6, OpeningsOrder
  <2> QED BY <1>1, <2>1, <2>2, <2>3, <2>4, <2>5, <2>6 DEF Stage
<1>2. ASSUME NEW t \in Tasks, Task(t) PROVE OrderInv'
  BY <1>2, TasksOrder
<1>3. CASE ReturnFromProve \/ UNCHANGED vars
  BY <1>3 DEF ReturnFromProve, vars, OrderInv, WaitInv, CloseInv, ForkInv, EarlyInv, Early,
     LateInv, Alive
<1> QED BY <1>1, <1>2, <1>3 DEF Next

\* Both invariants hold of every run of Prove.
LEMMA OrderInvariance == Spec => [](IInv /\ OrderInv)
BY InitInv, StepInv, InitOrder, StepOrder, PTL DEF Spec

-------------------------------------------------------------------------------
(* The theorems.                                                           *)

\* Whatever the interleaving and whatever fails, each consumer finds the
\* polynomials in the basis it computes in, although the rho loop and the
\* restoring goroutine move them all in place.
THEOREM FormsReadyThm == Spec => []FormsReady
<1>1. ASSUME IInv, OrderInv PROVE FormsReady
  <2>1. stage["buildRatioCopyConstraint"] \in {"ratio.build", "ratio.commit"} =>
          Early /\ "chLRO" \in closed /\ stage["solveConstraints"] = "done"
    BY <1>1, StageNames DEF OrderInv, WaitInv, CloseInv, Early
  <2>2. stage["solveConstraints"] = "done" =>
          "chbp" \in closed /\ \A w \in Wires : task[<<"lro", w>>] = "done"
    BY <1>1, StageNames, TaskLemma DEF OrderInv, WaitInv, IInv, Achieved, SolveInv, AllDone
  <2>3. "chH" \in closed => task[Restore] = "done"
    BY <1>1 DEF OrderInv, CloseInv, WaitInv, IInv, Achieved, RestoreInv
  <2>4. stage["buildRatioCopyConstraint"] = "ratio.build" => \A w \in Wires : form[w] = "lagrange"
    BY <1>1, <2>1, <2>2 DEF OrderInv, EarlyInv
  <2>5. stage["buildRatioCopyConstraint"] = "ratio.commit" =>
          form["Z"] = "lagrange" /\ form["bp"] = "canonical"
    BY <1>1, <2>1, <2>2 DEF OrderInv, EarlyInv
  <2>6. stage["computeQuotient"] = "h.rho" =>
          \A p \in NumeratorPolys : form[p] = IF p = "bp" THEN "canonical" ELSE "lagrange"
    BY <1>1, <2>2, StageNames DEF OrderInv, EarlyInv, WaitInv, CloseInv, Early, BeforeRestore,
       NumeratorPolys, Wires
  <2>7. /\ stage["openZ"] = "openZ.blind" => form["Z"] = "canonical" /\ form["bp"] = "canonical"
        /\ stage["openZ"] = "openZ.open" => form["blindedZ"] = "canonical"
    BY <1>1, <2>3 DEF OrderInv, WaitInv, LateInv
  <2>8. \A t \in EvalTasks : Alive(t) => \A p \in {"fixed", "bp"} \cup Wires : form[p] = "canonical"
    BY <1>1, <2>3 DEF OrderInv, ForkInv, LateInv
  <2>9. stage["computeLinearizedPolynomial"] = "lin.inner" =>
          \A p \in {"fixed", "Pi", "blindedZ"} : form[p] = "canonical"
    BY <1>1, <2>3 DEF OrderInv, WaitInv, CloseInv, LateInv
  <2>10. stage["batchOpening"] = "batch.open" =>
           /\ \A p \in {"fixed", "bp"} \cup Wires : form[p] = "canonical"
           /\ form["blindedZ"] = "linearized"
    BY <1>1, <2>3 DEF OrderInv, WaitInv, CloseInv, LateInv
  <2> QED BY <2>4, <2>5, <2>6, <2>7, <2>8, <2>9, <2>10 DEF FormsReady
<1> QED BY <1>1, OrderInvariance, PTL

\* Two stages: from the label of the one that writes, the channels tell where
\* the other can be.
LEMMA StagesDoNotRace ==
  ASSUME IInv, OrderInv, NEW s \in Stages, NEW r \in Stages, s # r
  PROVE  StageWrites(stage[s]) \cap (StageReads(stage[r]) \cup StageWrites(stage[r])) = {}
<1> USE DEF IInv, TypeOK, Code, Stages, OrderInv, WaitInv, CloseInv, BeforeRestore,
            StageReads, StageWrites, Coeffs, Parts, Fields, Wires, Shards, NumeratorPolys
<1>1. CASE s = "solveConstraints"
  BY <1>1
<1>2. CASE s \in {"completeQk", "initBlindingPolynomials"}
  BY <1>2
<1>3. CASE s = "deriveGammaAndBeta"
  BY <1>3
<1>4. CASE s = "buildRatioCopyConstraint"
  BY <1>4
<1>5. CASE s = "computeQuotient"
  BY <1>5
<1>6. CASE s \in {"openZ", "computeLinearizedPolynomial", "batchOpening"}
  BY <1>6
<1> QED BY <1>1, <1>2, <1>3, <1>4, <1>5, <1>6

\* A goroutine at work, and any stage, the one that started it included.
LEMMA TasksDoNotRaceWithStages ==
  ASSUME IInv, OrderInv, NEW t \in Tasks, Alive(t), NEW s \in Stages
  PROVE  /\ TaskWrites(t) \cap (StageReads(stage[s]) \cup StageWrites(stage[s])) = {}
         /\ StageWrites(stage[s]) \cap TaskReads(t) = {}
<1>1. CASE t \in LroTasks
  <2>1. PICK w \in Wires : t = <<"lro", w>>
    BY <1>1 DEF LroTasks
  <2>2. TaskReads(t) = Coeffs({"bp"}) /\ TaskWrites(t) = Coeffs({w}) \cup Parts({w})
    BY <1>1, <2>1, TaskLemma DEF TaskReads, TaskWrites
  <2>3. stage["solveConstraints"] = "lro.join"
    BY <1>1 DEF OrderInv, ForkInv
  <2> QED
    BY <2>2, <2>3 DEF IInv, TypeOK, Code, Stages, OrderInv, WaitInv, CloseInv, BeforeRestore,
       StageReads, StageWrites, Coeffs, Parts, Fields, Wires, Shards, NumeratorPolys
<1>2. CASE t \in ShardTasks
  <2>1. PICK h \in Shards : t = <<"shard", h>>
    BY <1>2 DEF ShardTasks
  <2>2. TaskReads(t) = Fields({"h"}) /\ TaskWrites(t) = Parts({h})
    BY <1>2, <2>1, TaskLemma DEF TaskReads, TaskWrites
  <2>3. stage["computeQuotient"] = "h.join"
    BY <1>2 DEF OrderInv, ForkInv
  <2> QED
    BY <2>2, <2>3 DEF IInv, TypeOK, Code, Stages, OrderInv, WaitInv, CloseInv, BeforeRestore,
       StageReads, StageWrites, Coeffs, Parts, Fields, Wires, Shards, NumeratorPolys
<1>3. CASE t \in EvalTasks
  <2>1. /\ TaskReads(t) \subseteq Coeffs(Wires \cup {"bp", "fixed"}) \cup Fields({"zeta"})
        /\ TaskWrites(t) = {}
    BY <1>3, TaskLemma DEF TaskReads, TaskWrites, Coeffs
  <2>3. "chH" \in closed
    BY <1>3 DEF OrderInv, ForkInv
  <2> QED
    BY <2>1, <2>3 DEF IInv, TypeOK, Code, Stages, OrderInv, WaitInv, CloseInv, BeforeRestore,
       StageReads, StageWrites, Coeffs, Parts, Fields, Wires, Shards, NumeratorPolys
<1>4. CASE t = Restore
  <2>1. TaskReads(t) = {} /\ TaskWrites(t) = Coeffs(NumeratorPolys)
    BY <1>4, TaskLemma DEF TaskReads, TaskWrites
  <2>2. /\ "chZ" \in closed /\ "chQk" \in closed /\ "chRestoreLRO" \notin closed
        /\ stage["computeQuotient"] \notin BeforeRestore
    BY <1>4 DEF OrderInv, ForkInv, IInv, Achieved, RestoreInv, Alive
  <2> QED
    BY <2>1, <2>2 DEF IInv, TypeOK, Code, Stages, OrderInv, WaitInv, CloseInv, BeforeRestore,
       StageReads, StageWrites, Coeffs, Parts, Fields, Wires, Shards, NumeratorPolys
<1> QED BY <1>1, <1>2, <1>3, <1>4 DEF Tasks

\* Two goroutines at work are of one kind and write different things, or are
\* the restoring goroutine and the commitments to the quotient.
LEMMA TasksDoNotRace ==
  ASSUME IInv, OrderInv, NEW t \in Tasks, NEW u \in Tasks, t # u, Alive(t), Alive(u)
  PROVE  TaskWrites(t) \cap (TaskReads(u) \cup TaskWrites(u)) = {}
<1>1. /\ \A k \in LroTasks : \E w \in Wires : k = <<"lro", w>>
      /\ \A k \in ShardTasks : \E h \in Shards : k = <<"shard", h>>
  BY DEF LroTasks, ShardTasks
<1>2. /\ \A k \in LroTasks : /\ TaskReads(k) = Coeffs({"bp"})
                              /\ TaskWrites(k) = Coeffs({k[2]}) \cup Parts({k[2]})
      /\ \A k \in ShardTasks : TaskReads(k) = Fields({"h"}) /\ TaskWrites(k) = Parts({k[2]})
      /\ \A k \in EvalTasks :
           /\ TaskReads(k) \subseteq Coeffs(Wires \cup {"bp", "fixed"}) \cup Fields({"zeta"})
           /\ TaskWrites(k) = {}
      /\ TaskReads(Restore) = {} /\ TaskWrites(Restore) = Coeffs(NumeratorPolys)
  BY TaskLemma DEF TaskReads, TaskWrites, Coeffs
<1>3. /\ t \in LroTasks => u \in LroTasks
      /\ t = Restore => u \in ShardTasks
      /\ t \in ShardTasks => u \in ShardTasks \cup {Restore}
  BY TaskLemma DEF Tasks, OrderInv, ForkInv, WaitInv, CloseInv, BeforeRestore, IInv, Achieved,
     RestoreInv, Alive
<1> QED
  BY <1>1, <1>2, <1>3, TaskLemma DEF Tasks, Coeffs, Parts, Fields, Wires, Shards, NumeratorPolys

\* No two goroutines of a call to Prove touch the same polynomial, proof part
\* or field at the same time when one of them writes it.
THEOREM NoRaceThm == Spec => []NoRace
<1>1. ASSUME IInv, OrderInv PROVE NoRace
  BY <1>1, StagesDoNotRace, TasksDoNotRaceWithStages, TasksDoNotRace DEF NoRace
<1> QED BY <1>1, OrderInvariance, PTL

-------------------------------------------------------------------------------
(* No stage waits for ever.                                                *)

\* The channel a stage closes when it returns nil.
Closes(s) == CASE s = "solveConstraints"            -> "chLRO"
               [] s = "completeQk"                  -> "chQk"
               [] s = "initBlindingPolynomials"     -> "chbp"
               [] s = "deriveGammaAndBeta"          -> "chGammaBeta"
               [] s = "buildRatioCopyConstraint"    -> "chZ"
               [] s = "computeQuotient"             -> "chH"
               [] s = "openZ"                       -> "chZOpening"
               [] s = "computeLinearizedPolynomial" -> "chLinearizedPolynomial"

\* Labels of computeQuotient after the rho loop.
AfterRho == {"h.divide", "h.fork", "h.join", "h.zeta", "h.awaitRestore", "h.close", "done"}

Started(T) == \A t \in T : task[t] # "idle"

\* Whoever ends well has closed its channel.
ClosedInv ==
  /\ \A s \in Stages \ {"batchOpening"} : stage[s] = "done" => Closes(s) \in closed
  /\ stage["buildRatioCopyConstraint"] = "ratio.return" => "chZ" \in closed
  /\ task[Restore] = "done" => "chRestoreLRO" \in closed
  /\ task[Restore] # "failed"

\* A goroutine that is waited for has been started.
StartedInv ==
  /\ stage["solveConstraints"] = "lro.join" => Started(LroTasks)
  /\ stage["computeQuotient"] = "h.join" => Started(ShardTasks)
  /\ stage["computeLinearizedPolynomial"] \in {"lin.awaitZ", "lin.join"} => Started(EvalTasks)
  /\ stage["computeQuotient"] \in AfterRho => Started({Restore})

HandedOn == ClosedInv /\ StartedInv

\* A stage moves: it has to close its channel when it ends, and to start its
\* goroutines before it waits for them.
LEMMA HandsOn ==
  ASSUME IInv, HandedOn, NEW s \in Stages, NEW from, NEW to, Goto(s, from, to),
         closed \subseteq closed',
         \A t \in Tasks : task'[t] = task[t] \/ task'[t] = "run",
         to = "done" /\ s # "batchOpening" => Closes(s) \in closed',
         to = "ratio.return" => "chZ" \in closed',
         to = "lro.join" => \A t \in LroTasks : task'[t] # "idle",
         to = "h.join" => \A t \in ShardTasks : task'[t] # "idle",
         to = "lin.awaitZ" => \A t \in EvalTasks : task'[t] # "idle",
         to = "lin.join" => from = "lin.awaitZ",
         s = "computeQuotient" /\ to \in AfterRho => from \in AfterRho \/ task'[Restore] # "idle"
  PROVE  HandedOn'
<1>1. /\ stage[s] = from /\ stage'[s] = to
      /\ \A r \in Stages \ {s} : stage'[r] = stage[r]
  BY Moves
<1>2. /\ LroTasks \subseteq Tasks /\ ShardTasks \subseteq Tasks /\ EvalTasks \subseteq Tasks
      /\ Restore \in Tasks
  BY DEF Tasks
<1>3. \A t \in Tasks : task[t] # "idle" => task'[t] # "idle"
  OBVIOUS
<1>4. ClosedInv'
  <2>1. \A r \in Stages \ {"batchOpening"} : stage'[r] = "done" => Closes(r) \in closed'
    BY <1>1 DEF HandedOn, ClosedInv
  <2>2. /\ task'[Restore] = "done" => "chRestoreLRO" \in closed'
        /\ task'[Restore] # "failed"
    BY <1>2 DEF HandedOn, ClosedInv
  <2>3. stage'["buildRatioCopyConstraint"] = "ratio.return" => "chZ" \in closed'
    BY <1>1, StageNames DEF HandedOn, ClosedInv
  <2> QED BY <2>1, <2>2, <2>3 DEF ClosedInv, Closes
<1>5. StartedInv'
  <2>1. stage'["solveConstraints"] = "lro.join" => \A t \in LroTasks : task'[t] # "idle"
    BY <1>1, <1>2, <1>3, StageNames DEF HandedOn, StartedInv, Started
  <2>2. stage'["computeQuotient"] = "h.join" => \A t \in ShardTasks : task'[t] # "idle"
    BY <1>1, <1>2, <1>3, StageNames DEF HandedOn, StartedInv, Started
  <2>3. stage'["computeLinearizedPolynomial"] \in {"lin.awaitZ", "lin.join"} =>
          \A t \in EvalTasks : task'[t] # "idle"
    BY <1>1, <1>2, <1>3, StageNames DEF HandedOn, StartedInv, Started
  <2>4. stage'["computeQuotient"] \in AfterRho => task'[Restore] # "idle"
    BY <1>1, <1>2, <1>3, StageNames DEF HandedOn, StartedInv, Started
  <2> QED BY <2>1, <2>2, <2>3, <2>4 DEF StartedInv, Started
<1> QED BY <1>4, <1>5 DEF HandedOn

\* A select, whichever way it goes.
LEMMA SelectHandsOn ==
  ASSUME IInv, HandedOn, NEW a \in Awaits, Select(a)
  PROVE  HandedOn'
<1>1. /\ a.stage \in Stages
      /\ a.then \notin {"done", "ratio.return", "lro.join", "h.join", "lin.awaitZ"}
      /\ a.then = "lin.join" => a.at = "lin.awaitZ"
      /\ a.then \in AfterRho => a.at \in AfterRho
  BY DEF Awaits, Await, Stages, AfterRho
<1>2. \E to \in {a.then, "failed"} : Goto(a.stage, a.at, to)
  BY DEF Select, Return
<1>3. UNCHANGED <<closed, task>>
  BY DEF Select
<1> QED BY <1>1, <1>2, <1>3, HandsOn DEF AfterRho

\* A call that returns an error.
LEMMA ErrorHandsOn ==
  ASSUME IInv, HandedOn, NEW s \in Stages, NEW from, Error(s, from)
  PROVE  HandedOn'
BY HandsOn DEF Error, Return, AfterRho

\* A step of a stage that neither ends it nor starts a goroutine.
LEMMA PlainHandsOn ==
  ASSUME IInv, HandedOn, NEW s \in Stages, NEW from, NEW to, Goto(s, from, to),
         UNCHANGED <<task, closed>>,
         to \notin {"done", "ratio.return", "lro.join", "h.join", "lin.awaitZ", "lin.join"},
         to \in AfterRho => from \in AfterRho
  PROVE  HandedOn'
BY HandsOn

\* The stage that ends closes its channel.
LEMMA CloseHandsOn ==
  ASSUME IInv, HandedOn, NEW s \in Stages, NEW from, CloseAndReturn(s, from, Closes(s)),
         UNCHANGED task, s = "computeQuotient" => from = "h.close"
  PROVE  HandedOn'
<1>1. /\ Goto(s, from, "done") /\ closed' = closed \cup {Closes(s)}
  BY DEF CloseAndReturn
<1> QED BY <1>1, HandsOn DEF AfterRho

\* Every step of a stage.
LEMMA StageHandsOn ==
  ASSUME IInv, HandedOn, NEW s \in Stages, Stage(s)
  PROVE  HandedOn'
<1> USE StageNames
<1>1. CASE \E a \in Awaits : Select(a)
  BY <1>1, SelectHandsOn
<1>2. CASE \E c \in Commitments : Bsb22Hint(c)
  BY <1>2 DEF Bsb22Hint, HandedOn, ClosedInv, StartedInv, Started
<1>3. CASE Solve \/ CommitToLRO \/ JoinLRO
  <2>1. ASSUME Goto("solveConstraints", "lro.fork", "lro.join"), Fork(LroTasks), UNCHANGED closed
        PROVE  HandedOn'
    <3>1. \A t \in Tasks : task'[t] = task[t] \/ task'[t] = "run"
      BY <2>1 DEF Fork
    <3>2. \A t \in LroTasks : task'[t] = "run"
      BY <2>1 DEF Fork, Tasks
    <3> QED BY <2>1, <3>1, <3>2, HandsOn
  <2>2. Closes("solveConstraints") = "chLRO"
    BY DEF Closes
  <2> QED BY <1>3, <2>1, <2>2, PlainHandsOn, ErrorHandsOn, CloseHandsOn
          DEF Solve, CommitToLRO, JoinLRO, AfterRho
<1>4. CASE \/ CloneQk \/ FillQk \/ SampleBlinding
           \/ BindPublicData \/ DeriveGamma \/ DeriveBeta
  <2>1. /\ Closes("completeQk") = "chQk" /\ Closes("initBlindingPolynomials") = "chbp"
        /\ Closes("deriveGammaAndBeta") = "chGammaBeta"
    BY DEF Closes
  <2>2. CASE CloneQk \/ BindPublicData \/ DeriveGamma
    BY <2>2, PlainHandsOn, ErrorHandsOn DEF CloneQk, BindPublicData, DeriveGamma, AfterRho
  <2>3. CASE FillQk \/ SampleBlinding \/ DeriveBeta
    BY <2>1, <2>3, CloseHandsOn, ErrorHandsOn DEF FillQk, SampleBlinding, DeriveBeta
  <2> QED BY <1>4, <2>2, <2>3
<1>5. CASE BuildRatio \/ CommitZ \/ ReturnFromRatio
  <2>1. CASE BuildRatio
    BY <2>1, PlainHandsOn, ErrorHandsOn DEF BuildRatio, AfterRho
  <2>2. CASE CommitZ
    BY <2>2, HandsOn DEF CommitZ
  <2>3. CASE ReturnFromRatio
    <3>1. ASSUME Goto("buildRatioCopyConstraint", "ratio.return", "done"), UNCHANGED <<task, closed>>
          PROVE  HandedOn'
      <4>1. Closes("buildRatioCopyConstraint") \in closed
        BY <3>1 DEF HandedOn, ClosedInv, Goto, Closes
      <4> QED BY <3>1, <4>1, HandsOn
    <3> QED BY <2>3, <3>1, ErrorHandsOn DEF ReturnFromRatio
  <2> QED BY <1>5, <2>1, <2>2, <2>3
<1>6. CASE \/ AssignTrace \/ AssignPi2 \/ DeriveAlpha \/ ShiftZ \/ BuildTwiddles
           \/ DivideByZH \/ JoinQuotient \/ DeriveZeta \/ CloseH
  <2>1. Closes("computeQuotient") = "chH"
    BY DEF Closes
  <2>2. CASE CloseH
    BY <2>1, <2>2, CloseHandsOn DEF CloseH
  <2> QED BY <1>6, <2>2, PlainHandsOn, ErrorHandsOn
          DEF AssignTrace, AssignPi2, DeriveAlpha, ShiftZ, BuildTwiddles, DivideByZH,
              JoinQuotient, DeriveZeta, Proceed, AfterRho
<1>7. CASE EvaluateOnCosets
  <2>1. UNCHANGED closed
    BY <1>7 DEF EvaluateOnCosets
  <2>2. ASSUME Goto("computeQuotient", "h.rho", "h.divide"), Fork({Restore}) PROVE HandedOn'
    <3>1. \A t \in Tasks : task'[t] = task[t] \/ task'[t] = "run"
      BY <2>2 DEF Fork
    <3>2. task'[Restore] = "run"
      BY <2>2 DEF Fork, Tasks
    <3> QED BY <2>1, <2>2, <3>1, <3>2, HandsOn
  <2>3. ASSUME Return("computeQuotient", "h.rho", "own"), UNCHANGED task PROVE HandedOn'
    BY <2>1, <2>3, PlainHandsOn DEF Return, AfterRho
  <2> QED BY <1>7, <2>2, <2>3 DEF EvaluateOnCosets
<1>8. CASE CommitToQuotient
  <2>1. \A t \in Tasks : task'[t] = task[t] \/ task'[t] = "run"
    BY <1>8 DEF CommitToQuotient, Fork
  <2>2. \A t \in ShardTasks : task'[t] = "run"
    BY <1>8 DEF CommitToQuotient, Fork, Tasks
  <2> QED BY <1>8, <2>1, <2>2, HandsOn DEF CommitToQuotient, AfterRho
<1>9. CASE StartEvaluations
  <2>1. \A t \in Tasks : task'[t] = task[t] \/ task'[t] = "run"
    BY <1>9 DEF StartEvaluations, Fork
  <2>2. \A t \in EvalTasks : task'[t] = "run"
    BY <1>9 DEF StartEvaluations, Fork, Tasks
  <2> QED BY <1>9, <2>1, <2>2, HandsOn DEF StartEvaluations
<1>10. CASE BlindZ \/ OpenZ \/ JoinEvaluations \/ Linearize \/ CommitLinearized
  <2>1. /\ Closes("openZ") = "chZOpening"
        /\ Closes("computeLinearizedPolynomial") = "chLinearizedPolynomial"
    BY DEF Closes
  <2>2. CASE BlindZ \/ JoinEvaluations \/ Linearize
    BY <2>2, PlainHandsOn DEF BlindZ, JoinEvaluations, Linearize, AfterRho
  <2>3. CASE OpenZ
    BY <2>1, <2>3, PlainHandsOn, CloseHandsOn DEF OpenZ, Return, AfterRho
  <2>4. CASE CommitLinearized
    BY <2>1, <2>4, ErrorHandsOn, CloseHandsOn DEF CommitLinearized
  <2> QED BY <1>10, <2>2, <2>3, <2>4
<1>11. CASE BatchOpen
  BY <1>11, HandsOn DEF BatchOpen, Return
<1> QED BY <1>1, <1>2, <1>3, <1>4, <1>5, <1>6, <1>7, <1>8, <1>9, <1>10, <1>11 DEF Stage

\* The goroutines the stages start.
LEMMA TaskHandsOn ==
  ASSUME IInv, HandedOn, NEW t \in Tasks, Task(t)
  PROVE  HandedOn'
<1>1. ASSUME NEW u \in Tasks \ {Restore},
             \E v \in {"msm", "done", "failed"} : task' = [task EXCEPT ![u] = v],
             UNCHANGED <<stage, closed>>
      PROVE  HandedOn'
  <2>1. /\ task'[Restore] = task[Restore]
        /\ \A k \in Tasks : task[k] # "idle" => task'[k] # "idle"
    BY <1>1 DEF IInv, TypeOK
  <2>2. LroTasks \subseteq Tasks /\ ShardTasks \subseteq Tasks /\ EvalTasks \subseteq Tasks
    BY DEF Tasks
  <2> QED BY <1>1, <2>1, <2>2 DEF HandedOn, ClosedInv, StartedInv, Started
<1>2. CASE RestoreLRO
  <2>1. /\ task'[Restore] = "done"
        /\ \A k \in Tasks \ {Restore} : task'[k] = task[k]
        /\ closed' = closed \cup {"chRestoreLRO"}
        /\ UNCHANGED stage
    BY <1>2 DEF RestoreLRO, Tasks, IInv, TypeOK
  <2>2. LroTasks \subseteq Tasks /\ ShardTasks \subseteq Tasks /\ EvalTasks \subseteq Tasks
    BY DEF Tasks
  <2> QED BY <2>1, <2>2, TaskLemma DEF HandedOn, ClosedInv, StartedInv, Started
<1>3. /\ \A w \in Wires : <<"lro", w>> \in Tasks \ {Restore}
      /\ \A h \in Shards : <<"shard", h>> \in Tasks \ {Restore}
      /\ EvalTasks \subseteq Tasks \ {Restore}
  BY TaskLemma DEF Tasks
<1> QED BY <1>1, <1>2, <1>3 DEF Task, SubtractS0, CommitWire, CommitShard, Evaluate

\* In every run of Prove.
LEMMA HandedOnInvariance == Spec => [](IInv /\ HandedOn)
<1>1. Init => HandedOn
  BY StageNames, TaskLemma DEF Init, HandedOn, ClosedInv, StartedInv, Started, Entry, AfterRho,
     Tasks, Closes
<1>2. IInv /\ HandedOn /\ [Next]_vars => HandedOn'
  <2>1. CASE ReturnFromProve \/ UNCHANGED vars
    BY <2>1 DEF ReturnFromProve, vars, HandedOn, ClosedInv, StartedInv, Started
  <2> QED BY <2>1, StageHandsOn, TaskHandsOn DEF Next
<1> QED BY <1>1, <1>2, InitInv, StepInv, PTL DEF Spec

\* When no goroutine of a call to Prove can go on, every stage has returned:
\* whatever failed and in whatever order, the selects and waits never wait for
\* one another in a circle, nor for a close that does not come any more.
THEOREM NoDeadlockThm == Spec => []NoDeadlock
<1>1. ASSUME IInv, HandedOn, \A s \in Stages : Stuck(s), \A t \in Tasks : ~Alive(t),
             NEW s \in Stages
      PROVE  Stopped(s)
  <2> USE StageNames
  <2>1. \A t \in Tasks : task[t] # "idle" => Ended(t)
    BY <1>1 DEF IInv, TypeOK, Alive, Ended
  <2>2. \A r \in Stages : \A j \in Joins : stage[r] # j.at \/ Joined(j.tasks)
    <3>1. /\ stage["solveConstraints"] = "lro.join" => Joined(LroTasks)
          /\ stage["computeQuotient"] = "h.join" => Joined(ShardTasks)
          /\ stage["computeLinearizedPolynomial"] = "lin.join" => Joined(EvalTasks)
      BY <1>1, <2>1 DEF HandedOn, StartedInv, Started, Joined, Tasks
    <3>2. \A r \in Stages : /\ stage[r] = "lro.join" => r = "solveConstraints"
                            /\ stage[r] = "h.join" => r = "computeQuotient"
                            /\ stage[r] = "lin.join" => r = "computeLinearizedPolynomial"
      BY <1>1 DEF IInv, TypeOK, Code, Stages
    <3> QED BY <3>1, <3>2 DEF Joins
  <2>3. \A r \in Stages :
          \/ Stopped(r)
          \/ ~CtxDone /\ \E a \in Awaits : a.stage = r /\ stage[r] = a.at /\ a.channel \notin closed
    BY <1>1, <2>2 DEF Stuck
  <2>4. CASE CtxDone
    BY <2>3, <2>4
  <2>5. CASE ~CtxDone
    <3>1. \A r \in Stages : Stopped(r) => stage[r] = "done"
      BY <1>1, <2>5 DEF IInv, EndInv, Stopped
    <3>2. ASSUME NEW r \in Stages \ {"batchOpening"},
                 \A a \in Awaits : a.stage = r /\ stage[r] = a.at => a.channel \in closed
          PROVE  Closes(r) \in closed
      <4>1. stage[r] = "done"
        BY <2>3, <3>1, <3>2
      <4> QED BY <1>1, <4>1 DEF HandedOn, ClosedInv
    <3>3. "chbp" \in closed
      BY <3>2 DEF Awaits, Await, Closes
    <3>4. "chLRO" \in closed
      BY <3>2, <3>3 DEF Awaits, Await, Closes
    <3>5. "chQk" \in closed /\ "chGammaBeta" \in closed
      BY <3>2, <3>4 DEF Awaits, Await, Closes
    <3>6. "chZ" \in closed
      BY <3>2, <3>5 DEF Awaits, Await, Closes
    <3>7. stage["computeQuotient"] = "h.awaitRestore" => "chRestoreLRO" \in closed
      BY <1>1, <2>1 DEF HandedOn, ClosedInv, StartedInv, Started, AfterRho, Ended, Tasks
    <3>8. "chH" \in closed
      BY <3>2, <3>4, <3>5, <3>6, <3>7 DEF Awaits, Await, Closes
    <3>9. "chZOpening" \in closed
      BY <3>2, <3>8 DEF Awaits, Await, Closes
    <3>10. "chLinearizedPolynomial" \in closed
      BY <3>2, <3>8, <3>9 DEF Awaits, Await, Closes
    <3>11. \A a \in Awaits : stage[a.stage] = a.at => a.channel \in closed
      BY <3>3, <3>4, <3>5, <3>6, <3>7, <3>8, <3>9, <3>10 DEF Awaits, Await
    <3> QED BY <2>3, <3>11
  <2> QED BY <2>4, <2>5
<1>2. IInv /\ HandedOn => NoDeadlock
  BY <1>1 DEF NoDeadlock
<1> QED BY <1>2, HandedOnInvariance, PTL

-------------------------------------------------------------------------------
(***************************************************************************)
(* Each step of the pipeline is a step of PlonkProtocol, or one the        *)
(* protocol does not see.  The fairness part of ImplementsProtocol (the    *)
(* call ends) is left to model checking.                                   *)
(*                                                                         *)
(* SentInv says which parts of the proof are still absent and DerivedInv   *)
(* which challenges are drawn, label by label; what the channels order     *)
(* (OrderInv) carries that from one stage to the next.                     *)
(***************************************************************************)

(* The strengthening.                                                      *)

\* No part of the proof is written twice.
SentInv ==
  /\ stage["solveConstraints"] \in {"solve", "lro.await", "lro.fork"} =>
       \A w \in Wires : task[<<"lro", w>>] = "idle"
  /\ \A w \in Wires : task[<<"lro", w>>] \in {"idle", "run", "msm"} => proof[w] = "none"
  /\ stage["computeQuotient"] \in BeforeRestore \cup {"h.divide", "h.fork"} =>
       \A h \in Shards : task[<<"shard", h>>] = "idle"
  /\ \A h \in Shards : task[<<"shard", h>>] \in {"idle", "run"} => proof[h] = "none"
  /\ stage["buildRatioCopyConstraint"] \in {"ratio.await", "ratio.build", "ratio.commit"} =>
       proof["Z"] = "none"
  /\ "chZ" \in closed => proof["Z"] # "none"
  /\ stage["openZ"] \in {"openZ.await", "openZ.blind", "openZ.open"} => proof["ZShifted"] = "none"
  /\ stage["batchOpening"] \in {"batch.await", "batch.open"} => proof["Batched"] = "none"

\* Labels of computeQuotient up to the derivation of alpha.
BeforeAlpha == {"h.assign", "h.awaitLRO", "h.pi2", "h.awaitZ", "h.alpha"}

\* No challenge is drawn twice, and each is there where the code goes on.
DerivedInv ==
  /\ stage["deriveGammaAndBeta"] \in {"gamma.bind", "gamma.await", "gamma.derive"} =>
       "gamma" \notin derived
  /\ stage["deriveGammaAndBeta"] = "beta.derive" => "beta" \notin derived
  /\ stage["deriveGammaAndBeta"] = "done" => {"gamma", "beta"} \subseteq derived
  /\ "beta" \in derived => "gamma" \in derived
  /\ stage["computeQuotient"] \in BeforeAlpha => "alpha" \notin derived
  /\ stage["computeQuotient"] \notin BeforeAlpha \cup {"failed"} => "alpha" \in derived
  /\ stage["computeQuotient"] \in BeforeRestore \cup {"h.divide", "h.fork", "h.join", "h.zeta"} =>
       "zeta" \notin derived

\* Prove has returned only when every stage has stopped.
PendingInv == result # "pending" => \A s \in Stages : Stopped(s)

ProtocolInv == SentInv /\ DerivedInv /\ PendingInv

-------------------------------------------------------------------------------
(* Steps that are invisible to the protocol.                               *)

\* waitFor: the goroutine that waited goes on or returns ctx.Err(); nothing
\* the protocol speaks of changes.
LEMMA SelectUnseen ==
  ASSUME IInv, ProtocolInv, NEW a \in Awaits, Select(a)
  PROVE  ProtocolInv' /\ UNCHANGED <<proof, hinted, derived, result>>
<1>1. /\ a.stage \in Stages
      /\ \A r \in Stages \ {a.stage} : stage'[r] = stage[r]
      /\ stage[a.stage] = a.at
      /\ stage'[a.stage] \in {a.then, "failed"}
      /\ UNCHANGED <<task, closed, proof, hinted, derived, result>>
  BY AwaitLemma DEF IInv, TypeOK, Select, Goto, Return, results
<1>2. SentInv'
  BY <1>1 DEF ProtocolInv, SentInv, Awaits, Await, Stages, BeforeRestore
<1>3. DerivedInv'
  BY <1>1 DEF ProtocolInv, DerivedInv, Awaits, Await, Stages, BeforeRestore, BeforeAlpha
<1>4. PendingInv'
  BY <1>1, AwaitLemma DEF ProtocolInv, PendingInv, Stopped
<1> QED BY <1>1, <1>2, <1>3, <1>4 DEF ProtocolInv

\* A stage that returns an error: its label is "failed" and that is all.
LEMMA ErrorUnseen ==
  ASSUME IInv, ProtocolInv, NEW s \in Stages, NEW from, from \notin {"done", "failed"},
         Error(s, from)
  PROVE  ProtocolInv' /\ UNCHANGED <<proof, hinted, derived, result>>
<1>1. /\ \A r \in Stages \ {s} : stage'[r] = stage[r]
      /\ stage[s] = from /\ stage'[s] = "failed"
      /\ UNCHANGED <<task, closed, proof, hinted, derived, result>>
  BY DEF IInv, TypeOK, Error, Return, Goto, results
<1>2. SentInv'
  BY <1>1 DEF ProtocolInv, SentInv, Stages, BeforeRestore
<1>3. DerivedInv'
  BY <1>1 DEF ProtocolInv, DerivedInv, Stages, BeforeRestore, BeforeAlpha
<1>4. PendingInv'
  BY <1>1 DEF ProtocolInv, PendingInv, Stopped
<1> QED BY <1>1, <1>2, <1>3, <1>4 DEF ProtocolInv

\* A step the protocol does not see, and what it says of the invariant.
Unseen == UNCHANGED <<proof, hinted, derived, result>>

Follows == ProtocolInv' /\ [Protocol!Next]_(Protocol!vars)

\* How the invisible steps are accounted for.
LEMMA UnseenFollows == ProtocolInv' /\ Unseen => Follows
BY DEF Follows, Unseen, Protocol!vars

\* What the protocol asks of each message.
LEMMA Needs ==
  /\ Protocol!Messages = Messages /\ Protocol!Wires = Wires
  /\ \A m \in Wires : /\ Protocol!NeededChallenges(m) = {}
                      /\ Protocol!NeededMessages(m) = {}
  /\ \A m \in Messages \ Wires : m \notin Wires
  /\ Protocol!NeededChallenges("Z") = {"gamma", "beta"} /\ Protocol!NeededMessages("Z") = {}
  /\ \A m \in Shards : /\ Protocol!NeededChallenges(m) = {"gamma", "beta", "alpha"}
                       /\ Protocol!NeededMessages(m) = {}
  /\ Protocol!NeededChallenges("ZShifted") = Challenges
  /\ Protocol!NeededMessages("ZShifted") = {}
  /\ Protocol!NeededChallenges("Batched") = Challenges
  /\ Protocol!NeededMessages("Batched") = {"ZShifted"}
  /\ {"Z", "ZShifted", "Batched"} \cup Shards \subseteq Messages \ Wires
BY DEF Protocol!NeededChallenges, Protocol!NeededMessages, Protocol!Messages,
   Protocol!Wires,
   Protocol!Shards, Protocol!Challenges, Messages, Wires, Shards, Challenges

\* Both start with nothing sent, nothing drawn and the call pending.
LEMMA ProtocolInit == Init => Protocol!Init /\ ProtocolInv
BY StageNames DEF Init, Protocol!Init, ProtocolInv, SentInv, DerivedInv, PendingInv,
   Entry,
   Messages, Protocol!Messages, Wires, Shards, Protocol!Wires, Protocol!Shards,
   Tasks, LroTasks, ShardTasks,
   BeforeRestore, BeforeAlpha, Stopped

\* solveConstraints and the BSB22 hints: only a hint is visible, and it comes
\* before the wires are committed to.
LEMMA SolveConstraintsFollows ==
  ASSUME IInv, OrderInv, ProtocolInv,
         (\E c \in Commitments : Bsb22Hint(c)) \/ Solve \/ CommitToLRO \/ JoinLRO
  PROVE  Follows
<1> DEFINE s == "solveConstraints"
<1>0. stage[s] \in {"solve", "lro.fork", "lro.join"} => result = "pending"
  BY StageNames DEF ProtocolInv, PendingInv, Stopped
<1>1. ASSUME NEW c \in Commitments, Bsb22Hint(c) PROVE Follows
  <2>1. ProtocolInv'
    BY <1>1 DEF Bsb22Hint, ProtocolInv, SentInv, DerivedInv, PendingInv, Stopped,
       results
  <2>2. Protocol!Hint(c)
    BY <1>0, <1>1 DEF Bsb22Hint, Protocol!Hint, Protocol!Wires, Wires, ProtocolInv,
       SentInv, results
  <2> QED BY <2>1, <2>2 DEF Follows, Protocol!Next
<1>2. CASE /\ Goto(s, "solve", "lro.await")
           /\ Set(Wires \cup {"Pi"}, "lagrange")
           /\ UNCHANGED <<task, closed, firstErr, results, proof, hinted, derived>>
  <2>1. /\ stage[s] = "solve" /\ stage'[s] = "lro.await"
        /\ \A r \in Stages \ {s} : stage'[r] = stage[r]
    BY <1>2, Moves, StageNames
  <2>2. ProtocolInv' /\ Unseen
    BY <1>0, <1>2, <2>1, StageNames DEF ProtocolInv, SentInv, DerivedInv, PendingInv,
       BeforeRestore, BeforeAlpha, Unseen, results
  <2> QED BY <2>2, UnseenFollows
<1>3. CASE /\ Goto(s, "lro.fork", "lro.join")
           /\ Fork(LroTasks)
           /\ UNCHANGED <<closed, firstErr, results, proof, hinted, derived, form>>
  <2>1. /\ stage[s] = "lro.fork" /\ stage'[s] = "lro.join"
        /\ \A r \in Stages \ {s} : stage'[r] = stage[r]
    BY <1>3, Moves, StageNames
  <2>2. /\ \A t \in LroTasks : task'[t] = "run"
        /\ \A t \in Tasks \ LroTasks : task'[t] = task[t]
    BY <1>3 DEF Fork, Tasks
  <2>3. ProtocolInv' /\ Unseen
    BY <1>0, <1>3, <2>1, <2>2, StageNames, TaskLemma
       DEF ProtocolInv, SentInv, DerivedInv, PendingInv,
       BeforeRestore, BeforeAlpha, Unseen, results, Tasks
  <2> QED BY <2>3, UnseenFollows
<1>4. CASE /\ AllDone(LroTasks)
           /\ CloseAndReturn(s, "lro.join", "chLRO")
           /\ UNCHANGED <<task, firstErr, results, proof, hinted, derived, form>>
  <2>1. /\ stage[s] = "lro.join" /\ stage'[s] = "done"
        /\ \A r \in Stages \ {s} : stage'[r] = stage[r]
        /\ closed' = closed \cup {"chLRO"}
    BY <1>4, Moves, StageNames DEF CloseAndReturn
  <2>3. ProtocolInv' /\ Unseen
    BY <1>0, <1>4, <2>1, StageNames, TaskLemma
       DEF ProtocolInv, SentInv, DerivedInv, PendingInv,
       BeforeRestore, BeforeAlpha, Unseen, results, Tasks
  <2> QED BY <2>3, UnseenFollows
<1>5. ASSUME NEW from \in {"solve", "lro.fork", "lro.join"}, Error(s, from)
      PROVE  Follows
  BY <1>5, ErrorUnseen, StageNames, UnseenFollows DEF Unseen
<1> QED BY <1>1, <1>2, <1>3, <1>4, <1>5 DEF Solve, CommitToLRO, JoinLRO

\* completeQk, initBlindingPolynomials and deriveGammaAndBeta: gamma is drawn
\* from wires that are all committed to, beta right after it.
LEMMA EarlyStagesFollows ==
  ASSUME IInv, OrderInv, ProtocolInv,
         \/ CloneQk \/ FillQk \/ SampleBlinding
         \/ BindPublicData \/ DeriveGamma \/ DeriveBeta
  PROVE  Follows
<1> DEFINE s == "deriveGammaAndBeta"
<1>1. ASSUME NEW q \in {"completeQk", "initBlindingPolynomials", s},
             NEW from \in {"qk.clone", "qk.fill", "bp.sample", "gamma.bind"},
             NEW to \in {"qk.await", "gamma.await", "done"},
             Goto(q, from, to), q = s <=> from = "gamma.bind", q = s <=> to = "gamma.await",
             closed' \subseteq closed \cup {"chQk", "chbp"},
             UNCHANGED <<task, result, proof, hinted, derived>>
      PROVE  Follows
  <2>1. /\ stage[q] = from /\ stage'[q] = to
        /\ \A r \in Stages \ {q} : stage'[r] = stage[r]
    BY <1>1, Moves, StageNames
  <2>2. ProtocolInv' /\ Unseen
    BY <1>1, <2>1, StageNames DEF ProtocolInv, SentInv, DerivedInv, PendingInv, Stopped,
       BeforeRestore, BeforeAlpha, Unseen
  <2> QED BY <2>2, UnseenFollows
<1>2. CASE /\ Goto(s, "gamma.derive", "beta.derive")
           /\ Derive("gamma")
           /\ UNCHANGED <<task, closed, firstErr, results, proof, hinted, form>>
  <2>1. /\ stage[s] = "gamma.derive" /\ stage'[s] = "beta.derive"
        /\ \A r \in Stages \ {s} : stage'[r] = stage[r]
        /\ derived' = derived \cup {"gamma"}
    BY <1>2, Moves, StageNames DEF Derive
  <2>2. ProtocolInv'
    BY <1>2, <2>1, StageNames DEF ProtocolInv, SentInv, DerivedInv, PendingInv, Stopped,
       BeforeRestore, BeforeAlpha, results
  <2>3. \A w \in Wires : proof[w] = "good"
    BY <2>1, StageNames, TaskLemma DEF OrderInv, WaitInv, CloseInv, IInv, Achieved,
       SolveInv, AllDone
  <2>4. Protocol!Derive("gamma")
    BY <1>2, <2>1, <2>3, StageNames DEF Protocol!Derive, Protocol!Earlier,
       Protocol!BoundMessages,
       Protocol!BindsCommitments, Protocol!Wires, Wires, ProtocolInv, DerivedInv, PendingInv,
       Stopped, results
  <2> QED BY <2>2, <2>4 DEF Follows, Protocol!Next, Protocol!Challenges
<1>3. CASE /\ CloseAndReturn(s, "beta.derive", "chGammaBeta")
           /\ Derive("beta")
           /\ UNCHANGED <<task, firstErr, results, proof, hinted, form>>
  <2>1. /\ stage[s] = "beta.derive" /\ stage'[s] = "done"
        /\ \A r \in Stages \ {s} : stage'[r] = stage[r]
        /\ closed' = closed \cup {"chGammaBeta"}
        /\ derived' = derived \cup {"beta"} /\ "gamma" \in derived
    BY <1>3, Moves, StageNames DEF Derive, CloseAndReturn, Earlier
  <2>2. ProtocolInv'
    BY <1>3, <2>1, StageNames DEF ProtocolInv, SentInv, DerivedInv, PendingInv, Stopped,
       BeforeRestore, BeforeAlpha, results
  <2>4. Protocol!Derive("beta")
    BY <1>3, <2>1, StageNames DEF Protocol!Derive, Protocol!Earlier,
       Protocol!BoundMessages,
       Protocol!BindsCommitments, ProtocolInv, DerivedInv, PendingInv, Stopped, results
  <2> QED BY <2>2, <2>4 DEF Follows, Protocol!Next, Protocol!Challenges
<1>4. ASSUME NEW q \in {"completeQk", s},
             NEW from \in {"qk.clone", "gamma.bind", "gamma.derive", "beta.derive"}, Error(q, from)
      PROVE  Follows
  BY <1>4, ErrorUnseen, StageNames, UnseenFollows DEF Unseen
<1> QED
  BY <1>1, <1>2, <1>3, <1>4
     DEF CloneQk, FillQk, SampleBlinding, BindPublicData, DeriveGamma, DeriveBeta, CloseAndReturn,
         results

\* buildRatioCopyConstraint: Z is committed to once, with gamma and beta drawn.
LEMMA RatioFollows ==
  ASSUME IInv, OrderInv, ProtocolInv, BuildRatio \/ CommitZ \/ ReturnFromRatio
  PROVE  Follows
<1> DEFINE s == "buildRatioCopyConstraint"
<1>1. ASSUME NEW from, NEW to, Goto(s, from, to),
             UNCHANGED <<task, closed, result, proof, hinted, derived>>,
             \/ from = "ratio.build" /\ to = "ratio.commit"
             \/ from = "ratio.return" /\ to = "done"
      PROVE  Follows
  <2>1. /\ stage[s] = from /\ stage'[s] = to
        /\ \A r \in Stages \ {s} : stage'[r] = stage[r]
    BY <1>1, Moves, StageNames
  <2>2. ProtocolInv' /\ Unseen
    BY <1>1, <2>1, StageNames DEF ProtocolInv, SentInv, DerivedInv, PendingInv, Stopped,
       BeforeRestore, BeforeAlpha, Unseen
  <2> QED BY <2>2, UnseenFollows
<1>2. CASE CommitZ
  <2>1. /\ stage[s] = "ratio.commit" /\ stage'[s] = "ratio.return"
        /\ \A r \in Stages \ {s} : stage'[r] = stage[r]
        /\ closed' = closed \cup {"chZ"}
        /\ UNCHANGED <<task, result, hinted, derived>>
    BY <1>2, Moves, StageNames DEF CommitZ, results
  <2>2. PICK v \in {"good", "bad"} : proof' = [proof EXCEPT !["Z"] = v]
    BY <1>2 DEF CommitZ, Write
  <2>3. proof'["Z"] = v /\ \A m \in Messages \ {"Z"} : proof'[m] = proof[m]
    BY <2>2 DEF IInv, TypeOK, Messages
  <2>4. ProtocolInv'
    BY <2>1, <2>3, StageNames DEF ProtocolInv, SentInv, DerivedInv, PendingInv, Stopped,
       BeforeRestore, BeforeAlpha, Messages, Wires, Shards
  <2>5. {"gamma", "beta"} \subseteq derived /\ proof["Z"] = "none" /\ result = "pending"
    BY <2>1, StageNames DEF OrderInv, WaitInv, CloseInv, ProtocolInv, SentInv,
       DerivedInv,
       PendingInv, Stopped
  <2>6. Protocol!Send("Z")
    BY <2>1, <2>2, <2>5, Needs DEF Protocol!Send
  <2> QED BY <2>4, <2>6, Needs DEF Follows, Protocol!Next
<1>3. ASSUME NEW from \in {"ratio.build", "ratio.return"}, Error(s, from) PROVE Follows
  BY <1>3, ErrorUnseen, StageNames, UnseenFollows DEF Unseen
<1> QED BY <1>1, <1>2, <1>3 DEF BuildRatio, ReturnFromRatio, results

\* computeQuotient: alpha binds Z and the BSB22 commitments, zeta the shards.
LEMMA QuotientFollows ==
  ASSUME IInv, OrderInv, ProtocolInv,
         \/ AssignTrace \/ AssignPi2 \/ DeriveAlpha \/ ShiftZ \/ BuildTwiddles
         \/ EvaluateOnCosets \/ DivideByZH \/ CommitToQuotient \/ JoinQuotient
         \/ DeriveZeta \/ CloseH
  PROVE  Follows
<1> DEFINE s == "computeQuotient"
<1>1. ASSUME NEW from, NEW to, Goto(s, from, to),
             UNCHANGED <<task, result, proof, hinted, derived>>,
             closed' = closed \/ closed' = closed \cup {"chH"},
             \/ from = "h.assign" /\ to = "h.awaitLRO"
             \/ from = "h.pi2" /\ to = "h.awaitZ"
             \/ from = "h.shiftZ" /\ to = "h.twiddles"
             \/ from = "h.twiddles" /\ to = "h.awaitQk"
             \/ from = "h.divide" /\ to = "h.fork"
             \/ from = "h.join" /\ to = "h.zeta"
             \/ from = "h.close" /\ to = "done"
             \/ from = "h.rho" /\ to = "failed"
      PROVE  Follows
  <2>1. /\ stage[s] = from /\ stage'[s] = to
        /\ \A r \in Stages \ {s} : stage'[r] = stage[r]
    BY <1>1, Moves, StageNames
  <2>2. SentInv'
    BY <1>1, <2>1, StageNames DEF ProtocolInv, SentInv, BeforeRestore
  <2>3. DerivedInv' /\ PendingInv' /\ Unseen
    BY <1>1, <2>1, StageNames DEF ProtocolInv, DerivedInv, PendingInv, Stopped,
       BeforeRestore, BeforeAlpha, Unseen
  <2> QED BY <2>2, <2>3, UnseenFollows DEF ProtocolInv
<1>2. CASE /\ Goto(s, "h.alpha", "h.shiftZ")
           /\ Derive("alpha")
           /\ UNCHANGED <<task, closed, firstErr, results, proof, hinted, form>>
  <2>1. /\ stage[s] = "h.alpha" /\ stage'[s] = "h.shiftZ"
        /\ \A r \in Stages \ {s} : stage'[r] = stage[r]
        /\ derived' = derived \cup {"alpha"}
    BY <1>2, Moves, StageNames DEF Derive
  <2>2. ProtocolInv'
    BY <1>2, <2>1, StageNames DEF ProtocolInv, SentInv, DerivedInv, PendingInv, Stopped,
       BeforeRestore, BeforeAlpha, results
  <2>3. /\ hinted = Commitments /\ {"gamma", "beta"} \subseteq derived /\ proof["Z"] # "none"
        /\ "alpha" \notin derived /\ result = "pending"
    BY <2>1, StageNames DEF OrderInv, WaitInv, CloseInv, IInv, Achieved, SolveInv,
       ProtocolInv, SentInv,
       DerivedInv, PendingInv, Stopped, BeforeAlpha
  <2>4. Protocol!Derive("alpha")
    BY <1>2, <2>1, <2>3 DEF Protocol!Derive, Protocol!Earlier, Protocol!BoundMessages,
       Protocol!BindsCommitments, results
  <2> QED BY <2>2, <2>4 DEF Follows, Protocol!Next, Protocol!Challenges
<1>3. CASE /\ Goto(s, "h.rho", "h.divide")
           /\ Fork({Restore})
           /\ OnLastCoset
           /\ UNCHANGED <<firstErr, closed, results, proof, hinted, derived>>
  <2>1. /\ stage[s] = "h.rho" /\ stage'[s] = "h.divide"
        /\ \A r \in Stages \ {s} : stage'[r] = stage[r]
        /\ \A t \in Tasks \ {Restore} : task'[t] = task[t]
    BY <1>3, Moves, StageNames DEF Fork, Tasks
  <2>2. ProtocolInv' /\ Unseen
    BY <1>3, <2>1, StageNames, TaskLemma DEF ProtocolInv, SentInv, DerivedInv,
       PendingInv, Stopped,
       BeforeRestore, BeforeAlpha, Unseen, results, Tasks
  <2> QED BY <2>2, UnseenFollows
<1>4. CASE CommitToQuotient
  <2>1. /\ stage[s] = "h.fork" /\ stage'[s] = "h.join"
        /\ \A r \in Stages \ {s} : stage'[r] = stage[r]
        /\ \A t \in ShardTasks : task'[t] = "run"
        /\ \A t \in Tasks \ ShardTasks : task'[t] = task[t]
        /\ UNCHANGED <<closed, result, proof, hinted, derived>>
    BY <1>4, Moves, StageNames DEF CommitToQuotient, Fork, Tasks, results
  <2>2. ProtocolInv' /\ Unseen
    BY <2>1, StageNames, TaskLemma DEF ProtocolInv, SentInv, DerivedInv, PendingInv,
       Stopped,
       BeforeRestore, BeforeAlpha, Unseen, Tasks
  <2> QED BY <2>2, UnseenFollows
<1>5. CASE /\ Goto(s, "h.zeta", "h.awaitRestore")
           /\ Derive("zeta")
           /\ UNCHANGED <<task, closed, firstErr, results, proof, hinted, form>>
  <2>1. /\ stage[s] = "h.zeta" /\ stage'[s] = "h.awaitRestore"
        /\ \A r \in Stages \ {s} : stage'[r] = stage[r]
        /\ {"gamma", "beta", "alpha"} \subseteq derived
        /\ derived' = derived \cup {"zeta"}
    BY <1>5, Moves, StageNames DEF Derive, Earlier
  <2>2. ProtocolInv'
    BY <1>5, <2>1, StageNames DEF ProtocolInv, SentInv, DerivedInv, PendingInv, Stopped,
       BeforeRestore, BeforeAlpha, results
  <2>3. /\ "zeta" \notin derived /\ result = "pending"
        /\ \A h \in Shards : proof[h] = "good"
    BY <2>1, StageNames, TaskLemma DEF IInv, Achieved, QuotientInv, AllDone,
       ProtocolInv,
       DerivedInv, PendingInv, Stopped
  <2>4. Protocol!Derive("zeta")
    BY <1>5, <2>1, <2>3 DEF Protocol!Derive, Protocol!Earlier, Protocol!BoundMessages,
       Protocol!Shards, Shards, Protocol!BindsCommitments, results
  <2> QED BY <2>2, <2>4 DEF Follows, Protocol!Next, Protocol!Challenges
<1>6. ASSUME NEW from, from \notin {"done", "failed"}, Error(s, from) PROVE Follows
  BY <1>6, ErrorUnseen, StageNames, UnseenFollows DEF Unseen
<1> QED
  <2>1. CASE AssignTrace \/ AssignPi2 \/ BuildTwiddles \/ DivideByZH
    BY <2>1, <1>1, <1>6 DEF AssignTrace, AssignPi2, BuildTwiddles, DivideByZH,
       Proceed, results
  <2>2. CASE DeriveAlpha \/ ShiftZ \/ EvaluateOnCosets
    BY <2>2, <1>1, <1>2, <1>3, <1>6 DEF DeriveAlpha, ShiftZ, EvaluateOnCosets, Return,
       results
  <2>3. CASE CommitToQuotient \/ JoinQuotient \/ DeriveZeta \/ CloseH
    BY <2>3, <1>1, <1>4, <1>5, <1>6 DEF JoinQuotient, DeriveZeta, CloseH,
       CloseAndReturn, Proceed, results
  <2> QED BY <2>1, <2>2, <2>3

\* openZ, computeLinearizedPolynomial and batchOpening: the two openings are
\* produced once, the batched one from a good opening of Z.
LEMMA OpeningsFollows ==
  ASSUME IInv, OrderInv, ProtocolInv,
         \/ BlindZ \/ OpenZ
         \/ StartEvaluations \/ JoinEvaluations \/ Linearize \/ CommitLinearized
         \/ BatchOpen
  PROVE  Follows
<1> DEFINE lin == "computeLinearizedPolynomial"
<1>1. ASSUME NEW s \in {"openZ", lin}, NEW from, NEW to, Goto(s, from, to),
             \A t \in Tasks \ EvalTasks : task'[t] = task[t],
             UNCHANGED <<result, proof, hinted, derived>>,
             "chZ" \in closed' <=> "chZ" \in closed,
             \/ s = "openZ" /\ from = "openZ.blind" /\ to = "openZ.open"
             \/ s = lin /\ from \notin {"done", "failed"}
      PROVE  Follows
  <2>1. /\ stage[s] = from /\ stage'[s] = to
        /\ \A r \in Stages \ {s} : stage'[r] = stage[r]
    BY <1>1, Moves, StageNames
  <2>2. ProtocolInv' /\ Unseen
    BY <1>1, <2>1, StageNames, TaskLemma DEF ProtocolInv, SentInv, DerivedInv,
       PendingInv, Stopped,
       BeforeRestore, BeforeAlpha, Unseen, Tasks
  <2> QED BY <2>2, UnseenFollows
<1>2. ASSUME NEW v \in {"good", "bad"}, NEW s \in {"openZ", "batchOpening"},
             NEW to \in {"done", "failed"},
             NEW m \in {"ZShifted", "Batched"}, s = "openZ" <=> m = "ZShifted",
             Goto(s, IF s = "openZ" THEN "openZ.open" ELSE "batch.open", to), Write(m, v),
             "chZ" \in closed' <=> "chZ" \in closed,
             UNCHANGED <<task, result, hinted, derived>>
      PROVE  Follows
  <2>1. /\ stage[s] = IF s = "openZ" THEN "openZ.open" ELSE "batch.open"
        /\ stage'[s] = to
        /\ \A r \in Stages \ {s} : stage'[r] = stage[r]
    BY <1>2, Moves, StageNames
  <2>2. proof' = [proof EXCEPT ![m] = v]
    BY <1>2 DEF Write
  <2>3. \A l \in Messages \ {m} : proof'[l] = proof[l]
    BY <2>2 DEF IInv, TypeOK, Messages
  <2>4. ProtocolInv'
    BY <1>2, <2>1, <2>3, StageNames DEF ProtocolInv, SentInv, DerivedInv, PendingInv,
       Stopped,
       BeforeRestore, BeforeAlpha, Messages, Wires, Shards
  <2>5. /\ "chH" \in closed
        /\ s = "batchOpening" => proof["ZShifted"] = "good"
    BY <1>2, <2>1, StageNames DEF OrderInv, WaitInv, CloseInv, IInv, Achieved,
       OpeningInv
  <2>6. Challenges \subseteq derived
    BY <2>5, StageNames DEF OrderInv, CloseInv, IInv, Achieved, QuotientInv
  <2>7. proof[m] = "none" /\ result = "pending"
    BY <1>2, <2>1, StageNames DEF ProtocolInv, SentInv, PendingInv, Stopped
  <2>8. Protocol!Send(m)
    BY <1>2, <2>2, <2>5, <2>6, <2>7, Needs DEF Protocol!Send
  <2> QED BY <2>4, <2>8, Needs DEF Follows, Protocol!Next
<1>3. CASE OpenZ
  BY <1>2, <1>3 DEF OpenZ, CloseAndReturn, Return, results
<1>4. CASE BatchOpen
  BY <1>2, <1>4 DEF BatchOpen, Return, results
<1>5. CASE BlindZ \/ StartEvaluations \/ JoinEvaluations \/ Linearize
  BY <1>1, <1>5 DEF BlindZ, StartEvaluations, JoinEvaluations, Linearize, Fork, results
<1>6. CASE CommitLinearized
  BY <1>1, <1>6, ErrorUnseen, StageNames, UnseenFollows
     DEF CommitLinearized, CloseAndReturn, Unseen, results
<1> QED BY <1>3, <1>4, <1>5, <1>6

\* The goroutines started by a stage: each writes its own part of the proof,
\* once, while the stage that started it waits for it.
LEMMA TasksFollows ==
  ASSUME IInv, OrderInv, ProtocolInv, NEW t \in Tasks, Task(t)
  PROVE  Follows
<1>1. ASSUME NEW w \in Wires, SubtractS0(w) PROVE Follows
  <2>1. /\ <<"lro", w>> \in LroTasks /\ task[<<"lro", w>>] = "run" /\ task'[<<"lro", w>>] = "msm"
        /\ \A k \in Tasks \ {<<"lro", w>>} : task'[k] = task[k]
        /\ UNCHANGED <<stage, closed, result, proof, hinted, derived>>
    BY <1>1 DEF SubtractS0, LroTasks, Tasks, IInv, TypeOK, results
  <2>2. ProtocolInv' /\ Unseen
    BY <2>1, TaskLemma DEF ProtocolInv, SentInv, DerivedInv, PendingInv, Stopped,
       Unseen, Tasks
  <2> QED BY <2>2, UnseenFollows
<1>2. ASSUME NEW w \in Wires, CommitWire(w) PROVE Follows
  <2> DEFINE u == <<"lro", w>>
  <2>1. /\ u \in LroTasks /\ task[u] = "msm" /\ task'[u] \in {"done", "failed"}
        /\ \A k \in Tasks \ {u} : task'[k] = task[k]
        /\ UNCHANGED <<stage, closed, result, hinted, derived>>
    BY <1>2 DEF CommitWire, LroTasks, Tasks, IInv, TypeOK, results
  <2>2. proof' = [proof EXCEPT ![w] = "good"] \/ UNCHANGED proof
    BY <1>2 DEF CommitWire, Write
  <2>3. \A m \in Messages \ {w} : proof'[m] = proof[m]
    BY <2>2 DEF IInv, TypeOK, Messages
  <2>4. ProtocolInv'
    BY <2>1, <2>3, TaskLemma DEF ProtocolInv, SentInv, DerivedInv, PendingInv,
       Stopped, Tasks,
       Messages, Wires, Shards
  <2>5. stage["solveConstraints"] = "lro.join"
    BY <2>1 DEF OrderInv, ForkInv, Alive
  <2>6. proof[w] = "none" /\ hinted = Commitments /\ result = "pending"
    BY <2>1, <2>5, StageNames DEF ProtocolInv, SentInv, PendingInv, Stopped, IInv,
       Achieved, SolveInv
  <2>7. Protocol!Send(w) \/ UNCHANGED proof
    BY <2>1, <2>2, <2>6, Needs DEF Protocol!Send
  <2> QED BY <2>1, <2>4, <2>7, Needs DEF Follows, Protocol!Next, Protocol!vars, Messages
<1>3. ASSUME NEW h \in Shards, CommitShard(h) PROVE Follows
  <2> DEFINE u == <<"shard", h>>
  <2>1. /\ u \in ShardTasks /\ task[u] = "run" /\ task'[u] \in {"done", "failed"}
        /\ \A k \in Tasks \ {u} : task'[k] = task[k]
        /\ UNCHANGED <<stage, closed, result, hinted, derived>>
    BY <1>3 DEF CommitShard, ShardTasks, Tasks, IInv, TypeOK, results
  <2>2. proof' = [proof EXCEPT ![h] = "good"] \/ proof' = [proof EXCEPT ![h] = "bad"]
    BY <1>3 DEF CommitShard, Write
  <2>3. \A m \in Messages \ {h} : proof'[m] = proof[m]
    BY <2>2 DEF IInv, TypeOK, Messages
  <2>4. ProtocolInv'
    BY <2>1, <2>3, TaskLemma DEF ProtocolInv, SentInv, DerivedInv, PendingInv,
       Stopped, Tasks,
       Messages, Wires, Shards
  <2>5. stage["computeQuotient"] = "h.join"
    BY <2>1 DEF OrderInv, ForkInv, Alive
  <2>6. /\ proof[h] = "none" /\ result = "pending"
        /\ {"gamma", "beta", "alpha"} \subseteq derived
    BY <2>1, <2>5, StageNames DEF ProtocolInv, SentInv, DerivedInv, PendingInv,
       Stopped, BeforeAlpha,
       OrderInv, WaitInv, CloseInv, BeforeRestore
  <2>7. Protocol!Send(h)
    BY <2>1, <2>2, <2>6, Needs DEF Protocol!Send
  <2> QED BY <2>4, <2>7, Needs DEF Follows, Protocol!Next
<1>4. CASE Evaluate(t) \/ (t = Restore /\ RestoreLRO)
  <2>1. /\ \A k \in LroTasks \cup ShardTasks : task'[k] = task[k]
        /\ "chZ" \in closed' <=> "chZ" \in closed
        /\ UNCHANGED <<stage, result, proof, hinted, derived>>
    BY <1>4, TaskLemma DEF Evaluate, RestoreLRO, Tasks, IInv, TypeOK, results
  <2>2. ProtocolInv' /\ Unseen
    BY <2>1, TaskLemma DEF ProtocolInv, SentInv, DerivedInv, PendingInv, Stopped, Unseen
  <2> QED BY <2>2, UnseenFollows
<1> QED BY <1>1, <1>2, <1>3, <1>4 DEF Task

\* g.Wait() in Prove: without a first error everything is there and good.
LEMMA ReturnFollows ==
  ASSUME IInv, OrderInv, ProtocolInv, ReturnFromProve
  PROVE  Follows
<1>1. ProtocolInv'
  BY DEF ReturnFromProve, ProtocolInv, SentInv, DerivedInv, PendingInv, Stopped
<1>2. CASE firstErr # "none"
  <2>1. Protocol!Fail
    BY <1>2 DEF ReturnFromProve, Protocol!Fail
  <2> QED BY <1>1, <2>1 DEF Follows, Protocol!Next
<1>3. CASE firstErr = "none"
  <2>1. \A s \in Stages : stage[s] = "done"
    BY <1>3 DEF ReturnFromProve, IInv, EndInv, CtxDone, Stopped
  <2>2. hinted = Commitments /\ derived = Challenges
    BY <2>1 DEF IInv, TypeOK, Achieved, SolveInv, QuotientInv, Stages
  <2>3. \A t \in Tasks : task[t] = "done"
    BY <2>1 DEF IInv, Achieved, SolveInv, QuotientInv, RestoreInv, OpeningInv, Stages,
       Tasks, AllDone
  <2>4. \A m \in Messages : proof[m] = "good"
    BY <2>1, <2>3, TaskLemma DEF IInv, Achieved, SolveInv, RatioInv, QuotientInv,
       OpeningInv,
       Stages, Messages, Tasks
  <2>5. Protocol!Succeed
    BY <1>3, <2>2, <2>4, Needs DEF ReturnFromProve, Protocol!Succeed,
       Protocol!Challenges, Challenges
  <2> QED BY <1>1, <2>5 DEF Follows, Protocol!Next
<1> QED BY <1>2, <1>3

\* All steps together.
LEMMA StepFollows == IInv /\ OrderInv /\ ProtocolInv /\ [Next]_vars => Follows
<1> SUFFICES ASSUME IInv, OrderInv, ProtocolInv, [Next]_vars PROVE Follows
  OBVIOUS
<1>1. ASSUME NEW s \in Stages, Stage(s) PROVE Follows
  <2>1. CASE \E a \in Awaits : Select(a)
    BY <2>1, SelectUnseen, UnseenFollows DEF Unseen
  <2>2. CASE (\E c \in Commitments : Bsb22Hint(c)) \/ Solve \/ CommitToLRO \/ JoinLRO
    BY <2>2, SolveConstraintsFollows
  <2>3. CASE \/ CloneQk \/ FillQk \/ SampleBlinding
             \/ BindPublicData \/ DeriveGamma \/ DeriveBeta
    BY <2>3, EarlyStagesFollows
  <2>4. CASE BuildRatio \/ CommitZ \/ ReturnFromRatio
    BY <2>4, RatioFollows
  <2>5. CASE \/ AssignTrace \/ AssignPi2 \/ DeriveAlpha \/ ShiftZ \/ BuildTwiddles
             \/ EvaluateOnCosets \/ DivideByZH \/ CommitToQuotient \/ JoinQuotient
             \/ DeriveZeta \/ CloseH
    BY <2>5, QuotientFollows
  <2>6. CASE \/ BlindZ \/ OpenZ
             \/ StartEvaluations \/ JoinEvaluations \/ Linearize \/ CommitLinearized
             \/ BatchOpen
    BY <2>6, OpeningsFollows
  <2> QED BY <1>1, <2>1, <2>2, <2>3, <2>4, <2>5, <2>6 DEF Stage
<1>2. ASSUME NEW t \in Tasks, Task(t) PROVE Follows
  BY <1>2, TasksFollows
<1>3. CASE ReturnFromProve
  BY <1>3, ReturnFollows
<1>4. CASE UNCHANGED vars
  BY <1>4, UnseenFollows DEF vars, ProtocolInv, SentInv, DerivedInv, PendingInv,
     Stopped, Unseen
<1> QED BY <1>1, <1>2, <1>3, <1>4 DEF Next

-------------------------------------------------------------------------------

\* The safety part of ImplementsProtocol: whatever the interleaving and
\* whatever fails, what Prove writes to the proof and the transcript is a run
\* of the protocol, with any set of BSB22 commitments.
THEOREM ImplementsProtocolSafety == Spec => Protocol!Init /\ [][Protocol!Next]_(Protocol!vars)
<1>1. Init => IInv /\ OrderInv /\ ProtocolInv
  BY InitInv, InitOrder, ProtocolInit
<1>2. IInv /\ OrderInv /\ ProtocolInv /\ [Next]_vars =>
        IInv' /\ OrderInv' /\ ProtocolInv' /\ [Protocol!Next]_(Protocol!vars)
  BY StepInv, StepOrder, StepFollows DEF Follows
<1> QED BY <1>1, <1>2, ProtocolInit, PTL DEF Spec
=============================================================================
