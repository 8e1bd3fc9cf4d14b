----------------------------- MODULE PlonkAlgebra -----------------------------
(***************************************************************************)
(* The values one proof computes: the witness commitments, the copy-       *)
(* constraint product Z, the numerator coset by coset, its division by     *)
(* X^n - 1, the shards of the quotient, the linearised polynomial and the  *)
(* openings.  The stages run here in the one order their channels leave    *)
(* them (module ProverPipeline has the channels, RhoLoop the layouts and   *)
(* the fallback).  A polynomial of s.x is kept by its coefficients:        *)
(* ToCanonical and ToLagrange change its form and not what it is.          *)
(*                                                                         *)
(* A curve point is kept by its discrete logarithm, so the commitment of p *)
(* is p(Tau), Kzg.G1[k] is Tau^k, KzgLagrange.G1[k] is L_k(Tau).           *)
(***************************************************************************)
EXTENDS Integers, PrimeField, DeviceKernels

CONSTANTS Circuits,    \* records: nbPublic, gates, commits, witness; see Row
          Blindings,   \* the possible s.bp
          Randomizers, \* pairs of values setRandomDebugAware may give
          HashValues,  \* what hashing a BSB22 commitment may give
          GammaBetas,  \* pairs: the first two challenges
          Alphas,
          Zetas,
          Tau,         \* the secret of the KZG setup
          EvalChunks   \* EVAL_CHUNKS, 256 in the code

VARIABLES pc,       \* the stage that runs next
          s,        \* what newInstance fixes: circuit, domains, options
          x, bp,    \* s.x and s.bp
          val,      \* s.commitmentVal
          chal,     \* s.gamma, s.beta, s.alpha, s.zeta
          proof,    \* the digests and claimed values
          i, coset, cres,     \* computeNumerator
          h, blindedZ, opened \* s.h, s.blindedZ, polysToOpen

vars == <<pc, s, x, bp, val, chal, proof, i, coset, cres, h, blindedZ, opened>>

-------------------------------------------------------------------------------
(***************************************************************************)
(* newInstance.  Row k of a circuit has wires l, r, o and selectors ql ..  *)
(* qk: nbPublic placeholders, then the gates; wire 0, the first public     *)
(* input, fills the rest.                                                  *)
(***************************************************************************)
Row(c, k) ==
    LET blank == [l |-> 0, r |-> 0, o |-> 0, ql |-> 0, qr |-> 0, qm |-> 0, qo |-> 0, qk |-> 0]
    IN  IF k < c.nbPublic THEN [blank EXCEPT !.l = k, !.ql = Prime - 1]
        ELSE IF k < c.nbPublic + Size(c.gates) THEN c.gates[k - c.nbPublic]
        ELSE blank

NextPowerOfTwo(m) == CHOOSE q \in m .. 2 * m - 1 : PowerOfTwo(q)

Domain1Size(sizeSystem) == NextPowerOfTwo(IF sizeSystem < 6 THEN 8 * sizeSystem ELSE 4 * sizeSystem)

\* A compiled circuit and the witnesses the solver finds for it, one for each
\* value of the hashes; the field has a group for both domains, larger than they.
IsVector(v) == IsFiniteSet(DOMAIN v) /\ v = [k \in Upto(Size(v)) |-> v[k]]

Wires(c) == {0} \cup Upto(c.nbPublic)
                \cup UNION {{c.gates[k].l, c.gates[k].r, c.gates[k].o} : k \in DOMAIN c.gates}

ASSUME CircuitsAssumption ==
    \A c \in Circuits :
        /\ c.nbPublic \in Nat /\ IsVector(c.gates) /\ IsVector(c.commits)
        /\ \A k \in DOMAIN c.gates : \A f \in {"ql", "qr", "qm", "qo", "qk"} : c.gates[k][f] \in F
        /\ \A v \in [DOMAIN c.commits -> HashValues], w \in Wires(c) : c.witness[v][w] \in F
        /\ LET rows == c.nbPublic + Size(c.gates)
           IN  /\ rows >= 2
               /\ \A size \in {NextPowerOfTwo(rows), Domain1Size(rows)} :
                    size < Prime - 1 /\ (Prime - 1) % size = 0

\* No challenge is 0, and Tau is in no domain: in the real field they are but with
\* negligible probability.
ASSUME ValuesAssumption ==
    /\ \A b \in Blindings : /\ DOMAIN b = {"L", "R", "O", "Z"}
                            /\ \A f \in DOMAIN b : b[f] \in [Upto(IF f = "Z" THEN 3 ELSE 2) -> F]
    /\ Randomizers \subseteq F \X F /\ HashValues \subseteq F /\ GammaBetas \subseteq F \X F
    /\ Alphas \subseteq F /\ Zetas \subseteq F \ {0} /\ EvalChunks \in Nat \ {0}
    /\ Tau \in F
    /\ \A c \in Circuits : Power(Tau, NextPowerOfTwo(c.nbPublic + Size(c.gates))) # 1

\* What the compiler and the solver, which are not in this repository, leave true:
\* the row of a commitment is its own and has no constant, a committed row is
\* neither that one nor the last (prove.go:433-434), and the witness satisfies every
\* gate, the hash in its row and the committed values among them.
ASSUME CommitsAssumption ==
    \A c \in Circuits : \A m \in DOMAIN c.commits :
        LET cmt == c.commits[m]
        IN  /\ cmt.index \in DOMAIN c.gates /\ c.gates[cmt.index].qk = 0
            /\ cmt.committed \subseteq DOMAIN c.gates \ {cmt.index, Size(c.gates) - 1}
            /\ \A j \in DOMAIN c.commits \ {m} : c.commits[j].index # cmt.index

ASSUME SatisfiedAssumption ==
    \A c \in Circuits : \A v \in [DOMAIN c.commits -> HashValues], k \in DOMAIN c.gates :
        LET gate   == c.gates[k]
            at(w)  == c.witness[v][w]
            hashes == {m \in DOMAIN v : c.commits[m].index = k}
            qk     == IF hashes = {} THEN gate.qk ELSE v[CHOOSE m \in hashes : TRUE]
        IN  gate.ql (.) at(gate.l) (+) gate.qr (.) at(gate.r)
              (+) gate.qm (.) at(gate.l) (.) at(gate.r) (+) gate.qo (.) at(gate.o) (+) qk
              (+) Total([m \in DOMAIN v |->
                    IF k \in c.commits[m].committed THEN at(gate.l) ELSE 0]) = 0

\* The copy constraints: cell q (column q \div n, row q % n) maps to the next
\* cell with its wire.
Permuted(c, n, q) ==
    LET cells   == Upto(3 * n)
        wire(a) == LET row == Row(c, a % n) IN <<row.l, row.r, row.o>>[1 + a \div n]
        same    == {a \in cells : wire(a) = wire(q)}
        later   == {a \in same : a > q}
        least(A) == CHOOSE a \in A : \A b \in A : a <= b
        target  == least(IF later = {} THEN same ELSE later)
    IN  Power(Generator(n), target % n) (.) Power(Root, target \div n)

\* A vector in Lagrange form, as a polynomial.
Poly(v) == Interpolate(v, 1)

Trace(c, n) ==
    LET selector(f) == Poly([k \in Upto(n) |-> Row(c, k)[f]])
        sigma(col)  == Poly([k \in Upto(n) |-> Permuted(c, n, col * n + k)])
        qcp(m)      == Poly([k \in Upto(n) |->
                               IF k - c.nbPublic \in c.commits[m].committed THEN 1 ELSE 0])
    IN  [Ql |-> selector("ql"), Qr |-> selector("qr"), Qm |-> selector("qm"),
         Qo |-> selector("qo"), Qk |-> selector("qk"),
         S1 |-> sigma(0), S2 |-> sigma(1), S3 |-> sigma(2),
         Qcp |-> [m \in DOMAIN c.commits |-> qcp(m)]]

newInstance(c, zk, rnd, spare, gpu) ==
    LET sizeSystem == c.nbPublic + Size(c.gates)
        n          == NextPowerOfTwo(sizeSystem)
        big        == Domain1Size(sizeSystem)
    IN  [circuit |-> c, offset |-> sizeSystem, n |-> n, big |-> big, rho |-> big \div n,
         w |-> Generator(n), trace |-> Trace(c, n),
         zk |-> zk,       \* opt.StatisticalZK, with its randomizers
         rnd |-> IF zk THEN rnd ELSE <<0, 0>>,
         spare |-> spare, \* whether the slices of s.x have room to append in place
         gpu |-> gpu]     \* whether the loop of prove_gpu.go computes the numerator

twiddles0(k) == Power(s.w, k % s.n)

-------------------------------------------------------------------------------
(***************************************************************************)
(* Commitments.                                                            *)
(***************************************************************************)
\* The value at z, outside the small domain, of the k-th Lagrange polynomial.
LagrangeAt(k, z) ==
    twiddles0(k) (.) (Power(z, s.n) (-) 1) (.) Inv(s.n (.) (z (-) twiddles0(k)))

\* MultiExp over KzgLagrange.G1[lo:hi].
LagrangeMultiExp(v, lo, hi) ==
    Total([k \in Upto(hi - lo) |-> v[lo + k] (.) LagrangeAt(lo + k, Tau)])

\* kzg.Commit with the powers of Tau.
Commit(p) == Eval(p, Tau)

commitBlindingFactor(b) ==
    Total([k \in DOMAIN b |-> b[k] (.) Power(Tau, s.n + k)])
        (-) Total([k \in DOMAIN b |-> b[k] (.) Power(Tau, k)])

\* One of the three commitments of commitToLRO: only the cells from lo to the
\* offset are multiplied, less s0, which every other cell holds.
CommitWire(v, lo, s0, b) ==
    LagrangeMultiExp([k \in DOMAIN v |-> v[k] (-) s0], lo, s.offset)
        (+) s0 (+) commitBlindingFactor(b)

\* For the mutation test: the placeholders, where L holds the public inputs, left
\* out of all three.
commitToLROShort(L, R, O, v) ==
    LET s0 == s.circuit.witness[v][0]
        lo == s.circuit.nbPublic
    IN  <<CommitWire(L, lo, s0, bp.L), CommitWire(R, lo, s0, bp.R), CommitWire(O, lo, s0, bp.O)>>

commitToLRO(L, R, O, v) ==
    LET s0 == s.circuit.witness[v][0]
    IN  <<CommitWire(L, 0, s0, bp.L), CommitWire(R, s.circuit.nbPublic, s0, bp.R),
          CommitWire(O, s.circuit.nbPublic, s0, bp.O)>>

commitToPolyAndBlinding(v, b) == LagrangeMultiExp(v, 0, s.n) (+) commitBlindingFactor(b)

\* bsb22Hint: the committed values, and two cells that blind the commitment.
CommittedValues(m, values, r1, r2) ==
    LET c   == s.circuit
        cmt == c.commits[m]
    IN  [k \in Upto(s.n) |->
            IF k = s.offset - 1 THEN r2
            ELSE IF k = c.nbPublic + cmt.index THEN r1
            ELSE IF k - c.nbPublic \in cmt.committed THEN values[k] ELSE 0]

-------------------------------------------------------------------------------
(***************************************************************************)
(* The copy-constraint product: iop.BuildRatioCopyConstraint, which is not *)
(* in this repository, in Lagrange form.                                   *)
(***************************************************************************)
Factors(k, id1, id2, id3, beta, gamma) ==
    LET at(p) == Eval(p, twiddles0(k))
    IN  (at(x.L) (+) beta (.) id1 (+) gamma) (.) (at(x.R) (+) beta (.) id2 (+) gamma)
            (.) (at(x.O) (+) beta (.) id3 (+) gamma)

Numerator(k, beta, gamma) ==
    LET id == twiddles0(k) IN Factors(k, id, Root (.) id, Root (.) Root (.) id, beta, gamma)

Denominator(k, beta, gamma) ==
    LET at(p) == Eval(p, twiddles0(k))
    IN  Factors(k, at(s.trace.S1), at(s.trace.S2), at(s.trace.S3), beta, gamma)

CopyRatio(beta, gamma) ==
    LET z[k \in Upto(s.n)] ==
            IF k = 0 THEN 1
            ELSE z[k - 1] (.) Numerator(k - 1, beta, gamma) (.) Inv(Denominator(k - 1, beta, gamma))
    IN  [k \in Upto(s.n) |-> z[k]]

-------------------------------------------------------------------------------
(***************************************************************************)
(* The constraints at one point, from the evaluations e of s.x and the     *)
(* point's id, its lone = L_0, and the challenges.                         *)
(***************************************************************************)
gateConstraint(e) ==
    e.Ql (.) e.L (+) e.Qr (.) e.R (+) e.Qm (.) e.L (.) e.R (+) e.Qo (.) e.O (+) e.Qk
        (+) Total([m \in DOMAIN e.Qcp |-> e.Qcp[m] (.) e.Pi2[m]])

orderingConstraint(e, id, gamma, cs, css) ==
    LET r == (gamma (+) e.L (+) id) (.) (id (.) cs (+) e.R (+) gamma)
                 (.) (id (.) css (+) e.O (+) gamma) (.) e.Z
        l == (e.S1 (+) e.L (+) gamma) (.) (e.S2 (+) e.R (+) gamma)
                 (.) (e.S3 (+) e.O (+) gamma) (.) e.ZS
    IN  l (-) r

localConstraint(e, lone) == (e.Z (-) 1) (.) lone

Combined(e, id, lone, alpha, gamma, cs, css) ==
    (localConstraint(e, lone) (.) alpha (+) orderingConstraint(e, id, gamma, cs, css)) (.) alpha
        (+) gateConstraint(e)

\* The evaluations of the scaled polynomials xs at w^k, those of Z at the next
\* point as ZS, the permutation scaled by beta; y.L .. y.ZS are the blindings.
Evaluations(xs, k, beta, y) ==
    LET at(f) == Eval(xs[f], twiddles0(k))
    IN  [L |-> at("L") (+) y.L, R |-> at("R") (+) y.R, O |-> at("O") (+) y.O,
         Z |-> at("Z") (+) y.Z, ZS |-> Eval(xs.Z, twiddles0(k + 1)) (+) y.ZS,
         Ql |-> at("Ql"), Qr |-> at("Qr"), Qm |-> at("Qm"), Qo |-> at("Qo"), Qk |-> at("Qk"),
         S1 |-> beta (.) at("S1"), S2 |-> beta (.) at("S2"), S3 |-> beta (.) at("S3"),
         Qcp |-> [m \in DOMAIN xs.Qcp |-> Eval(xs.Qcp[m], twiddles0(k))],
         Pi2 |-> [m \in DOMAIN xs.Pi2 |-> Eval(xs.Pi2[m], twiddles0(k))]]

\* allConstraints of the loop of prove.go, at the coset c with cn = c^n - 1.
allConstraints(xs, bs, c, cn, k) ==
    LET pt   == twiddles0(k)
        y    == [L |-> Eval(bs.L, pt), R |-> Eval(bs.R, pt), O |-> Eval(bs.O, pt),
                 Z |-> Eval(bs.Z, pt), ZS |-> Eval(bs.Z, twiddles0(k + 1))]
        lone == cn (.) Inv(s.n) (.) Inv(c (.) pt (-) 1)
    IN  Combined(Evaluations(xs, k, chal.beta, y), pt (.) c (.) chal.beta, lone,
                 chal.alpha, chal.gamma, Root, Root (.) Root)

\* plonk_constraint_kernel, with the nine blinding coefficients and the eight
\* challenges as prove_gpu.go packs them.
PackedBlinding(bs) == Concat(Concat(bs.L, bs.R), Concat(bs.O, bs.Z))

PackedChallenges(c, cn) ==
    LET packed == <<chal.alpha, chal.beta, chal.gamma, Root, Root (.) Root, c, cn, Inv(s.n)>>
    IN  [k \in 0 .. 7 |-> packed[k + 1]]

constraintKernel(xs, d_bp, d_challenges, tid) ==
    LET tw      == twiddles0(tid)
        tw_next == twiddles0(tid + 1)
        blind1(b, p) == d_bp[b] (+) d_bp[b + 1] (.) p
        blind2(p) == d_bp[6] (+) d_bp[7] (.) p (+) d_bp[8] (.) p (.) p
        y    == [L |-> blind1(0, tw), R |-> blind1(2, tw), O |-> blind1(4, tw),
                 Z |-> blind2(tw), ZS |-> blind2(tw_next)]
        beta == d_challenges[1]
        precomp_denom == Inv(tw (.) d_challenges[5] (-) 1)   \* vec_denominators_kernel
        lone == d_challenges[6] (.) d_challenges[7] (.) precomp_denom
    IN  Combined(Evaluations(xs, tid, beta, y), tw (.) d_challenges[5] (.) beta, lone,
                 d_challenges[0], d_challenges[2], d_challenges[3], d_challenges[4])

-------------------------------------------------------------------------------
(***************************************************************************)
(* From the numerator to the three shards of the quotient.                 *)
(***************************************************************************)
\* shifters[k]
Shifter(k) == IF k = 0 THEN Root ELSE Generator(s.big)

\* s.x with every polynomial p(X) replaced by p(c X).
RescaleAll(xs, c) ==
    [f \in DOMAIN xs |-> IF f \in {"Qcp", "Pi2"}
                         THEN [m \in DOMAIN xs[f] |-> Rescale(xs[f][m], c)]
                         ELSE Rescale(xs[f], c)]

\* For the mutation test: the power of t forgotten.
XnMinusOneInverseFlat(k) == Inv(Power(Root, s.n) (-) 1)

\* 1 / (X^n - 1) on the coset of the large domain, which takes rho values.
XnMinusOneInverse(k) ==
    Inv(Power(Root, s.n) (.) Power(Power(Generator(s.big), s.n), k) (-) 1)

\* divideByZH: the input is in bit-reversed order, the result in canonical form.
divideByZH(a) ==
    LET r == [k \in DOMAIN a |-> a[k] (.) XnMinusOneInverse(BitReverse(k, s.big) % s.rho)]
    IN  Interpolate([k \in DOMAIN r |-> r[BitReverse(k, s.big)]], Root)

\* Shard k of q between its bounds, with lo taken from its first coefficient and
\* hi put behind its last.
Shard(q, k, lo) ==
    [j \in Upto(s.n + 2) |-> q[k * (s.n + 2) + j] (-) IF j = 0 THEN lo ELSE 0]
Topped(p, hi) == IF s.zk THEN Concat(p, [j \in {0} |-> hi]) ELSE p

\* For the mutation test: the second randomizer not taken back.
h3Unbalanced(q) == Shard(q, 2, 0)

h1(q) == Topped(Shard(q, 0, 0), s.rnd[1])
h2(q) == Topped(Shard(q, 1, s.rnd[1]), s.rnd[2])
h3(q) == Shard(q, 2, s.rnd[2])

commitToQuotient(q) == <<Commit(h1(q)), Commit(h2(q)), Commit(h3(q))>>

-------------------------------------------------------------------------------
(***************************************************************************)
(* Openings.                                                               *)
(***************************************************************************)
\* append(p, b...) less b on the first coefficients: p + b (X^n - 1).
getBlindedCoefficients(p, b) ==
    [k \in DOMAIN Concat(p, b) |->
        Concat(p, b)[k] (-) IF k < Size(b) THEN b[k] ELSE 0]

evaluateBlinded(p, b, z) == Eval(p, z) (+) Eval(b, z) (.) (Power(z, s.n) (-) 1)

\* The scalars of innerComputeLinearizedPoly, from the openings and the
\* challenges.
Scalars(l, r, o, zu) ==
    LET alpha == chal.alpha
        beta  == chal.beta
        gamma == chal.gamma
        zeta  == chal.zeta
        uzeta == zeta (.) Root
        zn    == Power(zeta, s.n)
        plus(a, id) == a (+) beta (.) id (+) gamma
    IN  [s1 |-> plus(l, Eval(x.S1, zeta)) (.) plus(r, Eval(x.S2, zeta)) (.) zu (.) beta (.) alpha,
         s2 |-> 0 (-) plus(l, zeta) (.) plus(r, uzeta) (.) plus(o, uzeta (.) Root) (.) alpha,
         rl |-> r (.) l, l |-> l, r |-> r, o |-> o,
         alpha2Lag |-> (zn (-) 1) (.) Inv(zeta (-) 1) (.) alpha (.) alpha (.) Inv(s.n),
         zhZeta |-> zn (-) 1,
         zetaNPlusTwo |-> zn (.) zeta (.) zeta]

innerComputeLinearizedPoly(sc, qcpZeta, bz) ==
    LET selectors(k) ==
            x.Qm[k] (.) sc.rl (+) x.Ql[k] (.) sc.l (+) x.Qr[k] (.) sc.r (+) x.Qo[k] (.) sc.o
              (+) s.trace.Qk[k] (+) Total([m \in DOMAIN x.Pi2 |-> x.Pi2[m][k] (.) qcpZeta[m]])
        at(p, k) == IF k < Size(p) THEN p[k] ELSE 0
        quotient(k) ==
            IF k < Size(h3(h))
            THEN (h3(h)[k] (.) sc.zetaNPlusTwo (+) h2(h)[k]) (.) sc.zetaNPlusTwo (+) h1(h)[k]
            ELSE IF s.zk THEN h2(h)[k] (.) sc.zetaNPlusTwo (+) h1(h)[k] ELSE 0
    IN  [k \in DOMAIN bz |->
            bz[k] (.) sc.s2 (+) at(x.S3, k) (.) sc.s1
              (+) (IF k < s.n THEN selectors(k) ELSE 0) (+) bz[k] (.) sc.alpha2Lag
              (-) quotient(k) (.) sc.zhZeta]

-------------------------------------------------------------------------------
(***************************************************************************)
(* The stages.                                                             *)
(***************************************************************************)
NotYet == << >>

Init ==
    /\ pc = "solve"
    /\ \E c \in Circuits, rnd \in Randomizers, zk, spare, gpu \in BOOLEAN :
          s = newInstance(c, zk, rnd, spare, gpu)
    /\ bp \in Blindings
    /\ x = s.trace /\ val = NotYet /\ chal = NotYet
    /\ proof = [bsb |-> NotYet, LRO |-> NotYet, Z |-> NotYet, H |-> NotYet, zu |-> NotYet]
    /\ i = 0 /\ coset = 1 /\ cres = NotYet /\ h = NotYet
    /\ blindedZ = NotYet /\ opened = NotYet

\* solveConstraints with its hints, commitToLRO and completeQk.
Solve ==
    /\ pc = "solve"
    /\ \E r \in Randomizers, v \in [DOMAIN s.circuit.commits -> HashValues] :
          LET c       == s.circuit
              wire(f) == [k \in Upto(s.n) |-> c.witness[v][Row(c, k)[f]]]
              pi2     == [m \in DOMAIN c.commits |-> CommittedValues(m, wire("l"), r[1], r[2])]
              qk      == [k \in Upto(s.n) |->
                            IF k < c.nbPublic THEN c.witness[v][k]
                            ELSE IF \E m \in DOMAIN v : k = c.nbPublic + c.commits[m].index
                            THEN v[CHOOSE m \in DOMAIN v : k = c.nbPublic + c.commits[m].index]
                            ELSE Row(c, k).qk]
          IN  /\ val' = v
              /\ x' = [f \in DOMAIN x \cup {"L", "R", "O", "Pi2"} |->
                         CASE f = "L" -> Poly(wire("l")) [] f = "R" -> Poly(wire("r"))
                           [] f = "O" -> Poly(wire("o")) [] f = "Qk" -> Poly(qk)
                           [] f = "Pi2" -> [m \in DOMAIN pi2 |-> Poly(pi2[m])]
                           [] OTHER -> x[f]]
              /\ proof' = [proof EXCEPT
                     !.bsb = [m \in DOMAIN pi2 |-> LagrangeMultiExp(pi2[m], 0, s.n)],
                     !.LRO = commitToLRO(wire("l"), wire("r"), wire("o"), v)]
    /\ pc' = "ratio"
    /\ UNCHANGED <<s, bp, chal, i, coset, cres, h, blindedZ, opened>>

\* deriveGammaAndBeta and buildRatioCopyConstraint.  The library inverts the
\* denominators: that none is 0 is left to the size of the field.
BuildRatio ==
    /\ pc = "ratio"
    /\ \E gb \in GammaBetas :
          /\ \A k \in Upto(s.n - 1) : Denominator(k, gb[2], gb[1]) # 0
          /\ LET z == CopyRatio(gb[2], gb[1])
             IN  /\ chal' = [gamma |-> gb[1], beta |-> gb[2]]
                 /\ x' = [f \in DOMAIN x \cup {"Z"} |-> IF f = "Z" THEN Poly(z) ELSE x[f]]
                 /\ proof' = [proof EXCEPT !.Z = commitToPolyAndBlinding(z, bp.Z)]
    /\ pc' = "alpha"
    /\ UNCHANGED <<s, bp, val, i, coset, cres, h, blindedZ, opened>>

\* computeQuotient up to the loop of computeNumerator.
StartQuotient ==
    /\ pc = "alpha"
    /\ \E alpha \in Alphas :
          chal' = [gamma |-> chal.gamma, beta |-> chal.beta, alpha |-> alpha]
    /\ cres' = [k \in Upto(s.big) |-> 0]
    /\ pc' = "coset"
    /\ UNCHANGED <<s, x, bp, val, proof, i, coset, h, blindedZ, opened>>

\* One iteration of either loop, its scatter included.
Coset ==
    /\ pc = "coset" /\ i < s.rho
    /\ LET c   == coset (.) Shifter(i)
           cn  == Power(c, s.n) (-) 1
           xs  == RescaleAll(x, Shifter(i))
           bs  == [f \in DOMAIN bp |->
                     [k \in DOMAIN bp[f] |-> bp[f][k] (.) cn (.) Power(Shifter(i), k)]]
           buf == [k \in Upto(s.n) |->
                     IF s.gpu THEN constraintKernel(xs, PackedBlinding(bs), PackedChallenges(c, cn), k)
                              ELSE allConstraints(xs, bs, c, cn, k)]
           at  == [k \in Upto(s.n) |-> BitReverse(s.rho * k + i, s.big)]
       IN  /\ coset' = c
           /\ x' = xs
           /\ bp' = [f \in DOMAIN bs |-> [k \in DOMAIN bs[f] |-> bs[f][k] (.) Inv(cn)]]
           /\ cres' = [q \in DOMAIN cres |->
                         IF \E k \in DOMAIN at : at[k] = q
                         THEN buf[CHOOSE k \in DOMAIN at : at[k] = q] ELSE cres[q]]
    /\ i' = i + 1
    /\ UNCHANGED <<pc, s, val, chal, proof, h, blindedZ, opened>>

\* The inverse of the product of the shifters.
Unshift == Inv(Root (.) Power(Generator(s.big), s.rho - 1))

\* The rest of computeNumerator, restoring s.x and s.bp, and of computeQuotient.
\* That zeta is outside the small domain is left to the size of the field.
FinishQuotient ==
    /\ pc = "coset" /\ i = s.rho
    /\ x' = RescaleAll(x, Unshift)
    /\ bp' = [f \in DOMAIN bp |-> Rescale(bp[f], Unshift)]
    /\ h' = divideByZH(cres)
    /\ proof' = [proof EXCEPT !.H = commitToQuotient(h')]
    /\ \E zeta \in Zetas : /\ Power(zeta, s.n) # 1
                          /\ chal' = [f \in DOMAIN chal \cup {"zeta"} |->
                                        IF f = "zeta" THEN zeta ELSE chal[f]]
    /\ pc' = "openZ"
    /\ UNCHANGED <<s, val, i, coset, cres, blindedZ, opened>>

\* For the mutation test: the appended coefficients kept.
OverwrittenLonger(xs, f, b) == IF s.spare THEN [xs EXCEPT ![f] = b] ELSE xs

\* What is left of polynomial f when b was written over its slice: append
\* returns the same memory if there is room.
Overwritten(xs, f, b) ==
    IF s.spare THEN [xs EXCEPT ![f] = Slice(b, 0, s.n)] ELSE xs

openZ ==
    /\ pc = "openZ"
    /\ blindedZ' = getBlindedCoefficients(x.Z, bp.Z)
    /\ x' = Overwritten(x, "Z", blindedZ')
    /\ proof' = [proof EXCEPT !.zu = Eval(blindedZ', chal.zeta (.) s.w)]
    /\ pc' = "linearise"
    /\ UNCHANGED <<s, bp, val, chal, i, coset, cres, h, opened>>

\* What computeLinearizedPolynomial evaluates at zeta.
Openings == [l |-> evaluateBlinded(x.L, bp.L, chal.zeta),
             r |-> evaluateBlinded(x.R, bp.R, chal.zeta),
             o |-> evaluateBlinded(x.O, bp.O, chal.zeta),
             qcp |-> [m \in DOMAIN x.Qcp |-> Eval(x.Qcp[m], chal.zeta)]]

\* computeLinearizedPolynomial writes the result over the blinded Z.
computeLinearizedPolynomial ==
    /\ pc = "linearise"
    /\ LET e == Openings
       IN  blindedZ' = innerComputeLinearizedPoly(Scalars(e.l, e.r, e.o, proof.zu), e.qcp, blindedZ)
    /\ x' = Overwritten(x, "Z", blindedZ')
    /\ pc' = "open"
    /\ UNCHANGED <<s, bp, val, chal, proof, i, coset, cres, h, opened>>

batchOpening ==
    /\ pc = "open"
    /\ LET L == getBlindedCoefficients(x.L, bp.L)
           R == getBlindedCoefficients(x.R, bp.R)
           O == getBlindedCoefficients(x.O, bp.O)
       IN  /\ opened' = <<blindedZ, L, R, O, x.S1, x.S2>>
           /\ x' = Overwritten(Overwritten(Overwritten(x, "L", L), "R", R), "O", O)
    /\ pc' = "done"
    /\ UNCHANGED <<s, bp, val, chal, proof, i, coset, cres, h, blindedZ>>

Next == \/ Solve \/ BuildRatio \/ StartQuotient \/ Coset \/ FinishQuotient
        \/ openZ \/ computeLinearizedPolynomial \/ batchOpening

Spec == Init /\ [][Next]_vars

-------------------------------------------------------------------------------
(***************************************************************************)
(* Properties.                                                             *)
(***************************************************************************)
\* Every polynomial and digest keeps its length and stays in the field.
TypeOK ==
    /\ pc \in {"solve", "ratio", "alpha", "coset", "openZ", "linearise", "open", "done"}
    /\ \A f \in DOMAIN x \ {"Qcp", "Pi2"} : x[f] \in [Upto(s.n) -> F]
    /\ \A f \in DOMAIN bp : bp[f] \in [Upto(IF f = "Z" THEN 3 ELSE 2) -> F]
    /\ cres = NotYet \/ cres \in [Upto(s.big) -> F]
    /\ blindedZ = NotYet \/ blindedZ \in [Upto(s.n + 3) -> F]
    /\ i \in 0 .. s.rho /\ coset \in F

\* A digest the proof carries is the commitment of the polynomial that is opened
\* against it much later: the shortened, blinded sums of commitToLRO, of
\* commitToPolyAndBlinding and of the hint, against the coefficients that came
\* back from the cosets and were blinded again, in place or not.
DigestsMatch ==
    /\ pc = "linearise" => proof.Z = Commit(blindedZ)
    /\ pc = "done" => /\ \A k \in 1 .. 3 : proof.LRO[k] = Commit(opened[k + 1])
                      /\ \A m \in DOMAIN x.Pi2 : proof.bsb[m] = Commit(x.Pi2[m])
                      /\ opened[5] = s.trace.S1 /\ opened[6] = s.trace.S2

\* The quotient has degree below 3 (n + 2), so that the three shards hold all of
\* it: for every circuit of two rows or more, the factor 8 or 4 that newInstance
\* takes for domain1 is enough, and the division by X^n - 1 leaves no remainder.
QuotientFits ==
    /\ s.big >= 3 * (s.n + 2)
    /\ pc = "openZ" => \A k \in 3 * (s.n + 2) .. s.big - 1 : h[k] = 0

\* The public inputs and the commitment hashes, as the verifier sums them.
PublicInput(zeta) ==
    Total([k \in Upto(s.circuit.nbPublic) |-> s.circuit.witness[val][k] (.) LagrangeAt(k, zeta)])
      (+) Total([m \in DOMAIN val |->
            val[m] (.) LagrangeAt(s.circuit.nbPublic + s.circuit.commits[m].index, zeta)])

\* The digest of the linearised polynomial that the verifier builds from the
\* claimed values, the key and the proof.
VerifierDigest(l, r, o, s1, s2, qcp, zu) ==
    LET alpha == chal.alpha
        beta  == chal.beta
        zeta  == chal.zeta
        key(f) == Commit(s.trace[f])
        plus(a, b) == a (+) beta (.) b (+) chal.gamma
        zh    == Power(zeta, s.n) (-) 1
        shift == Power(zeta, s.n + 2)
        atZ   == alpha (.) alpha (.) LagrangeAt(0, zeta)
                   (-) plus(l, zeta) (.) plus(r, Root (.) zeta) (.) plus(o, Root (.) Root (.) zeta) (.) alpha
    IN  l (.) key("Ql") (+) r (.) key("Qr") (+) l (.) r (.) key("Qm") (+) o (.) key("Qo") (+) key("Qk")
          (+) Total([m \in DOMAIN qcp |-> qcp[m] (.) proof.bsb[m]])
          (+) plus(l, s1) (.) plus(r, s2) (.) zu (.) beta (.) alpha (.) key("S3")
          (+) atZ (.) proof.Z
          (-) (proof.H[1] (+) shift (.) proof.H[2] (+) shift (.) shift (.) proof.H[3]) (.) zh

\* gnark's verifier accepts: the claimed value of the linearised polynomial is
\* the one the other claims force, and its digest the one the verifier builds.
\* It fails if any stage, on either path, for any circuit size, blinding or
\* quotient randomizer, has a term, an index or a restoration wrong.
VerifierAccepts ==
    pc = "done" =>
      LET zeta == chal.zeta
          at(k) == Eval(opened[k], zeta)
          qcp  == [m \in DOMAIN s.trace.Qcp |-> Eval(s.trace.Qcp[m], zeta)]
          plus(a, b) == a (+) chal.beta (.) b (+) chal.gamma
      IN  /\ at(1) = chal.alpha (.) chal.alpha (.) LagrangeAt(0, zeta)
                       (-) PublicInput(zeta)
                       (-) plus(at(2), at(5)) (.) plus(at(3), at(6)) (.) (at(4) (+) chal.gamma)
                             (.) chal.alpha (.) proof.zu
          /\ Commit(opened[1]) =
               VerifierDigest(at(2), at(3), at(4), at(5), at(6), qcp, proof.zu)

\* The kernels the shim offers for the other stages compute what the stages do,
\* on the vectors of this proof: the scanned ratio is Z, the scanned inversion
\* inverts, the division leaves the remainder f(a), the chunked evaluation is the
\* evaluation, and the linearised polynomial differs by the BSB22 terms alone.
DeviceAgrees ==
    /\ pc = "alpha" =>
          LET num == [k \in Upto(s.n - 1) |-> Numerator(k, chal.beta, chal.gamma)]
              den == [k \in Upto(s.n - 1) |-> Denominator(k, chal.beta, chal.gamma)]
          IN  /\ Poly(RatioCopyConstraint(num, den, s.n)) = x.Z
              /\ VecBatchInvert(den) = [k \in DOMAIN den |-> Inv(den[k])]
    /\ pc = "openZ" =>
          \A f \in {"L", "Z"} :
             /\ PolyEval(x[f], chal.zeta, EvalChunks) = Eval(x[f], chal.zeta)
             /\ ScaleByPowers(x[f], Root) = Rescale(x[f], Root)
    /\ pc = "linearise" =>
          LET a == chal.zeta (.) s.w
              q == KzgDivide(blindedZ, a)
              e == Openings
              sc == Scalars(e.l, e.r, e.o, proof.zu)
              bsb(k) == IF k < s.n THEN Total([m \in DOMAIN x.Pi2 |-> x.Pi2[m][k] (.) e.qcp[m]])
                                   ELSE 0
              hFolded == FoldQuotient(h1(h), h2(h), h3(h), sc.zetaNPlusTwo)
              device  == LinearizedPoly(blindedZ, [x EXCEPT !.Qk = s.trace.Qk], hFolded, sc)
          IN  /\ Eval(q, Tau) (.) (Tau (-) a) = Commit(blindedZ) (-) proof.zu
              /\ ~s.zk => innerComputeLinearizedPoly(sc, e.qcp, blindedZ)
                            = [k \in DOMAIN device |-> device[k] (+) bsb(k)]
===============================================================================
