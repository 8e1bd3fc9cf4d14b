-------------------------- MODULE PlonkVerifierProofs --------------------------
(***************************************************************************)
(* For every prime field, circuit, witness, blinding and challenge that    *)
(* the assumptions of PlonkAlgebra allow: the quotient fits its shards     *)
(* and gnark's verifier accepts the proof, on either path, with or without *)
(* randomizers of the quotient and spare capacity of the slices.           *)
(*                                                                         *)
(* It is the completeness of PLONK for this prover.  The rows of a solved  *)
(* circuit hold (RowHolds), the copy constraints permute the cells, so     *)
(* that the product of the ratios comes back to 1 (ProductsAgree), hence   *)
(* the numerator vanishes on the small domain (NumVanishes); its degree is *)
(* 4 n + 5 at most (NumDegree), hence a quotient of degree below 3 n + 6   *)
(* exists (Division).  What the prover computes is that quotient: each     *)
(* coset leaves the numerator's values in its slots (RowsAgree), whichever *)
(* loop ran it, and the inverse transform of the divided values has no     *)
(* other polynomial (QuotientIs).  The linearised polynomial is evaluated  *)
(* at an arbitrary point (EvalLinearized); at zeta it is the value that    *)
(* the verifier asks for (ValueAccepted), at tau the digest that it builds *)
(* (DigestAccepted).                                                       *)
(*                                                                         *)
(* Sound is the invariant that carries this from stage to stage, on top of *)
(* the IInv of PlonkAlgebraProofs; Claimed adds the last step.             *)
(***************************************************************************)
EXTENDS PlonkAlgebraProofs

-------------------------------------------------------------------------------
(* The numerator is a polynomial.                                          *)

Plus(f, g)  == [z \in F |-> f[z] (+) g[z]]
Minus(f, g) == [z \in F |-> f[z] (-) g[z]]
Times(f, g) == [z \in F |-> f[z] (.) g[z]]

\* The closure lemmas for named functions.
LEMMA DegreePlus ==
  \A d, e, D \in Nat : \A f \in Degree(d), g \in Degree(e) :
     d <= D /\ e <= D => Plus(f, g) \in Degree(D)
<1> TAKE d, e, D \in Nat
<1> TAKE f \in Degree(d), g \in Degree(e)
<1> HAVE d <= D /\ e <= D
<1>1. f \in Degree(D) /\ g \in Degree(D)
  BY DegreeGrows
<1> QED BY <1>1, DegreeAdd DEF Plus

LEMMA DegreeMinus ==
  \A d, e, D \in Nat : \A f \in Degree(d), g \in Degree(e) :
     d <= D /\ e <= D => Minus(f, g) \in Degree(D)
<1> TAKE d, e, D \in Nat
<1> TAKE f \in Degree(d), g \in Degree(e)
<1> HAVE d <= D /\ e <= D
<1>1. f \in Degree(D) /\ g \in Degree(D)
  BY DegreeGrows
<1> QED BY <1>1, DegreeSub DEF Minus

LEMMA DegreeTimes ==
  \A d, e, D \in Nat : \A f \in Degree(d), g \in Degree(e) :
     d + e <= D => Times(f, g) \in Degree(D)
<1> TAKE d, e, D \in Nat
<1> TAKE f \in Degree(d), g \in Degree(e)
<1> HAVE d + e <= D
<1>1. Times(f, g) \in Degree(d + e)
  BY DegreeMul DEF Times
<1>2. d + e \in Nat
  OBVIOUS
<1> QED BY <1>1, <1>2, DegreeGrows

\* A polynomial of n coefficients, n not 0.
LEMMA DegreeEval ==
  ASSUME NEW n \in Nat \ {0}, NEW D \in Nat, n <= D + 1, NEW p \in Vec(n)
  PROVE  \E h0 \in Degree(D) : \A z \in F : h0[z] = Eval(p, z)
<1>1. PICK m \in Nat : n = m + 1 /\ m <= D
  <2>1. n - 1 \in Nat /\ n = (n - 1) + 1 /\ n - 1 <= D
    OBVIOUS
  <2> QED BY <2>1
<1>2. [z \in F |-> Eval(p, z)] \in Degree(m)
  BY <1>1, DegreeOf
<1>3. [z \in F |-> Eval(p, z)] \in Degree(D)
  BY <1>1, <1>2, DegreeGrows
<1>4. \A z \in F : [t \in F |-> Eval(p, t)][z] = Eval(p, z)
  OBVIOUS
<1> QED BY <1>3, <1>4

\* Constants and the identity.
LEMMA DegreeConstant ==
  ASSUME NEW a \in F
  PROVE  \E h0 \in Degree(0) : \A z \in F : h0[z] = a
<1>1. PICK p \in Vec(1) : \A z \in F : Eval(p, z) = a
  BY EvalConstant
<1>2. \E h0 \in Degree(0) : \A z \in F : h0[z] = Eval(p, z)
  BY <1>1, DegreeEval
<1> QED BY <1>1, <1>2

LEMMA DegreePoint ==
  \E h0 \in Degree(1) : \A z \in F : h0[z] = z
<1> DEFINE p == [k \in Upto(2) |-> IF k = 1 THEN 1 ELSE 0]
<1>1. p \in Vec(2) /\ \A z \in F : Eval(p, z) = Power(z, 1) (.) 1
  BY ZeroOne, EvalMonomial
<1>2. \A z \in F : Eval(p, z) = z
  BY <1>1, PowerFirst, Neutral
<1> HIDE DEF p
<1>3. \E h0 \in Degree(1) : \A z \in F : h0[z] = Eval(p, z)
  BY <1>1, DegreeEval
<1> QED BY <1>2, <1>3

\* A sum of products of polynomials of n coefficients.
LEMMA DegreeTotal ==
  ASSUME NEW n \in Nat \ {0}
  PROVE  \A m \in Nat : \A a, b \in [Upto(m) -> Vec(n)] :
            \E h0 \in Degree(2 * n) : \A z \in F :
               /\ [j \in Upto(m) |-> Eval(a[j], z) (.) Eval(b[j], z)] \in Vec(m)
               /\ h0[z] = Total([j \in Upto(m) |-> Eval(a[j], z) (.) Eval(b[j], z)])
<1> DEFINE Sum(m, a, b, z) == [j \in Upto(m) |-> Eval(a[j], z) (.) Eval(b[j], z)]
           P == {m \in Nat : \A a, b \in [Upto(m) -> Vec(n)] :
                   \E h0 \in Degree(2 * n) : \A z \in F : h0[z] = Total(Sum(m, a, b, z))}
<1>1. ASSUME NEW m \in Nat, NEW a \in [Upto(m) -> Vec(n)], NEW b \in [Upto(m) -> Vec(n)], NEW z \in F
      PROVE  Sum(m, a, b, z) \in Vec(m)
  <2>1. \A j \in Upto(m) : Eval(a[j], z) \in F /\ Eval(b[j], z) \in F
    BY EvalType
  <2> QED BY <2>1, Closed DEF Vec
<1>2. 0 \in P
  <2> SUFFICES ASSUME NEW a \in [Upto(0) -> Vec(n)], NEW b \in [Upto(0) -> Vec(n)]
               PROVE  \E h0 \in Degree(2 * n) : \A z \in F : h0[z] = Total(Sum(0, a, b, z))
    OBVIOUS
  <2>1. \A z \in F : Total(Sum(0, a, b, z)) = 0
    BY <1>1, TotalEmpty
  <2>2. PICK o \in Degree(2 * n) : \A z \in F : o[z] = 0
    <3>1. [z \in F |-> 0] \in Degree(2 * n)
      BY DegreeZero
    <3> QED BY <3>1
  <2> QED BY <2>1, <2>2
<1>3. ASSUME NEW m \in Nat, m \in P PROVE m + 1 \in P
  <2> SUFFICES ASSUME NEW a \in [Upto(m + 1) -> Vec(n)], NEW b \in [Upto(m + 1) -> Vec(n)]
               PROVE  \E h0 \in Degree(2 * n) : \A z \in F : h0[z] = Total(Sum(m + 1, a, b, z))
    OBVIOUS
  <2>1. (\A k : k \in Upto(m) <=> k \in Nat /\ k < m) /\ (\A k : k \in Upto(m + 1) <=> k \in Nat /\ k < m + 1)
    BY UptoIs
  <2>2. PICK a1, b1 \in [Upto(m) -> Vec(n)] :
           a1 = [j \in Upto(m) |-> a[j]] /\ b1 = [j \in Upto(m) |-> b[j]]
    <3>1. \A j \in Upto(m) : j \in Upto(m + 1)
      BY <2>1
    <3>2. [j \in Upto(m) |-> a[j]] \in [Upto(m) -> Vec(n)] /\ [j \in Upto(m) |-> b[j]] \in [Upto(m) -> Vec(n)]
      BY <3>1
    <3> QED BY <3>2
  <2>3. PICK f \in Degree(2 * n) : \A z \in F : f[z] = Total(Sum(m, a1, b1, z))
    BY <1>3
  <2>4. PICK p, q \in Vec(n) : p = a[m] /\ q = b[m]
    BY <2>1
  <2>5. PICK g \in Degree(2 * n) : \A z \in F : g[z] = Eval(p, z) (.) Eval(q, z)
    <3>1. PICK u \in Degree(n) : \A z \in F : u[z] = Eval(p, z)
      BY DegreeEval
    <3>2. PICK w \in Degree(n) : \A z \in F : w[z] = Eval(q, z)
      BY DegreeEval
    <3>3. Times(u, w) \in Degree(2 * n)
      <4>1. n \in Nat /\ 2 * n \in Nat /\ n + n <= 2 * n
        OBVIOUS
      <4> QED BY <4>1, DegreeTimes
    <3> QED BY <3>1, <3>2, <3>3 DEF Times
  <2>6. PICK h0 \in Degree(2 * n) : \A z \in F : h0[z] = f[z] (+) g[z]
    <3>1. 2 * n \in Nat /\ 2 * n <= 2 * n
      OBVIOUS
    <3>2. Plus(f, g) \in Degree(2 * n)
      BY <3>1, DegreePlus
    <3> QED BY <3>2 DEF Plus
  <2>7. ASSUME NEW z \in F PROVE h0[z] = Total(Sum(m + 1, a, b, z))
    <3>1. PICK v \in Vec(m + 1) : v = Sum(m + 1, a, b, z)
      <4>1. m + 1 \in Nat
        OBVIOUS
      <4> HIDE DEF Sum
      <4> QED BY <1>1, <4>1
    <3>2. Total(v) = Total([k \in Upto(m) |-> v[k]]) (+) v[m]
      BY TotalSnoc
    <3>3. v[m] = Eval(p, z) (.) Eval(q, z)
      BY <2>1, <2>4, <3>1
    <3>4. [k \in Upto(m) |-> v[k]] = Sum(m, a1, b1, z)
      BY <2>1, <2>2, <3>1
    <3> QED BY <2>3, <2>5, <2>6, <3>1, <3>2, <3>3, <3>4
  <2> QED BY <2>7
<1>4. Nat \subseteq P
  <2> HIDE DEF P
  <2> QED BY <1>2, <1>3, Induction
<1> QED BY <1>1, <1>4

-------------------------------------------------------------------------------
(* The constraints at a point t.                                           *)

\* L_0, as a polynomial.
Lone(t) == Eval([k \in Upto(s.n) |-> Inv(s.n)], t)

\* The evaluations at t of the polynomials P blinded by B, zt and zs those of Z.
Point(P, B, zt, zs, beta, t) ==
  [L |-> evaluateBlinded(P.L, B.L, t), R |-> evaluateBlinded(P.R, B.R, t),
   O |-> evaluateBlinded(P.O, B.O, t), Z |-> zt, ZS |-> zs,
   Ql |-> Eval(P.Ql, t), Qr |-> Eval(P.Qr, t), Qm |-> Eval(P.Qm, t), Qo |-> Eval(P.Qo, t),
   Qk |-> Eval(P.Qk, t), S1 |-> beta (.) Eval(P.S1, t), S2 |-> beta (.) Eval(P.S2, t),
   S3 |-> beta (.) Eval(P.S3, t),
   Qcp |-> [m \in Commits |-> Eval(P.Qcp[m], t)], Pi2 |-> [m \in Commits |-> Eval(P.Pi2[m], t)]]

NumAt(P, B, ch, zt, zs, t) ==
  Combined(Point(P, B, zt, zs, ch.beta, t), t (.) ch.beta, Lone(t), ch.alpha, ch.gamma,
           Root, Root (.) Root)

\* The numerator of the quotient at t.
Num(P, B, ch, t) ==
  NumAt(P, B, ch, evaluateBlinded(P.Z, B.Z, t), evaluateBlinded(P.Z, B.Z, s.w (.) t), t)

ChallengesIn(ch) == ch.alpha \in F /\ ch.beta \in F /\ ch.gamma \in F

\* A blinded polynomial and one at w z, as functions of z.
LEMMA BlindedPoly ==
  ASSUME Instance, NEW p \in Vec(s.n), NEW m \in Nat, NEW b \in Vec(m + 1)
  PROVE  \E h0 \in Degree(s.n + m) : \A z \in F : h0[z] = evaluateBlinded(p, b, z)
<1>1. s.n \in Nat \ {0} /\ s.n \in Nat
  BY InstanceIs, SizePositive
<1>2. PICK q \in Vec(s.n + (m + 1)) : \A z \in F : Eval(q, z) = evaluateBlinded(p, b, z)
  <2>1. m + 1 \in Nat
    OBVIOUS
  <2> QED BY <1>1, <2>1, EvalBlinded DEF evaluateBlinded
<1>3. s.n + (m + 1) \in Nat \ {0} /\ s.n + m \in Nat /\ s.n + (m + 1) <= s.n + m + 1
  BY <1>1
<1> QED BY <1>2, <1>3, DegreeEval

LEMMA ShiftedPoly ==
  ASSUME NEW d \in Nat, NEW f \in Degree(d), NEW c \in F
  PROVE  [z \in F |-> f[c (.) z]] \in Degree(d)
<1>1. PICK p \in Vec(d + 1) : \A z \in F : f[z] = Eval(p, z)
  BY DEF Degree
<1>2. PICK q \in Vec(d + 1) : \A z \in F : Eval(q, z) = Eval(p, c (.) z)
  <2>1. Rescale(p, c) \in Vec(d + 1)
    BY RescaleIs
  <2>2. \A z \in F : Eval(Rescale(p, c), z) = Eval(p, c (.) z)
    <3>1. d + 1 \in Nat
      OBVIOUS
    <3> QED BY <3>1, EvalRescale
  <2> QED BY <2>1, <2>2
<1>3. \A z \in F : Eval(q, z) = f[c (.) z]
  BY <1>1, <1>2, Closed
<1>4. [z \in F |-> Eval(q, z)] \in Degree(d)
  BY DegreeOf
<1>5. [z \in F |-> Eval(q, z)] = [z \in F |-> f[c (.) z]]
  BY <1>3
<1> QED BY <1>4, <1>5

\* The numerator has degree 4 n + 5 at most.
LEMMA NumDegree ==
  ASSUME Instance, NEW P, Complete(P), NEW B, Blinders(B), NEW ch, ChallengesIn(ch)
  PROVE  \E p \in Vec(4 * s.n + 6) : \A z \in F : Num(P, B, ch, z) = Eval(p, z)
<1>1. s.n \in Nat \ {0} /\ Order(s.n) /\ s.n \in F /\ s.w \in F /\ Root \in F /\ Root (.) Root \in F
  BY InstanceIs, SizePositive, OrderIs, GeneratorIs, RootIs, Closed
<1>2. PICK n \in Nat \ {0} : n = s.n
  BY <1>1
<1>3. \A f \in AllFields : P[f] \in Vec(n)
  BY <1>2 DEF Complete
<1>4. PICK d00, d01, d10, d11, d12, d20, d21, d22, d32, d33, d45 \in Nat :
          /\ d00 = 0 /\ d01 = 1 /\ d10 = n /\ d11 = n + 1 /\ d12 = n + 2
          /\ d20 = 2 * n /\ d21 = 2 * n + 1 /\ d22 = 2 * n + 2
          /\ d32 = 3 * n + 2 /\ d33 = 3 * n + 3 /\ d45 = 4 * n + 5
  OBVIOUS
<1>5. PICK l \in Degree(d11) : \A z \in F : l[z] = evaluateBlinded(P.L, B.L, z)
  <2>1. P.L \in Vec(s.n) /\ B.L \in Vec(1 + 1)
    BY <1>2, <1>3 DEF AllFields, Blinders
  <2>2. 1 \in Nat
    OBVIOUS
  <2> QED BY <1>2, <1>4, <2>1, <2>2, BlindedPoly
<1>6. PICK r \in Degree(d11) : \A z \in F : r[z] = evaluateBlinded(P.R, B.R, z)
  <2>1. P.R \in Vec(s.n) /\ B.R \in Vec(1 + 1)
    BY <1>2, <1>3 DEF AllFields, Blinders
  <2>2. 1 \in Nat
    OBVIOUS
  <2> QED BY <1>2, <1>4, <2>1, <2>2, BlindedPoly
<1>7. PICK o \in Degree(d11) : \A z \in F : o[z] = evaluateBlinded(P.O, B.O, z)
  <2>1. P.O \in Vec(s.n) /\ B.O \in Vec(1 + 1)
    BY <1>2, <1>3 DEF AllFields, Blinders
  <2>2. 1 \in Nat
    OBVIOUS
  <2> QED BY <1>2, <1>4, <2>1, <2>2, BlindedPoly
<1>8. PICK zt \in Degree(d12) : \A z \in F : zt[z] = evaluateBlinded(P.Z, B.Z, z)
  <2>1. P.Z \in Vec(s.n) /\ B.Z \in Vec(2 + 1)
    BY <1>2, <1>3 DEF AllFields, Blinders
  <2>2. 2 \in Nat
    OBVIOUS
  <2> QED BY <1>2, <1>4, <2>1, <2>2, BlindedPoly
<1>9. PICK zs \in Degree(d12) : \A z \in F : zs[z] = evaluateBlinded(P.Z, B.Z, s.w (.) z)
  <2>1. PICK f \in Degree(d12) : \A z \in F : f[z] = zt[s.w (.) z]
    <3>1. [z \in F |-> zt[s.w (.) z]] \in Degree(d12)
      BY <1>1, ShiftedPoly
    <3> QED BY <3>1
  <2>2. \A z \in F : s.w (.) z \in F
    BY <1>1, Closed
  <2> QED BY <1>8, <2>1, <2>2
<1>10. PICK ql \in Degree(d10) : \A z \in F : ql[z] = Eval(P.Ql, z)
  <2>1. P.Ql \in Vec(n)
    BY <1>3 DEF AllFields, Selectors
  <2> QED BY <1>4, <2>1, DegreeEval
<1>11. PICK qr \in Degree(d10) : \A z \in F : qr[z] = Eval(P.Qr, z)
  <2>1. P.Qr \in Vec(n)
    BY <1>3 DEF AllFields, Selectors
  <2> QED BY <1>4, <2>1, DegreeEval
<1>12. PICK qm \in Degree(d10) : \A z \in F : qm[z] = Eval(P.Qm, z)
  <2>1. P.Qm \in Vec(n)
    BY <1>3 DEF AllFields, Selectors
  <2> QED BY <1>4, <2>1, DegreeEval
<1>13. PICK qo \in Degree(d10) : \A z \in F : qo[z] = Eval(P.Qo, z)
  <2>1. P.Qo \in Vec(n)
    BY <1>3 DEF AllFields, Selectors
  <2> QED BY <1>4, <2>1, DegreeEval
<1>14. PICK qk \in Degree(d10) : \A z \in F : qk[z] = Eval(P.Qk, z)
  <2>1. P.Qk \in Vec(n)
    BY <1>3 DEF AllFields, Selectors
  <2> QED BY <1>4, <2>1, DegreeEval
<1>15. PICK s1 \in Degree(d10) : \A z \in F : s1[z] = Eval(P.S1, z)
  <2>1. P.S1 \in Vec(n)
    BY <1>3 DEF AllFields, Selectors
  <2> QED BY <1>4, <2>1, DegreeEval
<1>16. PICK s2 \in Degree(d10) : \A z \in F : s2[z] = Eval(P.S2, z)
  <2>1. P.S2 \in Vec(n)
    BY <1>3 DEF AllFields, Selectors
  <2> QED BY <1>4, <2>1, DegreeEval
<1>17. PICK s3 \in Degree(d10) : \A z \in F : s3[z] = Eval(P.S3, z)
  <2>1. P.S3 \in Vec(n)
    BY <1>3 DEF AllFields, Selectors
  <2> QED BY <1>4, <2>1, DegreeEval
<1>18. PICK lone \in Degree(d10) : \A z \in F : lone[z] = Lone(z)
  <2>1. [k \in Upto(n) |-> Inv(n)] \in Vec(n)
    BY <1>1, <1>2, InvType DEF Vec
  <2>2. \E h0 \in Degree(d10) : \A z \in F : h0[z] = Eval([k \in Upto(n) |-> Inv(n)], z)
    BY <1>4, <2>1, DegreeEval
  <2> QED BY <1>2, <2>2 DEF Lone
<1>19. PICK pt \in Degree(d01) : \A z \in F : pt[z] = z
  BY <1>4, DegreePoint
<1>20. PICK al \in Degree(d00) : \A z \in F : al[z] = ch.alpha
  BY <1>1, <1>4, ZeroOne, DegreeConstant DEF ChallengesIn
<1>21. PICK be \in Degree(d00) : \A z \in F : be[z] = ch.beta
  BY <1>1, <1>4, ZeroOne, DegreeConstant DEF ChallengesIn
<1>22. PICK ga \in Degree(d00) : \A z \in F : ga[z] = ch.gamma
  BY <1>1, <1>4, ZeroOne, DegreeConstant DEF ChallengesIn
<1>23. PICK cs \in Degree(d00) : \A z \in F : cs[z] = Root
  BY <1>1, <1>4, ZeroOne, DegreeConstant DEF ChallengesIn
<1>24. PICK css \in Degree(d00) : \A z \in F : css[z] = Root (.) Root
  BY <1>1, <1>4, ZeroOne, DegreeConstant DEF ChallengesIn
<1>25. PICK un \in Degree(d00) : \A z \in F : un[z] = 1
  BY <1>1, <1>4, ZeroOne, DegreeConstant DEF ChallengesIn
<1>26. PICK tot \in Degree(d20) : \A z \in F :
          tot[z] = Total([m \in Commits |-> Eval(P.Qcp[m], z) (.) Eval(P.Pi2[m], z)])
  <2>1. PICK m \in Nat : Commits = Upto(m)
    BY CommitsAre
  <2>2. P.Qcp \in [Upto(m) -> Vec(n)] /\ P.Pi2 \in [Upto(m) -> Vec(n)]
    BY <1>2, <2>1 DEF Complete, Vectors
  <2>3. d20 = 2 * n /\ n \in Nat \ {0}
    BY <1>4
  <2>4. \E h0 \in Degree(2 * n) : \A z \in F :
          h0[z] = Total([j \in Upto(m) |-> Eval(P.Qcp[j], z) (.) Eval(P.Pi2[j], z)])
    BY ONLY <2>2, <2>3, m \in Nat, DegreeTotal
  <2> QED BY <2>1, <2>3, <2>4
<1>27. PICK g1 \in Degree(d21) : \A z \in F : g1[z] = ql[z] (.) l[z]
  <2>1. d10 + d11 <= d21
    BY ONLY <1>4, n \in Nat \ {0}
  <2>2. Times(ql, l) \in Degree(d21)
    BY ONLY <2>1, d10 \in Nat, d11 \in Nat, d21 \in Nat, ql \in Degree(d10), l \in Degree(d11), DegreeTimes
  <2> QED BY <2>2 DEF Times
<1>28. PICK g2 \in Degree(d21) : \A z \in F : g2[z] = qr[z] (.) r[z]
  <2>1. d10 + d11 <= d21
    BY ONLY <1>4, n \in Nat \ {0}
  <2>2. Times(qr, r) \in Degree(d21)
    BY ONLY <2>1, d10 \in Nat, d11 \in Nat, d21 \in Nat, qr \in Degree(d10), r \in Degree(d11), DegreeTimes
  <2> QED BY <2>2 DEF Times
<1>29. PICK g3 \in Degree(d21) : \A z \in F : g3[z] = g1[z] (+) g2[z]
  <2>1. d21 <= d21 /\ d21 <= d21
    BY ONLY <1>4, n \in Nat \ {0}
  <2>2. Plus(g1, g2) \in Degree(d21)
    BY ONLY <2>1, d21 \in Nat, d21 \in Nat, d21 \in Nat, g1 \in Degree(d21), g2 \in Degree(d21), DegreePlus
  <2> QED BY <2>2 DEF Plus
<1>30. PICK g4 \in Degree(d21) : \A z \in F : g4[z] = qm[z] (.) l[z]
  <2>1. d10 + d11 <= d21
    BY ONLY <1>4, n \in Nat \ {0}
  <2>2. Times(qm, l) \in Degree(d21)
    BY ONLY <2>1, d10 \in Nat, d11 \in Nat, d21 \in Nat, qm \in Degree(d10), l \in Degree(d11), DegreeTimes
  <2> QED BY <2>2 DEF Times
<1>31. PICK g5 \in Degree(d32) : \A z \in F : g5[z] = g4[z] (.) r[z]
  <2>1. d21 + d11 <= d32
    BY ONLY <1>4, n \in Nat \ {0}
  <2>2. Times(g4, r) \in Degree(d32)
    BY ONLY <2>1, d21 \in Nat, d11 \in Nat, d32 \in Nat, g4 \in Degree(d21), r \in Degree(d11), DegreeTimes
  <2> QED BY <2>2 DEF Times
<1>32. PICK g6 \in Degree(d32) : \A z \in F : g6[z] = g3[z] (+) g5[z]
  <2>1. d21 <= d32 /\ d32 <= d32
    BY ONLY <1>4, n \in Nat \ {0}
  <2>2. Plus(g3, g5) \in Degree(d32)
    BY ONLY <2>1, d21 \in Nat, d32 \in Nat, d32 \in Nat, g3 \in Degree(d21), g5 \in Degree(d32), DegreePlus
  <2> QED BY <2>2 DEF Plus
<1>33. PICK g7 \in Degree(d21) : \A z \in F : g7[z] = qo[z] (.) o[z]
  <2>1. d10 + d11 <= d21
    BY ONLY <1>4, n \in Nat \ {0}
  <2>2. Times(qo, o) \in Degree(d21)
    BY ONLY <2>1, d10 \in Nat, d11 \in Nat, d21 \in Nat, qo \in Degree(d10), o \in Degree(d11), DegreeTimes
  <2> QED BY <2>2 DEF Times
<1>34. PICK g8 \in Degree(d32) : \A z \in F : g8[z] = g6[z] (+) g7[z]
  <2>1. d32 <= d32 /\ d21 <= d32
    BY ONLY <1>4, n \in Nat \ {0}
  <2>2. Plus(g6, g7) \in Degree(d32)
    BY ONLY <2>1, d32 \in Nat, d21 \in Nat, d32 \in Nat, g6 \in Degree(d32), g7 \in Degree(d21), DegreePlus
  <2> QED BY <2>2 DEF Plus
<1>35. PICK g9 \in Degree(d32) : \A z \in F : g9[z] = g8[z] (+) qk[z]
  <2>1. d32 <= d32 /\ d10 <= d32
    BY ONLY <1>4, n \in Nat \ {0}
  <2>2. Plus(g8, qk) \in Degree(d32)
    BY ONLY <2>1, d32 \in Nat, d10 \in Nat, d32 \in Nat, g8 \in Degree(d32), qk \in Degree(d10), DegreePlus
  <2> QED BY <2>2 DEF Plus
<1>36. PICK g10 \in Degree(d32) : \A z \in F : g10[z] = g9[z] (+) tot[z]
  <2>1. d32 <= d32 /\ d20 <= d32
    BY ONLY <1>4, n \in Nat \ {0}
  <2>2. Plus(g9, tot) \in Degree(d32)
    BY ONLY <2>1, d32 \in Nat, d20 \in Nat, d32 \in Nat, g9 \in Degree(d32), tot \in Degree(d20), DegreePlus
  <2> QED BY <2>2 DEF Plus
<1>37. PICK gate \in Degree(d32) : \A z \in F :
          gate[z] = ql[z] (.) l[z] (+) qr[z] (.) r[z] (+) qm[z] (.) l[z] (.) r[z]
                      (+) qo[z] (.) o[z] (+) qk[z] (+) tot[z]
  BY ONLY g10 \in Degree(d32), <1>27, <1>28, <1>29, <1>30, <1>31, <1>32, <1>33, <1>34, <1>35, <1>36
<1>38. PICK g11 \in Degree(d11) : \A z \in F : g11[z] = ga[z] (+) l[z]
  <2>1. d00 <= d11 /\ d11 <= d11
    BY ONLY <1>4, n \in Nat \ {0}
  <2>2. Plus(ga, l) \in Degree(d11)
    BY ONLY <2>1, d00 \in Nat, d11 \in Nat, d11 \in Nat, ga \in Degree(d00), l \in Degree(d11), DegreePlus
  <2> QED BY <2>2 DEF Plus
<1>39. PICK g12 \in Degree(d01) : \A z \in F : g12[z] = pt[z] (.) be[z]
  <2>1. d01 + d00 <= d01
    BY ONLY <1>4, n \in Nat \ {0}
  <2>2. Times(pt, be) \in Degree(d01)
    BY ONLY <2>1, d01 \in Nat, d00 \in Nat, d01 \in Nat, pt \in Degree(d01), be \in Degree(d00), DegreeTimes
  <2> QED BY <2>2 DEF Times
<1>40. PICK g13 \in Degree(d11) : \A z \in F : g13[z] = g11[z] (+) g12[z]
  <2>1. d11 <= d11 /\ d01 <= d11
    BY ONLY <1>4, n \in Nat \ {0}
  <2>2. Plus(g11, g12) \in Degree(d11)
    BY ONLY <2>1, d11 \in Nat, d01 \in Nat, d11 \in Nat, g11 \in Degree(d11), g12 \in Degree(d01), DegreePlus
  <2> QED BY <2>2 DEF Plus
<1>41. PICK g14 \in Degree(d01) : \A z \in F : g14[z] = g12[z] (.) cs[z]
  <2>1. d01 + d00 <= d01
    BY ONLY <1>4, n \in Nat \ {0}
  <2>2. Times(g12, cs) \in Degree(d01)
    BY ONLY <2>1, d01 \in Nat, d00 \in Nat, d01 \in Nat, g12 \in Degree(d01), cs \in Degree(d00), DegreeTimes
  <2> QED BY <2>2 DEF Times
<1>42. PICK g15 \in Degree(d11) : \A z \in F : g15[z] = g14[z] (+) r[z]
  <2>1. d01 <= d11 /\ d11 <= d11
    BY ONLY <1>4, n \in Nat \ {0}
  <2>2. Plus(g14, r) \in Degree(d11)
    BY ONLY <2>1, d01 \in Nat, d11 \in Nat, d11 \in Nat, g14 \in Degree(d01), r \in Degree(d11), DegreePlus
  <2> QED BY <2>2 DEF Plus
<1>43. PICK g16 \in Degree(d11) : \A z \in F : g16[z] = g15[z] (+) ga[z]
  <2>1. d11 <= d11 /\ d00 <= d11
    BY ONLY <1>4, n \in Nat \ {0}
  <2>2. Plus(g15, ga) \in Degree(d11)
    BY ONLY <2>1, d11 \in Nat, d00 \in Nat, d11 \in Nat, g15 \in Degree(d11), ga \in Degree(d00), DegreePlus
  <2> QED BY <2>2 DEF Plus
<1>44. PICK g17 \in Degree(d22) : \A z \in F : g17[z] = g13[z] (.) g16[z]
  <2>1. d11 + d11 <= d22
    BY ONLY <1>4, n \in Nat \ {0}
  <2>2. Times(g13, g16) \in Degree(d22)
    BY ONLY <2>1, d11 \in Nat, d11 \in Nat, d22 \in Nat, g13 \in Degree(d11), g16 \in Degree(d11), DegreeTimes
  <2> QED BY <2>2 DEF Times
<1>45. PICK g18 \in Degree(d01) : \A z \in F : g18[z] = g12[z] (.) css[z]
  <2>1. d01 + d00 <= d01
    BY ONLY <1>4, n \in Nat \ {0}
  <2>2. Times(g12, css) \in Degree(d01)
    BY ONLY <2>1, d01 \in Nat, d00 \in Nat, d01 \in Nat, g12 \in Degree(d01), css \in Degree(d00), DegreeTimes
  <2> QED BY <2>2 DEF Times
<1>46. PICK g19 \in Degree(d11) : \A z \in F : g19[z] = g18[z] (+) o[z]
  <2>1. d01 <= d11 /\ d11 <= d11
    BY ONLY <1>4, n \in Nat \ {0}
  <2>2. Plus(g18, o) \in Degree(d11)
    BY ONLY <2>1, d01 \in Nat, d11 \in Nat, d11 \in Nat, g18 \in Degree(d01), o \in Degree(d11), DegreePlus
  <2> QED BY <2>2 DEF Plus
<1>47. PICK g20 \in Degree(d11) : \A z \in F : g20[z] = g19[z] (+) ga[z]
  <2>1. d11 <= d11 /\ d00 <= d11
    BY ONLY <1>4, n \in Nat \ {0}
  <2>2. Plus(g19, ga) \in Degree(d11)
    BY ONLY <2>1, d11 \in Nat, d00 \in Nat, d11 \in Nat, g19 \in Degree(d11), ga \in Degree(d00), DegreePlus
  <2> QED BY <2>2 DEF Plus
<1>48. PICK g21 \in Degree(d33) : \A z \in F : g21[z] = g17[z] (.) g20[z]
  <2>1. d22 + d11 <= d33
    BY ONLY <1>4, n \in Nat \ {0}
  <2>2. Times(g17, g20) \in Degree(d33)
    BY ONLY <2>1, d22 \in Nat, d11 \in Nat, d33 \in Nat, g17 \in Degree(d22), g20 \in Degree(d11), DegreeTimes
  <2> QED BY <2>2 DEF Times
<1>49. PICK g22 \in Degree(d45) : \A z \in F : g22[z] = g21[z] (.) zt[z]
  <2>1. d33 + d12 <= d45
    BY ONLY <1>4, n \in Nat \ {0}
  <2>2. Times(g21, zt) \in Degree(d45)
    BY ONLY <2>1, d33 \in Nat, d12 \in Nat, d45 \in Nat, g21 \in Degree(d33), zt \in Degree(d12), DegreeTimes
  <2> QED BY <2>2 DEF Times
<1>50. PICK right \in Degree(d45) : \A z \in F :
          right[z] = (ga[z] (+) l[z] (+) pt[z] (.) be[z]) (.) (pt[z] (.) be[z] (.) cs[z] (+) r[z] (+) ga[z])
                       (.) (pt[z] (.) be[z] (.) css[z] (+) o[z] (+) ga[z]) (.) zt[z]
  BY ONLY g22 \in Degree(d45), <1>38, <1>39, <1>40, <1>41, <1>42, <1>43, <1>44, <1>45, <1>46, <1>47, <1>48, <1>49
<1>51. PICK g23 \in Degree(d10) : \A z \in F : g23[z] = be[z] (.) s1[z]
  <2>1. d00 + d10 <= d10
    BY ONLY <1>4, n \in Nat \ {0}
  <2>2. Times(be, s1) \in Degree(d10)
    BY ONLY <2>1, d00 \in Nat, d10 \in Nat, d10 \in Nat, be \in Degree(d00), s1 \in Degree(d10), DegreeTimes
  <2> QED BY <2>2 DEF Times
<1>52. PICK g24 \in Degree(d11) : \A z \in F : g24[z] = g23[z] (+) l[z]
  <2>1. d10 <= d11 /\ d11 <= d11
    BY ONLY <1>4, n \in Nat \ {0}
  <2>2. Plus(g23, l) \in Degree(d11)
    BY ONLY <2>1, d10 \in Nat, d11 \in Nat, d11 \in Nat, g23 \in Degree(d10), l \in Degree(d11), DegreePlus
  <2> QED BY <2>2 DEF Plus
<1>53. PICK g25 \in Degree(d11) : \A z \in F : g25[z] = g24[z] (+) ga[z]
  <2>1. d11 <= d11 /\ d00 <= d11
    BY ONLY <1>4, n \in Nat \ {0}
  <2>2. Plus(g24, ga) \in Degree(d11)
    BY ONLY <2>1, d11 \in Nat, d00 \in Nat, d11 \in Nat, g24 \in Degree(d11), ga \in Degree(d00), DegreePlus
  <2> QED BY <2>2 DEF Plus
<1>54. PICK g26 \in Degree(d10) : \A z \in F : g26[z] = be[z] (.) s2[z]
  <2>1. d00 + d10 <= d10
    BY ONLY <1>4, n \in Nat \ {0}
  <2>2. Times(be, s2) \in Degree(d10)
    BY ONLY <2>1, d00 \in Nat, d10 \in Nat, d10 \in Nat, be \in Degree(d00), s2 \in Degree(d10), DegreeTimes
  <2> QED BY <2>2 DEF Times
<1>55. PICK g27 \in Degree(d11) : \A z \in F : g27[z] = g26[z] (+) r[z]
  <2>1. d10 <= d11 /\ d11 <= d11
    BY ONLY <1>4, n \in Nat \ {0}
  <2>2. Plus(g26, r) \in Degree(d11)
    BY ONLY <2>1, d10 \in Nat, d11 \in Nat, d11 \in Nat, g26 \in Degree(d10), r \in Degree(d11), DegreePlus
  <2> QED BY <2>2 DEF Plus
<1>56. PICK g28 \in Degree(d11) : \A z \in F : g28[z] = g27[z] (+) ga[z]
  <2>1. d11 <= d11 /\ d00 <= d11
    BY ONLY <1>4, n \in Nat \ {0}
  <2>2. Plus(g27, ga) \in Degree(d11)
    BY ONLY <2>1, d11 \in Nat, d00 \in Nat, d11 \in Nat, g27 \in Degree(d11), ga \in Degree(d00), DegreePlus
  <2> QED BY <2>2 DEF Plus
<1>57. PICK g29 \in Degree(d22) : \A z \in F : g29[z] = g25[z] (.) g28[z]
  <2>1. d11 + d11 <= d22
    BY ONLY <1>4, n \in Nat \ {0}
  <2>2. Times(g25, g28) \in Degree(d22)
    BY ONLY <2>1, d11 \in Nat, d11 \in Nat, d22 \in Nat, g25 \in Degree(d11), g28 \in Degree(d11), DegreeTimes
  <2> QED BY <2>2 DEF Times
<1>58. PICK g30 \in Degree(d10) : \A z \in F : g30[z] = be[z] (.) s3[z]
  <2>1. d00 + d10 <= d10
    BY ONLY <1>4, n \in Nat \ {0}
  <2>2. Times(be, s3) \in Degree(d10)
    BY ONLY <2>1, d00 \in Nat, d10 \in Nat, d10 \in Nat, be \in Degree(d00), s3 \in Degree(d10), DegreeTimes
  <2> QED BY <2>2 DEF Times
<1>59. PICK g31 \in Degree(d11) : \A z \in F : g31[z] = g30[z] (+) o[z]
  <2>1. d10 <= d11 /\ d11 <= d11
    BY ONLY <1>4, n \in Nat \ {0}
  <2>2. Plus(g30, o) \in Degree(d11)
    BY ONLY <2>1, d10 \in Nat, d11 \in Nat, d11 \in Nat, g30 \in Degree(d10), o \in Degree(d11), DegreePlus
  <2> QED BY <2>2 DEF Plus
<1>60. PICK g32 \in Degree(d11) : \A z \in F : g32[z] = g31[z] (+) ga[z]
  <2>1. d11 <= d11 /\ d00 <= d11
    BY ONLY <1>4, n \in Nat \ {0}
  <2>2. Plus(g31, ga) \in Degree(d11)
    BY ONLY <2>1, d11 \in Nat, d00 \in Nat, d11 \in Nat, g31 \in Degree(d11), ga \in Degree(d00), DegreePlus
  <2> QED BY <2>2 DEF Plus
<1>61. PICK g33 \in Degree(d33) : \A z \in F : g33[z] = g29[z] (.) g32[z]
  <2>1. d22 + d11 <= d33
    BY ONLY <1>4, n \in Nat \ {0}
  <2>2. Times(g29, g32) \in Degree(d33)
    BY ONLY <2>1, d22 \in Nat, d11 \in Nat, d33 \in Nat, g29 \in Degree(d22), g32 \in Degree(d11), DegreeTimes
  <2> QED BY <2>2 DEF Times
<1>62. PICK g34 \in Degree(d45) : \A z \in F : g34[z] = g33[z] (.) zs[z]
  <2>1. d33 + d12 <= d45
    BY ONLY <1>4, n \in Nat \ {0}
  <2>2. Times(g33, zs) \in Degree(d45)
    BY ONLY <2>1, d33 \in Nat, d12 \in Nat, d45 \in Nat, g33 \in Degree(d33), zs \in Degree(d12), DegreeTimes
  <2> QED BY <2>2 DEF Times
<1>63. PICK left \in Degree(d45) : \A z \in F :
          left[z] = (be[z] (.) s1[z] (+) l[z] (+) ga[z]) (.) (be[z] (.) s2[z] (+) r[z] (+) ga[z])
                      (.) (be[z] (.) s3[z] (+) o[z] (+) ga[z]) (.) zs[z]
  BY ONLY g34 \in Degree(d45), <1>51, <1>52, <1>53, <1>54, <1>55, <1>56, <1>57, <1>58, <1>59, <1>60, <1>61, <1>62
<1>64. PICK g35 \in Degree(d12) : \A z \in F : g35[z] = zt[z] (-) un[z]
  <2>1. d12 <= d12 /\ d00 <= d12
    BY ONLY <1>4, n \in Nat \ {0}
  <2>2. Minus(zt, un) \in Degree(d12)
    BY ONLY <2>1, d12 \in Nat, d00 \in Nat, d12 \in Nat, zt \in Degree(d12), un \in Degree(d00), DegreeMinus
  <2> QED BY <2>2 DEF Minus
<1>65. PICK g36 \in Degree(d22) : \A z \in F : g36[z] = g35[z] (.) lone[z]
  <2>1. d12 + d10 <= d22
    BY ONLY <1>4, n \in Nat \ {0}
  <2>2. Times(g35, lone) \in Degree(d22)
    BY ONLY <2>1, d12 \in Nat, d10 \in Nat, d22 \in Nat, g35 \in Degree(d12), lone \in Degree(d10), DegreeTimes
  <2> QED BY <2>2 DEF Times
<1>66. PICK g37 \in Degree(d22) : \A z \in F : g37[z] = g36[z] (.) al[z]
  <2>1. d22 + d00 <= d22
    BY ONLY <1>4, n \in Nat \ {0}
  <2>2. Times(g36, al) \in Degree(d22)
    BY ONLY <2>1, d22 \in Nat, d00 \in Nat, d22 \in Nat, g36 \in Degree(d22), al \in Degree(d00), DegreeTimes
  <2> QED BY <2>2 DEF Times
<1>67. PICK g38 \in Degree(d45) : \A z \in F : g38[z] = left[z] (-) right[z]
  <2>1. d45 <= d45 /\ d45 <= d45
    BY ONLY <1>4, n \in Nat \ {0}
  <2>2. Minus(left, right) \in Degree(d45)
    BY ONLY <2>1, d45 \in Nat, d45 \in Nat, d45 \in Nat, left \in Degree(d45), right \in Degree(d45), DegreeMinus
  <2> QED BY <2>2 DEF Minus
<1>68. PICK g39 \in Degree(d45) : \A z \in F : g39[z] = g37[z] (+) g38[z]
  <2>1. d22 <= d45 /\ d45 <= d45
    BY ONLY <1>4, n \in Nat \ {0}
  <2>2. Plus(g37, g38) \in Degree(d45)
    BY ONLY <2>1, d22 \in Nat, d45 \in Nat, d45 \in Nat, g37 \in Degree(d22), g38 \in Degree(d45), DegreePlus
  <2> QED BY <2>2 DEF Plus
<1>69. PICK g40 \in Degree(d45) : \A z \in F : g40[z] = g39[z] (.) al[z]
  <2>1. d45 + d00 <= d45
    BY ONLY <1>4, n \in Nat \ {0}
  <2>2. Times(g39, al) \in Degree(d45)
    BY ONLY <2>1, d45 \in Nat, d00 \in Nat, d45 \in Nat, g39 \in Degree(d45), al \in Degree(d00), DegreeTimes
  <2> QED BY <2>2 DEF Times
<1>70. PICK g41 \in Degree(d45) : \A z \in F : g41[z] = g40[z] (+) gate[z]
  <2>1. d45 <= d45 /\ d32 <= d45
    BY ONLY <1>4, n \in Nat \ {0}
  <2>2. Plus(g40, gate) \in Degree(d45)
    BY ONLY <2>1, d45 \in Nat, d32 \in Nat, d45 \in Nat, g40 \in Degree(d45), gate \in Degree(d32), DegreePlus
  <2> QED BY <2>2 DEF Plus
<1>71. \A z \in F : g41[z] = ((zt[z] (-) un[z]) (.) lone[z] (.) al[z] (+) left[z] (-) right[z]) (.) al[z] (+) gate[z]
  BY ONLY <1>64, <1>65, <1>66, <1>67, <1>68, <1>69, <1>70
<1>72. ASSUME NEW z \in F PROVE Num(P, B, ch, z) = g41[z]
  <2> DEFINE e == Point(P, B, evaluateBlinded(P.Z, B.Z, z), evaluateBlinded(P.Z, B.Z, s.w (.) z), ch.beta, z)
  <2>1. gateConstraint(e) = gate[z]
    <3>1. Total([m \in DOMAIN e.Qcp |-> e.Qcp[m] (.) e.Pi2[m]]) = tot[z]
      BY <1>26 DEF Point
    <3>2. /\ e.Ql = ql[z] /\ e.Qr = qr[z] /\ e.Qm = qm[z] /\ e.Qo = qo[z] /\ e.Qk = qk[z]
          /\ e.L = l[z] /\ e.R = r[z] /\ e.O = o[z]
      BY <1>10, <1>11, <1>12, <1>13, <1>14, <1>5, <1>6, <1>7 DEF Point
    <3> HIDE DEF e
    <3> QED BY <3>1, <3>2, <1>37 DEF gateConstraint
  <2>2. orderingConstraint(e, z (.) ch.beta, ch.gamma, Root, Root (.) Root) = left[z] (-) right[z]
    <3>1. /\ e.S1 = be[z] (.) s1[z] /\ e.S2 = be[z] (.) s2[z] /\ e.S3 = be[z] (.) s3[z]
          /\ e.L = l[z] /\ e.R = r[z] /\ e.O = o[z] /\ e.Z = zt[z] /\ e.ZS = zs[z]
      BY <1>15, <1>16, <1>17, <1>21, <1>5, <1>6, <1>7, <1>8, <1>9 DEF Point
    <3>2. ch.gamma = ga[z] /\ z (.) ch.beta = pt[z] (.) be[z] /\ Root = cs[z] /\ Root (.) Root = css[z]
      BY <1>22, <1>19, <1>21, <1>23, <1>24
    <3> HIDE DEF e
    <3> QED BY <3>1, <3>2, <1>63, <1>50 DEF orderingConstraint
  <2>3. localConstraint(e, Lone(z)) = (zt[z] (-) un[z]) (.) lone[z]
    <3>1. e.Z = zt[z] /\ Lone(z) = lone[z] /\ un[z] = 1
      BY <1>8, <1>18, <1>25 DEF Point
    <3> HIDE DEF e
    <3> QED BY <3>1 DEF localConstraint
  <2>4. ch.alpha = al[z]
    BY <1>20
  <2>5. Num(P, B, ch, z) = Combined(e, z (.) ch.beta, Lone(z), ch.alpha, ch.gamma, Root, Root (.) Root)
    BY DEF Num, NumAt
  <2> HIDE DEF e
  <2> QED BY <2>1, <2>2, <2>3, <2>4, <2>5, <1>71 DEF Combined
<1>73. PICK p \in Vec((4 * n + 5) + 1) : \A z \in F : g41[z] = Eval(p, z)
  BY <1>4 DEF Degree
<1>74. (4 * n + 5) + 1 = 4 * n + 6
  OBVIOUS
<1> QED BY <1>2, <1>72, <1>73, <1>74

-------------------------------------------------------------------------------
(* The numerator vanishes on the small domain.                             *)

Wire(v, f) == [k \in Upto(s.n) |-> WireOf(v, k, f)]

Chosen(m, k) == k - s.circuit.nbPublic \in s.circuit.commits[m].committed

\* The trace at a row.
LEMMA TraceAt ==
  ASSUME Instance, NEW k \in Nat, k < s.n
  PROVE  LET t   == Power(s.w, k)
             row == Row(s.circuit, k)
         IN  /\ t \in F /\ Power(t, s.n) = 1
             /\ Eval(s.trace.Ql, t) = row.ql /\ Eval(s.trace.Qr, t) = row.qr
             /\ Eval(s.trace.Qm, t) = row.qm /\ Eval(s.trace.Qo, t) = row.qo
             /\ Eval(s.trace.S1, t) = Permuted(s.circuit, s.n, k)
             /\ Eval(s.trace.S2, t) = Permuted(s.circuit, s.n, s.n + k)
             /\ Eval(s.trace.S3, t) = Permuted(s.circuit, s.n, 2 * s.n + k)
             /\ \A m \in Commits : Eval(s.trace.Qcp[m], t) = IF Chosen(m, k) THEN 1 ELSE 0
<1>1. /\ s.circuit \in Circuits /\ Order(s.n) /\ s.n \in Nat /\ s.w = Generator(s.n)
      /\ s.trace = Trace(s.circuit, s.n)
  BY InstanceIs
<1>2. PICK c \in Circuits, n \in Nat : c = s.circuit /\ n = s.n
  BY <1>1
<1> DEFINE sel(f) == [j \in Upto(n) |-> Row(c, j)[f]]
           sig(col) == [j \in Upto(n) |-> Permuted(c, n, col * n + j)]
           qcp(m) == [j \in Upto(n) |-> IF j - c.nbPublic \in c.commits[m].committed THEN 1 ELSE 0]
           t == Power(s.w, k)
<1>3. Trace(c, n) = [Ql |-> Poly(sel("ql")), Qr |-> Poly(sel("qr")), Qm |-> Poly(sel("qm")),
                     Qo |-> Poly(sel("qo")), Qk |-> Poly(sel("qk")),
                     S1 |-> Poly(sig(0)), S2 |-> Poly(sig(1)), S3 |-> Poly(sig(2)),
                     Qcp |-> [m \in DOMAIN c.commits |-> Poly(qcp(m))]]
  BY DEF Trace
<1>4. t = Power(Generator(n), k) /\ t \in F /\ Power(t, n) = 1
  BY <1>1, <1>2, DomainPower
<1>5. k \in Upto(n) /\ \A j \in Upto(n) : j \in Nat /\ j < n
  BY <1>2, UptoIs
<1>6. \A u \in Vec(n) : Eval(Poly(u), t) = u[k]
  BY <1>1, <1>2, <1>4, PolyAt
<1>7. sel("ql") \in Vec(n) /\ sel("qr") \in Vec(n) /\ sel("qm") \in Vec(n) /\ sel("qo") \in Vec(n)
  <2>1. \A j \in Upto(n) : /\ Row(c, j).ql \in F /\ Row(c, j).qr \in F /\ Row(c, j).qm \in F
                           /\ Row(c, j).qo \in F
    BY <1>5, RowIs
  <2> QED BY <2>1 DEF Vec
<1>8. sig(0) \in Vec(n) /\ sig(1) \in Vec(n) /\ sig(2) \in Vec(n)
  <2> SUFFICES ASSUME NEW col \in {0, 1, 2}, NEW j \in Upto(n)
               PROVE  Permuted(c, n, col * n + j) \in F
    BY DEF Vec
  <2>1. j \in Nat /\ j < n
    BY <1>5
  <2>2. n \in Nat \ {0}
    BY <1>1, <1>2, SizePositive
  <2>3. col * n + j \in Upto(3 * n)
    BY <2>1, <2>2, CellIs
  <2>4. col * n + j \in Upto(3 * s.n)
    BY <1>2, <2>3
  <2> QED BY <1>2, <2>4, PermutedIs
<1>9. \A m : qcp(m) \in Vec(n)
  BY ZeroOne DEF Vec
<1>10. /\ sel("ql")[k] = Row(c, k).ql /\ sel("qr")[k] = Row(c, k).qr /\ sel("qm")[k] = Row(c, k).qm
       /\ sel("qo")[k] = Row(c, k).qo
       /\ \A m : qcp(m)[k] = IF k - c.nbPublic \in c.commits[m].committed THEN 1 ELSE 0
  BY <1>5
<1>11. /\ sig(0)[k] = Permuted(c, n, k) /\ sig(1)[k] = Permuted(c, n, n + k)
       /\ sig(2)[k] = Permuted(c, n, 2 * n + k)
  <2>1. 0 * n + k = k /\ 1 * n + k = n + k
    OBVIOUS
  <2> QED BY <1>5, <2>1
<1> HIDE DEF sel, sig, qcp, t
<1>12. /\ Eval(s.trace.Ql, t) = sel("ql")[k] /\ Eval(s.trace.Qr, t) = sel("qr")[k]
       /\ Eval(s.trace.Qm, t) = sel("qm")[k] /\ Eval(s.trace.Qo, t) = sel("qo")[k]
       /\ Eval(s.trace.S1, t) = sig(0)[k] /\ Eval(s.trace.S2, t) = sig(1)[k]
       /\ Eval(s.trace.S3, t) = sig(2)[k]
  BY <1>1, <1>2, <1>3, <1>6, <1>7, <1>8
<1>13. \A m \in Commits : Eval(s.trace.Qcp[m], t) = qcp(m)[k]
  BY <1>1, <1>2, <1>3, <1>6, <1>9 DEF Commits
<1> QED BY <1>2, <1>4, <1>10, <1>11, <1>12, <1>13 DEF Chosen, t

\* What a gate and the row of its commitment give.
RowSum(v, k, r1, r2) ==
  LET row == Row(s.circuit, k)
      l   == WireOf(v, k, "l")
      r   == WireOf(v, k, "r")
  IN  row.ql (.) l (+) row.qr (.) r (+) row.qm (.) l (.) r (+) row.qo (.) WireOf(v, k, "o")
        (+) QkOf(v)[k]
        (+) Total([m \in Commits |->
              (IF Chosen(m, k) THEN 1 ELSE 0) (.) CommittedValues(m, Wire(v, "l"), r1, r2)[k]])

\* A row of a public input holds with the input in Qk.
LEMMA Placeholder ==
  \A l, r, o \in F :
     (0 (-) 1) (.) l (+) 0 (.) r (+) 0 (.) l (.) r (+) 0 (.) o (+) l (+) 0
       = 0
<1> TAKE l, r, o \in F
<1>1. /\ l \in Int /\ l = Mod(l)
      /\ r \in Int /\ r = Mod(r)
      /\ o \in Int /\ o = Mod(o)
  BY ModOfElement
<1>2. 0 \in Int /\ 0 = Mod(0) /\ 1 \in Int /\ 1 = Mod(1)
  BY ZeroOne, ModOfElement
<1>3. PICK i1 \in Int : i1 = 0 - 1
  BY <1>2
<1>4. 0 (-) 1 = Mod(i1) /\ i1 \in Int
  BY <1>2, <1>3, ModOps
<1>5. PICK i2 \in Int : i2 = i1 * l
  BY <1>4, <1>1
<1>6. (0 (-) 1) (.) l = Mod(i2) /\ i2 \in Int
  BY <1>4, <1>1, <1>5, ModOps
<1>7. PICK i3 \in Int : i3 = 0 * r
  BY <1>2, <1>1
<1>8. 0 (.) r = Mod(i3) /\ i3 \in Int
  BY <1>2, <1>1, <1>7, ModOps
<1>9. PICK i4 \in Int : i4 = i2 + i3
  BY <1>6, <1>8
<1>10. (0 (-) 1) (.) l (+) 0 (.) r = Mod(i4) /\ i4 \in Int
  BY <1>6, <1>8, <1>9, ModOps
<1>11. PICK i5 \in Int : i5 = 0 * l
  BY <1>2, <1>1
<1>12. 0 (.) l = Mod(i5) /\ i5 \in Int
  BY <1>2, <1>1, <1>11, ModOps
<1>13. PICK i6 \in Int : i6 = i5 * r
  BY <1>12, <1>1
<1>14. 0 (.) l (.) r = Mod(i6) /\ i6 \in Int
  BY <1>12, <1>1, <1>13, ModOps
<1>15. PICK i7 \in Int : i7 = i4 + i6
  BY <1>10, <1>14
<1>16. (0 (-) 1) (.) l (+) 0 (.) r (+) 0 (.) l (.) r = Mod(i7) /\ i7 \in Int
  BY <1>10, <1>14, <1>15, ModOps
<1>17. PICK i8 \in Int : i8 = 0 * o
  BY <1>2, <1>1
<1>18. 0 (.) o = Mod(i8) /\ i8 \in Int
  BY <1>2, <1>1, <1>17, ModOps
<1>19. PICK i9 \in Int : i9 = i7 + i8
  BY <1>16, <1>18
<1>20. (0 (-) 1) (.) l (+) 0 (.) r (+) 0 (.) l (.) r (+) 0 (.) o = Mod(i9) /\ i9 \in Int
  BY <1>16, <1>18, <1>19, ModOps
<1>21. PICK i10 \in Int : i10 = i9 + l
  BY <1>20, <1>1
<1>22. (0 (-) 1) (.) l (+) 0 (.) r (+) 0 (.) l (.) r (+) 0 (.) o (+) l = Mod(i10) /\ i10 \in Int
  BY <1>20, <1>1, <1>21, ModOps
<1>23. PICK i11 \in Int : i11 = i10 + 0
  BY <1>22, <1>2
<1>24. (0 (-) 1) (.) l (+) 0 (.) r (+) 0 (.) l (.) r (+) 0 (.) o (+) l (+) 0 = Mod(i11) /\ i11 \in Int
  BY <1>22, <1>2, <1>23, ModOps
<1>25. i11 = 0
  BY <1>1, <1>3, <1>5, <1>7, <1>9, <1>11, <1>13, <1>15, <1>17, <1>19, <1>21, <1>23
<1> QED BY <1>24, <1>2, <1>25

\* A padded row holds.
LEMMA Padding ==
  \A l, r, o \in F :
     0 (.) l (+) 0 (.) r (+) 0 (.) l (.) r (+) 0 (.) o (+) 0 (+) 0
       = 0
<1> TAKE l, r, o \in F
<1>1. /\ l \in Int /\ l = Mod(l)
      /\ r \in Int /\ r = Mod(r)
      /\ o \in Int /\ o = Mod(o)
  BY ModOfElement
<1>2. 0 \in Int /\ 0 = Mod(0)
  BY ZeroOne, ModOfElement
<1>3. PICK i1 \in Int : i1 = 0 * l
  BY <1>2, <1>1
<1>4. 0 (.) l = Mod(i1) /\ i1 \in Int
  BY <1>2, <1>1, <1>3, ModOps
<1>5. PICK i2 \in Int : i2 = 0 * r
  BY <1>2, <1>1
<1>6. 0 (.) r = Mod(i2) /\ i2 \in Int
  BY <1>2, <1>1, <1>5, ModOps
<1>7. PICK i3 \in Int : i3 = i1 + i2
  BY <1>4, <1>6
<1>8. 0 (.) l (+) 0 (.) r = Mod(i3) /\ i3 \in Int
  BY <1>4, <1>6, <1>7, ModOps
<1>9. PICK i4 \in Int : i4 = i1 * r
  BY <1>4, <1>1
<1>10. 0 (.) l (.) r = Mod(i4) /\ i4 \in Int
  BY <1>4, <1>1, <1>9, ModOps
<1>11. PICK i5 \in Int : i5 = i3 + i4
  BY <1>8, <1>10
<1>12. 0 (.) l (+) 0 (.) r (+) 0 (.) l (.) r = Mod(i5) /\ i5 \in Int
  BY <1>8, <1>10, <1>11, ModOps
<1>13. PICK i6 \in Int : i6 = 0 * o
  BY <1>2, <1>1
<1>14. 0 (.) o = Mod(i6) /\ i6 \in Int
  BY <1>2, <1>1, <1>13, ModOps
<1>15. PICK i7 \in Int : i7 = i5 + i6
  BY <1>12, <1>14
<1>16. 0 (.) l (+) 0 (.) r (+) 0 (.) l (.) r (+) 0 (.) o = Mod(i7) /\ i7 \in Int
  BY <1>12, <1>14, <1>15, ModOps
<1>17. PICK i8 \in Int : i8 = i7 + 0
  BY <1>16, <1>2
<1>18. 0 (.) l (+) 0 (.) r (+) 0 (.) l (.) r (+) 0 (.) o (+) 0 = Mod(i8) /\ i8 \in Int
  BY <1>16, <1>2, <1>17, ModOps
<1>19. PICK i9 \in Int : i9 = i8 + 0
  BY <1>18, <1>2
<1>20. 0 (.) l (+) 0 (.) r (+) 0 (.) l (.) r (+) 0 (.) o (+) 0 (+) 0 = Mod(i9) /\ i9 \in Int
  BY <1>18, <1>2, <1>19, ModOps
<1>21. i9 = 0
  BY <1>1, <1>3, <1>5, <1>7, <1>9, <1>11, <1>13, <1>15, <1>17, <1>19
<1> QED BY <1>20, <1>2, <1>21

\* Every row holds with the solved Qk and Pi2.
LEMMA RowHolds ==
  ASSUME Instance, NEW v \in Values, NEW k \in Nat, k < s.n, NEW r1 \in F, NEW r2 \in F
  PROVE  RowSum(v, k, r1, r2) = 0
<1> DEFINE c == s.circuit
           l == WireOf(v, k, "l")
           r == WireOf(v, k, "r")
           o == WireOf(v, k, "o")
<1>1. /\ c \in Circuits /\ s.n \in Nat /\ s.offset = c.nbPublic + Size(c.gates)
      /\ c.nbPublic \in Nat /\ Size(c.gates) \in Nat /\ DOMAIN c.gates = Upto(Size(c.gates))
  BY InstanceIs, CircuitIs
<1>2. l \in F /\ r \in F /\ o \in F
  BY CellsAre
<1>3. k \in Upto(s.n) /\ v \in [DOMAIN c.commits -> HashValues] /\ DOMAIN v = DOMAIN c.commits
  BY <1>1, UptoIs DEF Values, Commits
<1>4. \A m \in Commits : /\ c.commits[m].index \in DOMAIN c.gates /\ c.gates[c.commits[m].index].qk = 0
                         /\ c.commits[m].committed \subseteq DOMAIN c.gates \ {c.commits[m].index, Size(c.gates) - 1}
                         /\ \A j \in Commits \ {m} : c.commits[j].index # c.commits[m].index
  BY <1>1, CommitsAssumption DEF Commits
<1>5. PICK cm \in Nat : Commits = Upto(cm)
  BY CommitsAre
<1>6. QkOf(v)[k] = IF k < c.nbPublic THEN c.witness[v][k]
                   ELSE IF \E m \in DOMAIN v : k = c.nbPublic + c.commits[m].index
                   THEN v[CHOOSE m \in DOMAIN v : k = c.nbPublic + c.commits[m].index]
                   ELSE Row(c, k).qk
  BY <1>3 DEF QkOf
<1> DEFINE term(m) == (IF Chosen(m, k) THEN 1 ELSE 0) (.) CommittedValues(m, Wire(v, "l"), r1, r2)[k]
<1>7. \A m \in Commits : term(m) = IF Chosen(m, k) THEN l ELSE 0
  <2> SUFFICES ASSUME NEW m \in Commits PROVE term(m) = IF Chosen(m, k) THEN l ELSE 0
    OBVIOUS
  <2>1. CommittedValues(m, Wire(v, "l"), r1, r2)[k]
          = IF k = s.offset - 1 THEN r2
            ELSE IF k = c.nbPublic + c.commits[m].index THEN r1
            ELSE IF Chosen(m, k) THEN l ELSE 0
    BY <1>3 DEF CommittedValues, Chosen, Wire
  <2>2. CASE Chosen(m, k)
    <3>1. k - c.nbPublic \in DOMAIN c.gates \ {c.commits[m].index, Size(c.gates) - 1}
      BY <1>4, <2>2 DEF Chosen
    <3>2. PICK j \in Nat, d \in Nat : /\ j = k - c.nbPublic /\ j # c.commits[m].index
                           /\ d = c.commits[m].index /\ j # Size(c.gates) - 1
      BY <1>1, <1>4, <3>1, UptoIs
    <3>3. k # c.nbPublic + d /\ k # s.offset - 1
      BY <1>1, <3>2
    <3> QED BY <1>2, <2>1, <2>2, <3>2, <3>3, Neutral
  <2>3. CASE ~Chosen(m, k)
    <3>1. CommittedValues(m, Wire(v, "l"), r1, r2)[k] \in F
      BY <2>1, <2>3, ZeroOne
    <3> QED BY <2>3, <3>1, Neutral
  <2> QED BY <2>2, <2>3
<1>8. [m \in Commits |-> term(m)] = [m \in Commits |-> IF Chosen(m, k) THEN l ELSE 0]
  BY <1>7
<1> HIDE DEF term
<1>9. RowSum(v, k, r1, r2)
        = Row(c, k).ql (.) l (+) Row(c, k).qr (.) r (+) Row(c, k).qm (.) l (.) r (+) Row(c, k).qo (.) o
            (+) QkOf(v)[k] (+) Total([m \in Commits |-> IF Chosen(m, k) THEN l ELSE 0])
  BY <1>8 DEF RowSum, term
<1>10. CASE k < c.nbPublic
  <2>1. \A m \in Commits : ~Chosen(m, k)
    <3> SUFFICES ASSUME NEW m \in Commits, Chosen(m, k) PROVE FALSE
      OBVIOUS
    <3>1. k - c.nbPublic \in DOMAIN c.gates
      BY <1>4 DEF Chosen
    <3>2. k - c.nbPublic \in Nat
      BY <1>1, <3>1, UptoIs
    <3> QED BY <1>1, <1>10, <3>2
  <2>2. Total([m \in Commits |-> IF Chosen(m, k) THEN l ELSE 0]) = 0
    <3>1. [m \in Commits |-> IF Chosen(m, k) THEN l ELSE 0] = [m \in Upto(cm) |-> 0]
      BY <1>5, <2>1
    <3> QED BY <3>1, TotalZero
  <2>3. Row(c, k) = [l |-> k, r |-> 0, o |-> 0, ql |-> Prime - 1, qr |-> 0, qm |-> 0,
                     qo |-> 0, qk |-> 0]
    BY <1>10 DEF Row
  <2>4. l = c.witness[v][k] /\ QkOf(v)[k] = l
    BY <1>6, <1>10, <2>3 DEF WireOf
  <2>5. (Prime - 1) (.) l (+) 0 (.) r (+) 0 (.) l (.) r (+) 0 (.) o (+) l (+) 0 = 0
    <3>1. 0 (-) 1 = Prime - 1
      <4>1. 1 \in F /\ Prime - 1 \in F /\ Prime \in Nat
        BY ZeroOne, PrimeAssumption DEF F
      <4>2. 0 + Prime - 1 = Prime - 1
        BY <4>1
      <4>3. Mod(Prime - 1) = Prime - 1
        BY <4>1, ModOfElement
      <4> QED BY <4>2, <4>3 DEF (-), Mod
    <3>2. (0 (-) 1) (.) l (+) 0 (.) r (+) 0 (.) l (.) r (+) 0 (.) o (+) l (+) 0 = 0
      BY <1>2, Placeholder
    <3> QED BY <3>1, <3>2
  <2> QED BY <1>9, <2>2, <2>3, <2>4, <2>5
<1>11. CASE ~(k < c.nbPublic) /\ k < s.offset
  <2>1. PICK j \in DOMAIN c.gates : j \in Nat /\ j = k - c.nbPublic /\ k = c.nbPublic + j
    <3>1. k - c.nbPublic \in Nat /\ k - c.nbPublic < Size(c.gates) /\ k = c.nbPublic + (k - c.nbPublic)
      BY <1>1, <1>11
    <3> QED BY <1>1, <3>1, UptoIs
  <2>2. Row(c, k) = c.gates[j]
    BY <1>1, <1>11, <2>1 DEF Row
  <2> DEFINE hashes == {m \in DOMAIN v : c.commits[m].index = j}
             qk == IF hashes = {} THEN c.gates[j].qk ELSE v[CHOOSE m \in hashes : TRUE]
  <2>3. \A m \in DOMAIN v : k = c.nbPublic + c.commits[m].index <=> c.commits[m].index = j
    <3> SUFFICES ASSUME NEW m \in DOMAIN v
                 PROVE  k = c.nbPublic + c.commits[m].index <=> c.commits[m].index = j
      OBVIOUS
    <3>1. c.commits[m].index \in Nat
      BY <1>1, <1>3, <1>4, UptoIs DEF Commits
    <3> QED BY <1>1, <2>1, <3>1
  <2>4. QkOf(v)[k] = qk
    <3>1. CASE hashes = {}
      <4>1. ~\E m \in DOMAIN v : k = c.nbPublic + c.commits[m].index
        BY <2>3, <3>1
      <4> QED BY <1>6, <1>11, <2>2, <3>1, <4>1
    <3>2. CASE hashes # {}
      <4>1. PICK a \in hashes : TRUE
        BY <3>2
      <4>2. \A m \in hashes : m = a
        BY <1>3, <1>4, <4>1 DEF Commits
      <4>3. (CHOOSE m \in hashes : TRUE) = a
        <5> HIDE DEF hashes
        <5> QED BY <3>2, <4>2
      <4>4. (CHOOSE m \in DOMAIN v : k = c.nbPublic + c.commits[m].index) = a
        <5>1. a \in DOMAIN v /\ k = c.nbPublic + c.commits[a].index
          BY <2>3, <4>1
        <5>2. \A m \in DOMAIN v : k = c.nbPublic + c.commits[m].index => m = a
          BY <2>3, <4>2
        <5> DEFINE hit(m) == k = c.nbPublic + c.commits[m].index
        <5>3. hit(a) /\ \A m \in DOMAIN v : hit(m) => m = a
          BY <5>1, <5>2
        <5> HIDE DEF hit
        <5>4. (CHOOSE m \in DOMAIN v : hit(m)) = a
          BY <5>1, <5>3
        <5> QED BY <5>4 DEF hit
      <4>5. \E m \in DOMAIN v : k = c.nbPublic + c.commits[m].index
        BY <2>3, <4>1
      <4> QED BY <1>6, <1>11, <3>2, <4>3, <4>4, <4>5
    <3> QED BY <3>1, <3>2
  <2>5. l = c.witness[v][c.gates[j].l] /\ r = c.witness[v][c.gates[j].r] /\ o = c.witness[v][c.gates[j].o]
    BY <2>2 DEF WireOf
  <2>6. [m \in Commits |-> IF Chosen(m, k) THEN l ELSE 0]
          = [m \in DOMAIN v |-> IF j \in c.commits[m].committed THEN c.witness[v][c.gates[j].l] ELSE 0]
    BY <1>3, <2>1, <2>5 DEF Chosen, Commits
  <2>7. LET gate   == c.gates[j]
            at(w)  == c.witness[v][w]
        IN  gate.ql (.) at(gate.l) (+) gate.qr (.) at(gate.r)
              (+) gate.qm (.) at(gate.l) (.) at(gate.r) (+) gate.qo (.) at(gate.o) (+) qk
              (+) Total([m \in DOMAIN v |->
                    IF j \in c.commits[m].committed THEN at(gate.l) ELSE 0]) = 0
    BY <1>1, <1>3, SatisfiedAssumption
  <2> HIDE DEF qk
  <2> QED BY <1>9, <2>2, <2>4, <2>5, <2>6, <2>7
<1>12. CASE ~(k < s.offset)
  <2>1. \A m \in Commits : ~Chosen(m, k) /\ ~(k = c.nbPublic + c.commits[m].index)
    <3> SUFFICES ASSUME NEW m \in Commits
                 PROVE  ~Chosen(m, k) /\ ~(k = c.nbPublic + c.commits[m].index)
      OBVIOUS
    <3>1. c.commits[m].index \in Nat /\ c.commits[m].index < Size(c.gates)
      BY <1>1, <1>4, UptoIs
    <3>2. Chosen(m, k) => k - c.nbPublic \in Nat /\ k - c.nbPublic < Size(c.gates)
      BY <1>1, <1>4, UptoIs DEF Chosen
    <3> QED BY <1>1, <1>12, <3>1, <3>2
  <2>2. Total([m \in Commits |-> IF Chosen(m, k) THEN l ELSE 0]) = 0
    <3>1. [m \in Commits |-> IF Chosen(m, k) THEN l ELSE 0] = [m \in Upto(cm) |-> 0]
      BY <1>5, <2>1
    <3> QED BY <3>1, TotalZero
  <2>3. Row(c, k) = [l |-> 0, r |-> 0, o |-> 0, ql |-> 0, qr |-> 0, qm |-> 0,
                     qo |-> 0, qk |-> 0]
    BY <1>1, <1>12 DEF Row
  <2>4. QkOf(v)[k] = 0
    <3>1. ~(k < c.nbPublic)
      BY <1>1, <1>12
    <3>2. ~\E m \in DOMAIN v : k = c.nbPublic + c.commits[m].index
      BY <1>3, <2>1 DEF Commits
    <3> QED BY <1>6, <2>3, <3>1, <3>2
  <2>5. 0 (.) l (+) 0 (.) r (+) 0 (.) l (.) r (+) 0 (.) o (+) 0 (+) 0 = 0
    BY <1>2, Padding
  <2> QED BY <1>9, <2>2, <2>3, <2>4, <2>5
<1> QED BY <1>10, <1>11, <1>12

-------------------------------------------------------------------------------
(* The numerator vanishes on the small domain and is divided by X^n - 1.   *)

\* The factors of the ordering constraint in one order.
LEMMA FactorFirst ==
  \A l, t, b, g \in F :
     g (+) l (+) t (.) b
       = l (+) b (.) t (+) g
<1> TAKE l, t, b, g \in F
<1>1. /\ l \in Int /\ l = Mod(l)
      /\ t \in Int /\ t = Mod(t)
      /\ b \in Int /\ b = Mod(b)
      /\ g \in Int /\ g = Mod(g)
  BY ModOfElement
<1>2. PICK i1 \in Int : i1 = g + l
  BY <1>1
<1>3. g (+) l = Mod(i1) /\ i1 \in Int
  BY <1>1, <1>2, ModOps
<1>4. PICK i2 \in Int : i2 = t * b
  BY <1>1
<1>5. t (.) b = Mod(i2) /\ i2 \in Int
  BY <1>1, <1>4, ModOps
<1>6. PICK i3 \in Int : i3 = i1 + i2
  BY <1>3, <1>5
<1>7. g (+) l (+) t (.) b = Mod(i3) /\ i3 \in Int
  BY <1>3, <1>5, <1>6, ModOps
<1>8. PICK i4 \in Int : i4 = b * t
  BY <1>1
<1>9. b (.) t = Mod(i4) /\ i4 \in Int
  BY <1>1, <1>8, ModOps
<1>10. PICK i5 \in Int : i5 = l + i4
  BY <1>1, <1>9
<1>11. l (+) b (.) t = Mod(i5) /\ i5 \in Int
  BY <1>1, <1>9, <1>10, ModOps
<1>12. PICK i6 \in Int : i6 = i5 + g
  BY <1>11, <1>1
<1>13. l (+) b (.) t (+) g = Mod(i6) /\ i6 \in Int
  BY <1>11, <1>1, <1>12, ModOps
<1>14. i3 = i6
  BY <1>1, <1>2, <1>4, <1>6, <1>8, <1>10, <1>12
<1> QED BY <1>7, <1>13, <1>14

LEMMA FactorNext ==
  \A l, t, b, g, c \in F :
     t (.) b (.) c (+) l (+) g
       = l (+) b (.) (c (.) t) (+) g
<1> TAKE l, t, b, g, c \in F
<1>1. /\ l \in Int /\ l = Mod(l)
      /\ t \in Int /\ t = Mod(t)
      /\ b \in Int /\ b = Mod(b)
      /\ g \in Int /\ g = Mod(g)
      /\ c \in Int /\ c = Mod(c)
  BY ModOfElement
<1>2. PICK i1 \in Int : i1 = t * b
  BY <1>1
<1>3. t (.) b = Mod(i1) /\ i1 \in Int
  BY <1>1, <1>2, ModOps
<1>4. PICK i2 \in Int : i2 = i1 * c
  BY <1>3, <1>1
<1>5. t (.) b (.) c = Mod(i2) /\ i2 \in Int
  BY <1>3, <1>1, <1>4, ModOps
<1>6. PICK i3 \in Int : i3 = i2 + l
  BY <1>5, <1>1
<1>7. t (.) b (.) c (+) l = Mod(i3) /\ i3 \in Int
  BY <1>5, <1>1, <1>6, ModOps
<1>8. PICK i4 \in Int : i4 = i3 + g
  BY <1>7, <1>1
<1>9. t (.) b (.) c (+) l (+) g = Mod(i4) /\ i4 \in Int
  BY <1>7, <1>1, <1>8, ModOps
<1>10. PICK i5 \in Int : i5 = c * t
  BY <1>1
<1>11. c (.) t = Mod(i5) /\ i5 \in Int
  BY <1>1, <1>10, ModOps
<1>12. PICK i6 \in Int : i6 = b * i5
  BY <1>1, <1>11
<1>13. b (.) (c (.) t) = Mod(i6) /\ i6 \in Int
  BY <1>1, <1>11, <1>12, ModOps
<1>14. PICK i7 \in Int : i7 = l + i6
  BY <1>1, <1>13
<1>15. l (+) b (.) (c (.) t) = Mod(i7) /\ i7 \in Int
  BY <1>1, <1>13, <1>14, ModOps
<1>16. PICK i8 \in Int : i8 = i7 + g
  BY <1>15, <1>1
<1>17. l (+) b (.) (c (.) t) (+) g = Mod(i8) /\ i8 \in Int
  BY <1>15, <1>1, <1>16, ModOps
<1>18. i4 = i8
  BY <1>1, <1>2, <1>4, <1>6, <1>8, <1>10, <1>12, <1>14, <1>16
<1> QED BY <1>9, <1>17, <1>18

NextFactor(l, t, b, g, c) == t (.) b (.) c (+) l (+) g = l (+) b (.) (c (.) t) (+) g

LEMMA NextFactorIs == \A l, t, b, g, c \in F : NextFactor(l, t, b, g, c)
BY FactorNext DEF NextFactor

LEMMA FactorShift ==
  \A l, b, g, u \in F :
     b (.) u (+) l (+) g
       = l (+) b (.) u (+) g
<1> TAKE l, b, g, u \in F
<1>1. /\ l \in Int /\ l = Mod(l)
      /\ b \in Int /\ b = Mod(b)
      /\ g \in Int /\ g = Mod(g)
      /\ u \in Int /\ u = Mod(u)
  BY ModOfElement
<1>2. PICK i1 \in Int : i1 = b * u
  BY <1>1
<1>3. b (.) u = Mod(i1) /\ i1 \in Int
  BY <1>1, <1>2, ModOps
<1>4. PICK i2 \in Int : i2 = i1 + l
  BY <1>3, <1>1
<1>5. b (.) u (+) l = Mod(i2) /\ i2 \in Int
  BY <1>3, <1>1, <1>4, ModOps
<1>6. PICK i3 \in Int : i3 = i2 + g
  BY <1>5, <1>1
<1>7. b (.) u (+) l (+) g = Mod(i3) /\ i3 \in Int
  BY <1>5, <1>1, <1>6, ModOps
<1>8. PICK i4 \in Int : i4 = l + i1
  BY <1>1, <1>3
<1>9. l (+) b (.) u = Mod(i4) /\ i4 \in Int
  BY <1>1, <1>3, <1>8, ModOps
<1>10. PICK i5 \in Int : i5 = i4 + g
  BY <1>9, <1>1
<1>11. l (+) b (.) u (+) g = Mod(i5) /\ i5 \in Int
  BY <1>9, <1>1, <1>10, ModOps
<1>12. i3 = i5
  BY <1>1, <1>2, <1>4, <1>6, <1>8, <1>10
<1> QED BY <1>7, <1>11, <1>12


\* Lone is the first Lagrange polynomial of the small domain.
LEMMA LoneIs ==
  ASSUME Instance, NEW t \in F
  PROVE  /\ Lone(t) \in F
         /\ Lone(t) = Inv(s.n) (.) Total([j \in Upto(s.n) |-> Power(t, j)])
<1>1. s.n \in Nat /\ s.n \in F /\ Inv(s.n) \in F /\ Order(s.n)
  BY InstanceIs, OrderIs, InvType
<1>2. PICK n \in Nat, a \in F : n = s.n /\ a = Inv(s.n)
  BY <1>1
<1>3. [k \in Upto(n) |-> a] \in Vec(n)
  BY DEF Vec
<1>4. PICK v \in Vec(n) : v = [k \in Upto(n) |-> a]
  BY <1>3
<1>5. [k \in Upto(n) |-> Power(t, k)] \in Vec(n)
  BY Geometric
<1>6. Eval(v, t) = Total([k \in Upto(n) |-> v[k] (.) Power(t, k)]) /\ Eval(v, t) \in F
  BY EvalTotal, EvalType
<1>7. [k \in Upto(n) |-> v[k] (.) Power(t, k)]
        = [k \in Upto(n) |-> a (.) [j \in Upto(n) |-> Power(t, j)][k]]
  BY <1>4
<1>8. Total([k \in Upto(n) |-> a (.) [j \in Upto(n) |-> Power(t, j)][k]])
        = a (.) Total([j \in Upto(n) |-> Power(t, j)])
  BY <1>5, TotalScale
<1>9. Lone(t) = Eval(v, t)
  BY <1>2, <1>4 DEF Lone
<1> QED BY <1>2, <1>6, <1>7, <1>8, <1>9

\* It vanishes on the domain but at 1.
LEMMA LoneOutside ==
  ASSUME Instance, NEW t \in F, Power(t, s.n) # 1
  PROVE  Lone(t) = Lagrange(s.n, 0, t)
<1>1. Order(s.n) /\ 0 \in Nat
  BY InstanceIs
<1>2. Inv(Generator(s.n)) \in F
  BY <1>1, GeneratorIs, InvType
<1>3. Power(Inv(Generator(s.n)), 0) (.) t = t
  BY <1>2, PowerLaws, Neutral
<1>4. LET u == Power(Inv(Generator(s.n)), 0) (.) t
      IN  Inv(s.n) (.) Total([j \in Upto(s.n) |-> Power(u, j)]) = Lagrange(s.n, 0, t)
  BY <1>1, LagrangeIs
<1>5. Inv(s.n) (.) Total([j \in Upto(s.n) |-> Power(t, j)]) = Lagrange(s.n, 0, t)
  BY <1>3, <1>4
<1> QED BY <1>5, LoneIs

LEMMA LoneAt ==
  ASSUME Instance, NEW k \in Nat, k < s.n
  PROVE  Lone(Power(s.w, k)) = IF k = 0 THEN 1 ELSE 0
<1>1. Order(s.n) /\ s.n \in Nat /\ 0 \in Nat /\ 0 < s.n /\ s.w = Generator(s.n) /\ s.n \in F \ {0}
  BY InstanceIs, SizePositive, OrderIs
<1>2. Primitive(s.w, s.n) /\ s.w \in F \ {0} /\ Inv(s.w) \in F
  BY <1>1, GeneratorPrimitive, InvType DEF Primitive
<1>3. PICK q \in F : q = Power(s.w, k)
  BY <1>2, PowerLaws
<1>4. Power(s.w, k) (.) Power(Inv(s.w), 0) = q
  BY <1>2, <1>3, PowerLaws, Neutral
<1>5. Total([e \in Upto(s.n) |-> Power(q, e)]) = IF k = 0 THEN s.n ELSE 0
  BY <1>1, <1>2, <1>4, RootsSum
<1>6. Lone(q) = Inv(s.n) (.) Total([e \in Upto(s.n) |-> Power(q, e)])
  BY LoneIs
<1>7. Inv(s.n) \in F /\ Inv(s.n) (.) s.n = 1 /\ Inv(s.n) (.) 0 = 0
  BY <1>1, InverseIs, Commutes, Neutral, InvType
<1> QED BY <1>3, <1>5, <1>6, <1>7

\* The selectors, the permutation and the qcp are the circuit's.
KeptBy(P) == /\ \A f \in Selectors \ {"Qk"} : P[f] = s.trace[f]
             /\ P.Qcp = s.trace.Qcp

\* The wires hold the witness v, Qk its public inputs and hashes, Pi2 what the
\* hint committed.
SolvedBy(P, v) ==
    /\ P.L = Poly(Wire(v, "l")) /\ P.R = Poly(Wire(v, "r")) /\ P.O = Poly(Wire(v, "o"))
    /\ P.Qk = Poly(QkOf(v))
    /\ \E r \in Randomizers : \A m \in Commits :
          P.Pi2[m] = Poly(CommittedValues(m, Wire(v, "l"), r[1], r[2]))

\* Z is the running product of the ratios, which goes round.
RationedBy(P, v, ch) ==
    /\ Eval(P.Z, Power(s.w, 0)) = 1
    /\ \A k \in Nat : k < s.n =>
         Eval(P.Z, Power(s.w, k + 1)) (.) RatioDen(v, k, ch.beta, ch.gamma)
           = Eval(P.Z, Power(s.w, k)) (.) RatioNum(v, k, ch.beta, ch.gamma)

\* On the domain a blinding vanishes.
LEMMA BlindVanishes ==
  ASSUME Instance, NEW n \in Nat, NEW p \in Vec(n), NEW m \in Nat, NEW b \in Vec(m), NEW t \in F,
         Power(t, s.n) = 1
  PROVE  evaluateBlinded(p, b, t) = Eval(p, t) /\ Eval(p, t) \in F
<1>1. Eval(p, t) \in F /\ Eval(b, t) \in F
  BY EvalType
<1>2. 1 (-) 1 = 0
  BY ZeroOne, Neutral
<1> QED BY <1>1, <1>2, Neutral DEF evaluateBlinded

\* The wires at a row.
LEMMA WiresAt ==
  ASSUME Instance, NEW P, NEW v \in Values, SolvedBy(P, v), NEW k \in Nat, k < s.n
  PROVE  LET t == Power(s.w, k)
         IN  /\ Eval(P.L, t) = WireOf(v, k, "l") /\ Eval(P.R, t) = WireOf(v, k, "r")
             /\ Eval(P.O, t) = WireOf(v, k, "o") /\ Eval(P.Qk, t) = QkOf(v)[k]
             /\ \E r1, r2 \in F : \A m \in Commits :
                  Eval(P.Pi2[m], t) = CommittedValues(m, Wire(v, "l"), r1, r2)[k]
<1>1. Order(s.n) /\ s.n \in Nat /\ s.w = Generator(s.n) /\ k \in Upto(s.n)
  BY InstanceIs, UptoIs
<1>2. \A u \in Vec(s.n) : Eval(Poly(u), Power(s.w, k)) = u[k]
  BY <1>1, PolyAt
<1>3. /\ Wire(v, "l") \in Vec(s.n) /\ Wire(v, "r") \in Vec(s.n) /\ Wire(v, "o") \in Vec(s.n)
      /\ QkOf(v) \in Vec(s.n)
  BY WiresAre, QkType DEF Wire
<1>4. /\ Wire(v, "l")[k] = WireOf(v, k, "l") /\ Wire(v, "r")[k] = WireOf(v, k, "r")
      /\ Wire(v, "o")[k] = WireOf(v, k, "o")
  BY <1>1 DEF Wire
<1>5. PICK r \in Randomizers : \A m \in Commits :
          P.Pi2[m] = Poly(CommittedValues(m, Wire(v, "l"), r[1], r[2]))
  BY DEF SolvedBy
<1>6. PICK r1, r2 \in F : r1 = r[1] /\ r2 = r[2]
  BY <1>5, ValuesAssumption
<1>7. ASSUME NEW m \in Commits
      PROVE  Eval(P.Pi2[m], Power(s.w, k)) = CommittedValues(m, Wire(v, "l"), r1, r2)[k]
  <2>1. CommittedValues(m, Wire(v, "l"), r1, r2) \in Vec(s.n)
    BY <1>3, CommittedValuesType
  <2>2. P.Pi2[m] = Poly(CommittedValues(m, Wire(v, "l"), r1, r2))
    BY <1>5, <1>6
  <2> QED BY <1>2, <2>1, <2>2
<1> QED BY <1>2, <1>3, <1>4, <1>7 DEF SolvedBy

\* The numerator vanishes on the small domain.
LEMMA NumVanishes ==
  ASSUME Instance, NEW P, Complete(P), NEW B, Blinders(B), NEW ch, ChallengesIn(ch),
         NEW v \in Values, KeptBy(P), SolvedBy(P, v), RationedBy(P, v, ch), NEW k \in Nat, k < s.n
  PROVE  Num(P, B, ch, Power(s.w, k)) = 0
<1> DEFINE t0 == Power(s.w, k)
<1>1. /\ Order(s.n) /\ s.n \in Nat /\ s.w = Generator(s.n) /\ s.w \in F \ {0}
      /\ Root \in F /\ Root (.) Root \in F
  BY InstanceIs, GeneratorIs, RootIs, Closed
<1>2. ch.alpha \in F /\ ch.beta \in F /\ ch.gamma \in F
  BY DEF ChallengesIn
<1>3. PICK t \in F : t = t0 /\ Power(t, s.n) = 1
  BY <1>1, DomainPower
<1>4. /\ s.w (.) t = Power(s.w, k + 1) /\ s.w (.) t \in F /\ Power(s.w (.) t, s.n) = 1
  <2>1. Power(s.w, k + 1) = s.w (.) Power(s.w, k)
    <3>1. Power(s.w, k + 1) = Power(s.w, k) (.) Power(s.w, 1) /\ Power(s.w, 1) = s.w
      BY <1>1, PowerLaws, PowerFirst
    <3> QED BY <1>1, <1>3, <3>1, Commutes
  <2>2. k + 1 \in Nat
    OBVIOUS
  <2> QED BY <1>1, <1>3, <2>1, <2>2, DomainPower, Closed
<1>5. PICK l \in F, r \in F, o \in F :
        /\ l = WireOf(v, k, "l") /\ r = WireOf(v, k, "r") /\ o = WireOf(v, k, "o")
        /\ Eval(P.L, t) = l /\ Eval(P.R, t) = r /\ Eval(P.O, t) = o /\ Eval(P.Qk, t) = QkOf(v)[k]
  BY <1>3, CellsAre, WiresAt
<1>6. PICK r1, r2 \in F : \A m \in Commits :
                  Eval(P.Pi2[m], t) = CommittedValues(m, Wire(v, "l"), r1, r2)[k]
  BY <1>3, WiresAt
<1>7. /\ evaluateBlinded(P.L, B.L, t) = l /\ evaluateBlinded(P.R, B.R, t) = r
      /\ evaluateBlinded(P.O, B.O, t) = o
  <2>1. P.L \in Vec(s.n) /\ P.R \in Vec(s.n) /\ P.O \in Vec(s.n)
    BY DEF Complete, AllFields
  <2>2. B.L \in Vec(2) /\ B.R \in Vec(2) /\ B.O \in Vec(2) /\ 2 \in Nat
    BY DEF Blinders
  <2> QED BY <1>1, <1>3, <1>5, <2>1, <2>2, BlindVanishes
<1>8. PICK zt \in F, zs \in F :
        /\ zt = evaluateBlinded(P.Z, B.Z, t) /\ zs = evaluateBlinded(P.Z, B.Z, s.w (.) t)
        /\ zt = Eval(P.Z, Power(s.w, k)) /\ zs = Eval(P.Z, Power(s.w, k + 1))
  <2>1. P.Z \in Vec(s.n) /\ B.Z \in Vec(3) /\ 3 \in Nat
    BY DEF Complete, AllFields, Blinders
  <2> QED BY <1>1, <1>3, <1>4, <2>1, BlindVanishes
<1>9. PICK e : e = Point(P, B, zt, zs, ch.beta, t)
  OBVIOUS
<1>10. /\ e.L = l /\ e.R = r /\ e.O = o /\ e.Z = zt /\ e.ZS = zs
       /\ e.Ql = Eval(P.Ql, t) /\ e.Qr = Eval(P.Qr, t) /\ e.Qm = Eval(P.Qm, t)
       /\ e.Qo = Eval(P.Qo, t) /\ e.Qk = Eval(P.Qk, t) /\ e.S1 = ch.beta (.) Eval(P.S1, t)
       /\ e.S2 = ch.beta (.) Eval(P.S2, t) /\ e.S3 = ch.beta (.) Eval(P.S3, t)
       /\ DOMAIN e.Qcp = Commits
       /\ \A m \in Commits : e.Qcp[m] = Eval(P.Qcp[m], t) /\ e.Pi2[m] = Eval(P.Pi2[m], t)
  BY <1>7, <1>9 DEF Point
<1>11. /\ P.Ql = s.trace.Ql /\ P.Qr = s.trace.Qr /\ P.Qm = s.trace.Qm /\ P.Qo = s.trace.Qo
       /\ P.S1 = s.trace.S1 /\ P.S2 = s.trace.S2 /\ P.S3 = s.trace.S3 /\ P.Qcp = s.trace.Qcp
  BY DEF KeptBy, Selectors
<1>12. /\ Eval(P.Ql, t) = Row(s.circuit, k).ql /\ Eval(P.Qr, t) = Row(s.circuit, k).qr
       /\ Eval(P.Qm, t) = Row(s.circuit, k).qm /\ Eval(P.Qo, t) = Row(s.circuit, k).qo
       /\ Eval(P.S1, t) = Permuted(s.circuit, s.n, k)
       /\ Eval(P.S2, t) = Permuted(s.circuit, s.n, s.n + k)
       /\ Eval(P.S3, t) = Permuted(s.circuit, s.n, 2 * s.n + k)
       /\ \A m \in Commits : Eval(P.Qcp[m], t) = IF Chosen(m, k) THEN 1 ELSE 0
  BY <1>3, <1>11, TraceAt
<1>13. gateConstraint(e) = 0
  <2>1. [m \in DOMAIN e.Qcp |-> e.Qcp[m] (.) e.Pi2[m]]
          = [m \in Commits |-> (IF Chosen(m, k) THEN 1 ELSE 0)
                                 (.) CommittedValues(m, Wire(v, "l"), r1, r2)[k]]
    BY <1>6, <1>10, <1>12
  <2>2. gateConstraint(e) = RowSum(v, k, r1, r2)
    BY <1>5, <1>10, <1>12, <2>1 DEF gateConstraint, RowSum
  <2> QED BY <2>2, RowHolds
<1>14. orderingConstraint(e, t (.) ch.beta, ch.gamma, Root, Root (.) Root) = 0
  <2>1. PICK u1 \in F, u2 \in F, u3 \in F : /\ u1 = Permuted(s.circuit, s.n, k)
                           /\ u2 = Permuted(s.circuit, s.n, s.n + k)
                           /\ u3 = Permuted(s.circuit, s.n, 2 * s.n + k)
    BY CellsAre, PermutedIs
  <2>2. PICK b \in F, g \in F, cs \in F, css \in F :
           b = ch.beta /\ g = ch.gamma /\ cs = Root /\ css = Root (.) Root
    BY <1>1, <1>2
  <2>3. /\ g (+) l (+) t (.) b = l (+) b (.) t (+) g
        /\ t (.) b (.) cs (+) r (+) g = r (+) b (.) (cs (.) t) (+) g
        /\ t (.) b (.) css (+) o (+) g = o (+) b (.) (css (.) t) (+) g
    <3>1. g (+) l (+) t (.) b = l (+) b (.) t (+) g
      BY FactorFirst
    <3>2. t (.) b (.) cs (+) r (+) g = r (+) b (.) (cs (.) t) (+) g
      <4>1. NextFactor(r, t, b, g, cs)
        BY ONLY r \in F, t \in F, b \in F, g \in F, cs \in F, NextFactorIs
      <4> QED BY <4>1 DEF NextFactor
    <3>3. t (.) b (.) css (+) o (+) g = o (+) b (.) (css (.) t) (+) g
      <4>1. NextFactor(o, t, b, g, css)
        BY ONLY o \in F, t \in F, b \in F, g \in F, css \in F, NextFactorIs
      <4> QED BY <4>1 DEF NextFactor
    <3> QED BY <3>1, <3>2, <3>3
  <2>4. /\ b (.) u1 (+) l (+) g = l (+) b (.) u1 (+) g
        /\ b (.) u2 (+) r (+) g = r (+) b (.) u2 (+) g
        /\ b (.) u3 (+) o (+) g = o (+) b (.) u3 (+) g
    BY FactorShift
  <2>5. PICK num \in F, den \in F : /\ num = RatioNum(v, k, b, g) /\ den = RatioDen(v, k, b, g)
                                    /\ zs (.) den = zt (.) num
    BY <1>8, <2>2, RatioTermsType DEF RationedBy
  <2>6. num = (l (+) b (.) t (+) g) (.) (r (+) b (.) (cs (.) t) (+) g) (.) (o (+) b (.) (css (.) t) (+) g)
    BY <1>3, <1>5, <2>2, <2>5 DEF RatioNum
  <2>7. den = (l (+) b (.) u1 (+) g) (.) (r (+) b (.) u2 (+) g) (.) (o (+) b (.) u3 (+) g)
    BY <1>5, <2>1, <2>5 DEF RatioDen
  <2>8. orderingConstraint(e, t (.) b, g, cs, css) = den (.) zs (-) num (.) zt
    <3>1. e.S1 = b (.) u1 /\ e.S2 = b (.) u2 /\ e.S3 = b (.) u3
      BY <1>10, <1>12, <2>1, <2>2
    <3>2. e.L = l /\ e.R = r /\ e.O = o /\ e.Z = zt /\ e.ZS = zs
      BY <1>10
    <3> QED BY ONLY <3>1, <3>2, <2>3, <2>4, <2>6, <2>7 DEF orderingConstraint
  <2>9. den (.) zs = num (.) zt /\ num (.) zt \in F
    BY <2>5, Commutes, Closed
  <2>10. den (.) zs (-) num (.) zt = 0
    BY <2>9, Neutral
  <2> QED BY <2>2, <2>8, <2>10
<1>15. localConstraint(e, Lone(t)) = 0
  <2>1. CASE k = 0
    <3>1. zt = 1
      BY <1>8, <2>1 DEF RationedBy
    <3>2. Lone(t) \in F
      BY LoneIs
    <3>3. zt (-) 1 = 0 /\ 0 (.) Lone(t) = 0
      BY <3>1, <3>2, ZeroOne, Neutral
    <3> QED BY <1>10, <3>3 DEF localConstraint
  <2>2. CASE k # 0
    <3>1. Lone(t) = 0
      BY <1>3, <2>2, LoneAt
    <3>2. (zt (-) 1) \in F
      BY ZeroOne, Closed
    <3> QED BY <1>10, <3>1, <3>2, Neutral DEF localConstraint
  <2> QED BY <2>1, <2>2
<1>16. Num(P, B, ch, t)
         = Combined(e, t (.) ch.beta, Lone(t), ch.alpha, ch.gamma, Root, Root (.) Root)
  BY <1>8, <1>9 DEF Num, NumAt
<1>17. (0 (.) ch.alpha (+) 0) (.) ch.alpha (+) 0 = 0
  BY <1>2, ZeroOne, Neutral
<1> QED BY <1>3, <1>13, <1>14, <1>15, <1>16, <1>17 DEF Combined

\* The quotient: a polynomial of 3 (n + 2) coefficients.
LEMMA QuotientExists ==
  ASSUME Instance, NEW P, Complete(P), NEW B, Blinders(B), NEW ch, ChallengesIn(ch),
         NEW v \in Values, KeptBy(P), SolvedBy(P, v), RationedBy(P, v, ch)
  PROVE  \E q \in Vec(3 * (s.n + 2)) : \A z \in F :
            Num(P, B, ch, z) = Eval(q, z) (.) (Power(z, s.n) (-) 1)
<1>1. PICK p \in Vec(4 * s.n + 6) : \A z \in F : Num(P, B, ch, z) = Eval(p, z)
  BY NumDegree
<1>2. PICK n \in Nat, m \in Nat : /\ n = s.n /\ m = 3 * (s.n + 2) /\ Order(n)
                                  /\ 4 * s.n + 6 = n + m /\ s.w = Generator(n)
  BY InstanceIs
<1>3. p \in Vec(n + m)
  BY <1>1, <1>2
<1>4. ASSUME NEW k \in Nat, k < n PROVE Eval(p, Power(Generator(n), k)) = 0
  <2>1. Num(P, B, ch, Power(s.w, k)) = 0
    BY <1>2, <1>4, NumVanishes
  <2>2. Power(Generator(n), k) \in F
    BY <1>2, DomainPower
  <2> QED BY <1>1, <1>2, <2>1, <2>2
<1>5. \A k \in Nat : k < n => Eval(p, Power(Generator(n), k)) = 0
  BY <1>4
<1>6. \E q \in Vec(m) : \A z \in F : Eval(p, z) = Eval(q, z) (.) (Power(z, n) (-) 1)
  BY <1>2, <1>3, <1>5, Division
<1> QED BY <1>1, <1>2, <1>6

-------------------------------------------------------------------------------
(* BuildRatio leaves a product that goes round.                            *)

\* The factors of the ratio that buildRatioCopyConstraint multiplies.
LEMMA RatioTerms ==
  ASSUME Instance, RatioInputs, NEW v \in Values, NEW beta \in F, NEW gamma \in F,
         x.L = Poly(Wire(v, "l")), x.R = Poly(Wire(v, "r")), x.O = Poly(Wire(v, "o")),
         NEW k \in Nat, k < s.n
  PROVE  /\ Numerator(k, beta, gamma) = RatioNum(v, k, beta, gamma)
         /\ Denominator(k, beta, gamma) = RatioDen(v, k, beta, gamma)
<1>1. Order(s.n) /\ s.n \in Nat /\ s.w = Generator(s.n) /\ k \in Upto(s.n)
  BY InstanceIs, UptoIs
<1>2. twiddles0(k) = Power(s.w, k)
  BY TwiddleType
<1>3. \A u \in Vec(s.n) : Eval(Poly(u), Power(s.w, k)) = u[k]
  BY <1>1, PolyAt
<1>4. Wire(v, "l") \in Vec(s.n) /\ Wire(v, "r") \in Vec(s.n) /\ Wire(v, "o") \in Vec(s.n)
  BY WiresAre DEF Wire
<1>5. /\ Eval(x.L, Power(s.w, k)) = WireOf(v, k, "l") /\ Eval(x.R, Power(s.w, k)) = WireOf(v, k, "r")
      /\ Eval(x.O, Power(s.w, k)) = WireOf(v, k, "o")
  <2>1. /\ Wire(v, "l")[k] = WireOf(v, k, "l") /\ Wire(v, "r")[k] = WireOf(v, k, "r")
        /\ Wire(v, "o")[k] = WireOf(v, k, "o")
    BY <1>1 DEF Wire
  <2> QED BY <1>3, <1>4, <2>1
<1>6. \A id1, id2, id3 :
        Factors(k, id1, id2, id3, beta, gamma)
          = (WireOf(v, k, "l") (+) beta (.) id1 (+) gamma) (.) (WireOf(v, k, "r") (+) beta (.) id2 (+) gamma)
              (.) (WireOf(v, k, "o") (+) beta (.) id3 (+) gamma)
  BY <1>2, <1>5 DEF Factors
<1>7. /\ Eval(s.trace.S1, Power(s.w, k)) = Permuted(s.circuit, s.n, k)
      /\ Eval(s.trace.S2, Power(s.w, k)) = Permuted(s.circuit, s.n, s.n + k)
      /\ Eval(s.trace.S3, Power(s.w, k)) = Permuted(s.circuit, s.n, 2 * s.n + k)
  BY TraceAt
<1>8. Numerator(k, beta, gamma) = RatioNum(v, k, beta, gamma)
  <2>1. Numerator(k, beta, gamma)
          = Factors(k, Power(s.w, k), Root (.) Power(s.w, k), Root (.) Root (.) Power(s.w, k), beta, gamma)
    BY <1>2 DEF Numerator
  <2> QED BY <1>6, <2>1 DEF RatioNum
<1>9. Denominator(k, beta, gamma) = RatioDen(v, k, beta, gamma)
  <2>1. Denominator(k, beta, gamma)
          = Factors(k, Permuted(s.circuit, s.n, k), Permuted(s.circuit, s.n, s.n + k),
                    Permuted(s.circuit, s.n, 2 * s.n + k), beta, gamma)
    BY <1>2, <1>7 DEF Denominator
  <2> QED BY <1>6, <2>1 DEF RatioDen
<1> QED BY <1>8, <1>9

\* What BuildRatio leaves is the running product.
LEMMA RatioRationed ==
  ASSUME Instance, RatioInputs, NEW v \in Values, NEW beta \in F, NEW gamma \in F,
         x.L = Poly(Wire(v, "l")), x.R = Poly(Wire(v, "r")), x.O = Poly(Wire(v, "o")),
         \A k \in Upto(s.n - 1) : Denominator(k, beta, gamma) # 0
  PROVE  LET Z == Poly(CopyRatio(beta, gamma))
         IN  /\ Eval(Z, Power(s.w, 0)) = 1
             /\ \A k \in Nat : k < s.n =>
                  Eval(Z, Power(s.w, k + 1)) (.) RatioDen(v, k, beta, gamma)
                    = Eval(Z, Power(s.w, k)) (.) RatioNum(v, k, beta, gamma)
<1>1. PICK n \in Nat \ {0} : n = s.n /\ Order(n) /\ s.w = Generator(n) /\ n - 1 \in Nat /\ 0 < n
  BY InstanceIs
<1> DEFINE nm == [k \in Upto(s.n - 1) |-> Numerator(k, beta, gamma)]
           dn == [k \in Upto(s.n - 1) |-> Denominator(k, beta, gamma)]
<1>2. PICK C \in Vec(n) : C = CopyRatio(beta, gamma)
  BY <1>1, CopyRatioIs
<1>3. nm \in Vec(n - 1) /\ dn \in Vec(n - 1) /\ RatioCopyConstraint(nm, dn, n) = C
  BY <1>1, <1>2, CopyRatioIs
<1>4. dn \in [Upto(n - 1) -> F \ {0}]
  BY <1>1, <1>3 DEF Vec
<1>5. \A k \in Nat : k + 1 < n => /\ k \in Upto(n - 1) /\ nm[k] = Numerator(k, beta, gamma)
                                  /\ dn[k] = Denominator(k, beta, gamma)
  <2>1. \A k \in Nat : k + 1 < n => k \in Upto(n - 1)
    BY <1>1 DEF Upto
  <2> QED BY <1>1, <2>1
<1>6. /\ C[0] = 1
      /\ \A k \in Nat : k + 1 < n => C[k + 1] = C[k] (.) nm[k] (.) Inv(dn[k])
  <2> HIDE DEF nm, dn
  <2>1. /\ C[0] = 1
        /\ \A k \in Upto(n - 1) : C[k + 1] = C[k] (.) nm[k] (.) Inv(dn[k])
    <3>1. n \in Nat \ {0, 1}
      BY <1>1, InstanceIs
    <3> QED BY <1>1, <1>3, <1>4, <3>1, RatioCopyConstraintThm
  <2> QED BY <1>5, <2>1
<1>7. PICK num \in [Nat -> F], den \in [Nat -> F] :
        /\ num = Numerators(v, beta, gamma) /\ den = Denominators(v, beta, gamma)
        /\ Partial(num)[n] = Partial(den)[n]
  BY <1>1, ProductsAgree
<1>8. \A k \in Nat : k < n => /\ num[k] = RatioNum(v, k, beta, gamma) /\ num[k] = Numerator(k, beta, gamma)
                              /\ den[k] = RatioDen(v, k, beta, gamma) /\ den[k] = Denominator(k, beta, gamma)
  <2> SUFFICES ASSUME NEW k \in Nat, k < n
               PROVE  /\ num[k] = RatioNum(v, k, beta, gamma) /\ num[k] = Numerator(k, beta, gamma)
                      /\ den[k] = RatioDen(v, k, beta, gamma) /\ den[k] = Denominator(k, beta, gamma)
    OBVIOUS
  <2>1. num[k] = RatioNum(v, k, beta, gamma) /\ den[k] = RatioDen(v, k, beta, gamma)
    BY <1>1, <1>7 DEF Numerators, Denominators
  <2> QED BY <1>1, <2>1, RatioTerms
<1>9. \A k \in Nat : k + 1 < n => den[k] # 0 /\ C[k + 1] = C[k] (.) num[k] (.) Inv(den[k])
  <2> SUFFICES ASSUME NEW k \in Nat, k + 1 < n
               PROVE  den[k] # 0 /\ C[k + 1] = C[k] (.) num[k] (.) Inv(den[k])
    OBVIOUS
  <2>1. k < n /\ k \in Upto(s.n - 1) /\ nm[k] = Numerator(k, beta, gamma) /\ dn[k] = Denominator(k, beta, gamma)
    <3>1. k < n
      OBVIOUS
    <3> HIDE DEF nm, dn
    <3> QED BY <1>1, <1>5, <3>1
  <2>2. num[k] = nm[k] /\ den[k] = dn[k] /\ den[k] = Denominator(k, beta, gamma)
    BY <1>8, <2>1
  <2> HIDE DEF nm, dn
  <2> QED BY <1>6, <2>1, <2>2
<1> HIDE DEF nm, dn
<1>10. /\ \A k \in Nat : k + 1 < n => C[k + 1] (.) den[k] = C[k] (.) num[k]
       /\ C[0] (.) den[n - 1] = C[n - 1] (.) num[n - 1]
  BY <1>6, <1>7, <1>9, GoesRound
<1>11. \A k \in Nat : k < n => Eval(Poly(C), Power(s.w, k)) = C[k]
  BY <1>1, PolyAt
<1>12. Power(s.w, n) = Power(s.w, 0)
  <2>1. s.w \in F /\ Power(s.w, n) = 1
    BY <1>1, GeneratorIs
  <2> QED BY <2>1, PowerLaws
<1>13. ASSUME NEW k \in Nat, k < n
       PROVE  Eval(Poly(C), Power(s.w, k + 1)) (.) den[k] = Eval(Poly(C), Power(s.w, k)) (.) num[k]
  <2>1. CASE k + 1 < n
    <3>1. k + 1 \in Nat
      OBVIOUS
    <3> QED BY <1>10, <1>11, <1>13, <2>1, <3>1
  <2>2. CASE ~(k + 1 < n)
    <3>1. k + 1 = n /\ k = n - 1
      BY <1>13, <2>2
    <3>2. Eval(Poly(C), Power(s.w, k + 1)) = C[0]
      BY <1>1, <1>11, <1>12, <3>1
    <3> QED BY <1>10, <1>11, <1>13, <3>1, <3>2
  <2> QED BY <2>1, <2>2
<1> QED BY <1>1, <1>2, <1>6, <1>8, <1>11, <1>13

-------------------------------------------------------------------------------
(* The rows of a coset are the numerator's values there, on either path.   *)

\* The kernel evaluates the blindings by hand.
LEMMA HornerThree ==
  \A a, b, c, z \in F :
     a (+) z (.) (b (+) z (.) c)
       = a (+) b (.) z (+) c (.) z (.) z
<1> TAKE a, b, c, z \in F
<1>1. /\ a \in Int /\ a = Mod(a)
      /\ b \in Int /\ b = Mod(b)
      /\ c \in Int /\ c = Mod(c)
      /\ z \in Int /\ z = Mod(z)
  BY ModOfElement
<1>2. PICK i1 \in Int : i1 = z * c
  BY <1>1
<1>3. z (.) c = Mod(i1) /\ i1 \in Int
  BY <1>1, <1>2, ModOps
<1>4. PICK i2 \in Int : i2 = b + i1
  BY <1>1, <1>3
<1>5. b (+) z (.) c = Mod(i2) /\ i2 \in Int
  BY <1>1, <1>3, <1>4, ModOps
<1>6. PICK i3 \in Int : i3 = z * i2
  BY <1>1, <1>5
<1>7. z (.) (b (+) z (.) c) = Mod(i3) /\ i3 \in Int
  BY <1>1, <1>5, <1>6, ModOps
<1>8. PICK i4 \in Int : i4 = a + i3
  BY <1>1, <1>7
<1>9. a (+) z (.) (b (+) z (.) c) = Mod(i4) /\ i4 \in Int
  BY <1>1, <1>7, <1>8, ModOps
<1>10. PICK i5 \in Int : i5 = b * z
  BY <1>1
<1>11. b (.) z = Mod(i5) /\ i5 \in Int
  BY <1>1, <1>10, ModOps
<1>12. PICK i6 \in Int : i6 = a + i5
  BY <1>1, <1>11
<1>13. a (+) b (.) z = Mod(i6) /\ i6 \in Int
  BY <1>1, <1>11, <1>12, ModOps
<1>14. PICK i7 \in Int : i7 = c * z
  BY <1>1
<1>15. c (.) z = Mod(i7) /\ i7 \in Int
  BY <1>1, <1>14, ModOps
<1>16. PICK i8 \in Int : i8 = i7 * z
  BY <1>15, <1>1
<1>17. c (.) z (.) z = Mod(i8) /\ i8 \in Int
  BY <1>15, <1>1, <1>16, ModOps
<1>18. PICK i9 \in Int : i9 = i6 + i8
  BY <1>13, <1>17
<1>19. a (+) b (.) z (+) c (.) z (.) z = Mod(i9) /\ i9 \in Int
  BY <1>13, <1>17, <1>18, ModOps
<1>20. i4 = i9
  BY <1>1, <1>2, <1>4, <1>6, <1>8, <1>10, <1>12, <1>14, <1>16, <1>18
<1> QED BY <1>9, <1>19, <1>20


LEMMA EvalTwo ==
  ASSUME NEW b \in Vec(2), NEW z \in F
  PROVE  b[0] \in F /\ b[1] \in F /\ Eval(b, z) = b[0] (+) b[1] (.) z
<1>1. 0 \in Upto(2) /\ 1 \in Upto(2) /\ 2 \in Nat
  BY UptoIs
<1>2. b[0] \in F /\ b[1] \in F
  BY <1>1 DEF Vec
<1>3. PICK e : IsHorner(e, 2, b, z)
  BY <1>1, HornerExists
<1>4. Eval(b, z) = e[0] /\ e[2] = 0 /\ e[1] = b[1] (+) (z (.) e[2]) /\ e[0] = b[0] (+) (z (.) e[1])
  <2>1. \A k \in Nat : k < 2 => e[k] = b[k] (+) (z (.) e[k + 1])
    BY <1>3 DEF IsHorner
  <2>2. 0 \in Nat /\ 1 \in Nat /\ 0 < 2 /\ 1 < 2 /\ 0 + 1 = 1 /\ 1 + 1 = 2
    OBVIOUS
  <2> QED BY <1>1, <1>3, <2>1, <2>2, EvalIs DEF IsHorner
<1>5. e[1] = b[1] /\ z (.) b[1] = b[1] (.) z
  BY <1>2, <1>4, Neutral, Commutes
<1> QED BY <1>2, <1>4, <1>5

LEMMA EvalThree ==
  ASSUME NEW b \in Vec(3), NEW z \in F
  PROVE  /\ b[0] \in F /\ b[1] \in F /\ b[2] \in F
         /\ Eval(b, z) = b[0] (+) b[1] (.) z (+) b[2] (.) z (.) z
<1>1. 0 \in Upto(3) /\ 1 \in Upto(3) /\ 2 \in Upto(3) /\ 3 \in Nat
  BY UptoIs
<1>2. b[0] \in F /\ b[1] \in F /\ b[2] \in F
  BY <1>1 DEF Vec
<1>3. PICK e : IsHorner(e, 3, b, z)
  BY <1>1, HornerExists
<1>4. /\ Eval(b, z) = e[0] /\ e[3] = 0 /\ e[2] = b[2] (+) (z (.) e[3]) /\ e[1] = b[1] (+) (z (.) e[2])
      /\ e[0] = b[0] (+) (z (.) e[1])
  <2>1. \A k \in Nat : k < 3 => e[k] = b[k] (+) (z (.) e[k + 1])
    BY <1>3 DEF IsHorner
  <2>2. 0 \in Nat /\ 1 \in Nat /\ 2 \in Nat /\ 0 < 3 /\ 1 < 3 /\ 2 < 3 /\ 0 + 1 = 1 /\ 1 + 1 = 2 /\ 2 + 1 = 3
    OBVIOUS
  <2> QED BY <1>1, <1>3, <2>1, <2>2, EvalIs DEF IsHorner
<1>5. e[2] = b[2]
  BY <1>2, <1>4, Neutral
<1>6. PICK b0 \in F, b1 \in F, b2 \in F : b0 = b[0] /\ b1 = b[1] /\ b2 = b[2]
  BY <1>2
<1>7. b0 (+) z (.) (b1 (+) z (.) b2) = b0 (+) b1 (.) z (+) b2 (.) z (.) z
  BY HornerThree
<1> QED BY <1>2, <1>4, <1>5, <1>6, <1>7

\* The nine packed coefficients.
LEMMA PackedIs ==
  ASSUME NEW bs, Blinders(bs)
  PROVE  LET d == PackedBlinding(bs)
         IN  /\ d[0] = bs.L[0] /\ d[1] = bs.L[1] /\ d[2] = bs.R[0] /\ d[3] = bs.R[1]
             /\ d[4] = bs.O[0] /\ d[5] = bs.O[1] /\ d[6] = bs.Z[0] /\ d[7] = bs.Z[1] /\ d[8] = bs.Z[2]
<1>1. bs.L \in Vec(2) /\ bs.R \in Vec(2) /\ bs.O \in Vec(2) /\ bs.Z \in Vec(3)
  BY DEF Blinders
<1>2. 2 \in Nat /\ 3 \in Nat /\ 4 \in Nat /\ 5 \in Nat /\ 2 + 2 = 4 /\ 2 + 3 = 5 /\ 4 + 5 = 9
  OBVIOUS
<1>3. PICK u \in Vec(4) : /\ u = Concat(bs.L, bs.R)
                          /\ u = [k \in Upto(4) |-> IF k < 2 THEN bs.L[k] ELSE bs.R[k - 2]]
  <2>1. PICK p, q \in Vec(2) : p = bs.L /\ q = bs.R
    BY <1>1
  <2>2. /\ Concat(p, q) \in Vec(2 + 2)
        /\ Concat(p, q) = [k \in Upto(2 + 2) |-> IF k < 2 THEN p[k] ELSE q[k - 2]]
    BY ONLY p \in Vec(2), q \in Vec(2), 2 \in Nat, EvalConcat
  <2> QED BY <1>2, <2>1, <2>2
<1>4. PICK w \in Vec(5) : /\ w = Concat(bs.O, bs.Z)
                          /\ w = [k \in Upto(5) |-> IF k < 2 THEN bs.O[k] ELSE bs.Z[k - 2]]
  <2>1. PICK p \in Vec(2), q \in Vec(3) : p = bs.O /\ q = bs.Z
    BY <1>1
  <2>2. /\ Concat(p, q) \in Vec(2 + 3)
        /\ Concat(p, q) = [k \in Upto(2 + 3) |-> IF k < 2 THEN p[k] ELSE q[k - 2]]
    BY ONLY p \in Vec(2), q \in Vec(3), 2 \in Nat, 3 \in Nat, EvalConcat
  <2> QED BY <1>2, <2>1, <2>2
<1>5. PackedBlinding(bs) = [k \in Upto(9) |-> IF k < 4 THEN u[k] ELSE w[k - 4]]
  <2>1. Concat(u, w) = [k \in Upto(4 + 5) |-> IF k < 4 THEN u[k] ELSE w[k - 4]]
    BY <1>2, EvalConcat
  <2> QED BY <1>2, <1>3, <1>4, <2>1 DEF PackedBlinding
<1>6. /\ u[0] = bs.L[0] /\ u[1] = bs.L[1] /\ u[2] = bs.R[0] /\ u[3] = bs.R[1]
  BY <1>3 DEF Upto
<1>7. w[0] = bs.O[0] /\ w[1] = bs.O[1] /\ w[2] = bs.Z[0] /\ w[3] = bs.Z[1] /\ w[4] = bs.Z[2]
  BY <1>4 DEF Upto
<1>8. PICK d : d = PackedBlinding(bs)
  OBVIOUS
<1>9. /\ d[0] = u[0] /\ d[1] = u[1] /\ d[2] = u[2] /\ d[3] = u[3]
      /\ d[4] = w[0] /\ d[5] = w[1] /\ d[6] = w[2] /\ d[7] = w[3] /\ d[8] = w[4]
  BY <1>5, <1>8 DEF Upto
<1> QED BY <1>6, <1>7, <1>8, <1>9

-------------------------------------------------------------------------------
\* The values of xs at t are those of P at c t.
Shifted(xs, P, c) ==
    /\ \A f \in AllFields : \A t \in F : Eval(xs[f], t) = Eval(P[f], c (.) t)
    /\ \A m \in Commits : \A t \in F : /\ Eval(xs.Qcp[m], t) = Eval(P.Qcp[m], c (.) t)
                                       /\ Eval(xs.Pi2[m], t) = Eval(P.Pi2[m], c (.) t)

\* Those of bs are those of B at c t, times cn.
ShiftedBlinds(bs, B, c, cn) ==
    \A f \in {"L", "R", "O", "Z"} : \A t \in F : Eval(bs[f], t) = cn (.) Eval(B[f], c (.) t)

\* The powers of the coset's generator.
LEMMA ShiftedPower ==
  ASSUME Instance, NEW c \in F, NEW t \in F, Power(t, s.n) = 1
  PROVE  c (.) t \in F /\ Power(c (.) t, s.n) = Power(c, s.n) /\ Power(c, s.n) \in F
<1>1. s.n \in Nat
  BY InstanceIs
<1>2. Power(c (.) t, s.n) = Power(c, s.n) (.) Power(t, s.n) /\ Power(c, s.n) \in F
  BY <1>1, PowerProduct, PowerLaws
<1> QED BY <1>2, Closed, Neutral

\* The point of row k of coset j.
LEMMA RowPoint ==
  ASSUME Instance, NEW k \in Nat, k < s.n
  PROVE  LET t == Power(s.w, k)
             u == Power(s.w, k + 1)
         IN  /\ twiddles0(k) = t /\ t \in F /\ Power(t, s.n) = 1
             /\ twiddles0(k + 1) = u /\ u \in F /\ Power(u, s.n) = 1 /\ u = s.w (.) t /\ s.w \in F
<1>1. Order(s.n) /\ s.n \in Nat \ {0} /\ s.w = Generator(s.n) /\ s.w \in F /\ Power(s.w, s.n) = 1
  BY InstanceIs, GeneratorIs, SizePositive
<1>2. k + 1 \in Nat
  OBVIOUS
<1>3. /\ Power(s.w, k) \in F /\ Power(Power(s.w, k), s.n) = 1
      /\ Power(s.w, k + 1) \in F /\ Power(Power(s.w, k + 1), s.n) = 1
  BY <1>1, <1>2, DomainPower
<1>4. Power(s.w, k + 1) = s.w (.) Power(s.w, k)
  BY <1>1, PowerLaws
<1>5. twiddles0(k) = Power(s.w, k)
  BY TwiddleType
<1>6. twiddles0(k + 1) = Power(s.w, k + 1)
  <2>1. CASE k + 1 < s.n
    BY <1>2, <2>1, TwiddleType
  <2>2. CASE ~(k + 1 < s.n)
    <3>1. PICK n \in Nat \ {0} : n = s.n /\ k + 1 = n
      BY <1>1, <2>2
    <3>2. n % n = 0
      BY ONLY n \in Nat \ {0}
    <3>3. Power(s.w, 0) = 1
      BY <1>1, PowerLaws
    <3> QED BY <1>1, <3>1, <3>2, <3>3 DEF twiddles0
  <2> QED BY <2>1, <2>2
<1> QED BY <1>1, <1>3, <1>4, <1>5, <1>6

\* lone, from c, cn and 1/n.
LEMMA RowLone ==
  ASSUME Instance, NEW c \in F \ {0}, NEW t \in F, Power(t, s.n) = 1,
         Power(c, s.n) (-) 1 # 0
  PROVE  (Power(c, s.n) (-) 1) (.) Inv(s.n) (.) Inv(c (.) t (-) 1) = Lone(c (.) t)
<1>1. Order(s.n) /\ s.n \in Nat /\ s.n \in F \ {0} /\ Generator(s.n) \in F
  BY InstanceIs, OrderIs, GeneratorIs
<1>2. PICK z \in F : z = c (.) t /\ Power(z, s.n) = Power(c, s.n) /\ Power(c, s.n) \in F
  BY ShiftedPower
<1>3. PICK cn \in F : cn = Power(c, s.n) (-) 1
  BY <1>2, ZeroOne, Closed
<1>4. Power(z, s.n) # 1
  BY <1>2, ZeroOne, Neutral
<1>5. PICK d \in F \ {0} : d = z (-) 1
  <2>1. z (-) 1 \in F
    BY ZeroOne, Closed
  <2>2. z # 1
    BY <1>1, <1>4, PowerOne
  <2> QED BY <2>1, <2>2, ZeroOne, SubZero
<1>6. Lone(z) = Power(Generator(s.n), 0) (.) (Power(z, s.n) (-) 1) (.) Inv(s.n (.) (z (-) Power(Generator(s.n), 0)))
  BY <1>4, LoneOutside DEF Lagrange
<1>7. Power(Generator(s.n), 0) = 1
  BY <1>1, PowerLaws
<1>8. Lone(z) = 1 (.) cn (.) Inv(s.n (.) d)
  BY <1>2, <1>3, <1>5, <1>6, <1>7
<1>9. PICK a \in F, b \in F : a = Inv(s.n) /\ b = Inv(d) /\ Inv(s.n (.) d) = a (.) b
  BY <1>1, NonzeroProduct, InvType
<1>10. 1 (.) cn (.) (a (.) b) = cn (.) a (.) b
  BY Neutral, Associates
<1> QED BY <1>2, <1>3, <1>5, <1>8, <1>9, <1>10

\* The evaluations of a row are the point's.
LEMMA RowEvaluations ==
  ASSUME Instance, NEW xs, Complete(xs), NEW P, Complete(P), NEW B, NEW bs,
         NEW c \in F, Shifted(xs, P, c), ShiftedBlinds(bs, B, c, Power(c, s.n) (-) 1),
         NEW k \in Nat, k < s.n, NEW beta, NEW y,
         y.L = Eval(bs.L, Power(s.w, k)), y.R = Eval(bs.R, Power(s.w, k)),
         y.O = Eval(bs.O, Power(s.w, k)), y.Z = Eval(bs.Z, Power(s.w, k)),
         y.ZS = Eval(bs.Z, Power(s.w, k + 1)), Blinders(B)
  PROVE  LET z == c (.) Power(s.w, k)
         IN  Evaluations(xs, k, beta, y)
               = Point(P, B, evaluateBlinded(P.Z, B.Z, z), evaluateBlinded(P.Z, B.Z, s.w (.) z), beta, z)
<1>1. PICK t \in F, u \in F : /\ t = Power(s.w, k) /\ twiddles0(k) = t /\ Power(t, s.n) = 1
                              /\ u = Power(s.w, k + 1) /\ twiddles0(k + 1) = u /\ Power(u, s.n) = 1
                              /\ u = s.w (.) t /\ s.w \in F
  BY RowPoint
<1>2. PICK z \in F : z = c (.) t /\ Power(z, s.n) = Power(c, s.n) /\ Power(c, s.n) \in F
  BY <1>1, ShiftedPower
<1>3. s.w (.) z = c (.) u /\ Power(c (.) u, s.n) = Power(c, s.n) /\ c (.) u \in F
  <2>1. s.w (.) (c (.) t) = c (.) (s.w (.) t)
    <3>1. s.w (.) (c (.) t) = (s.w (.) c) (.) t /\ s.w (.) c = c (.) s.w /\ (c (.) s.w) (.) t = c (.) (s.w (.) t)
      BY <1>1, Associates, Commutes
    <3> QED BY <3>1
  <2> QED BY <1>1, <1>2, <2>1, ShiftedPower
<1>4. PICK cn \in F : cn = Power(c, s.n) (-) 1
  BY <1>2, ZeroOne, Closed
<1>5. /\ B.L \in Vec(2) /\ B.R \in Vec(2) /\ B.O \in Vec(2) /\ B.Z \in Vec(3)
  BY DEF Blinders
<1>6. /\ y.L = Eval(B.L, z) (.) cn /\ y.R = Eval(B.R, z) (.) cn /\ y.O = Eval(B.O, z) (.) cn
      /\ y.Z = Eval(B.Z, z) (.) cn /\ y.ZS = Eval(B.Z, c (.) u) (.) cn
  <2>1. /\ Eval(B.L, z) \in F /\ Eval(B.R, z) \in F /\ Eval(B.O, z) \in F /\ Eval(B.Z, z) \in F
        /\ Eval(B.Z, c (.) u) \in F
    <3>1. 2 \in Nat /\ 3 \in Nat
      OBVIOUS
    <3> QED BY <1>3, <1>5, <3>1, EvalType
  <2>2. /\ y.L = cn (.) Eval(B.L, z) /\ y.R = cn (.) Eval(B.R, z) /\ y.O = cn (.) Eval(B.O, z)
        /\ y.Z = cn (.) Eval(B.Z, z) /\ y.ZS = cn (.) Eval(B.Z, c (.) u)
    BY <1>1, <1>2, <1>4 DEF ShiftedBlinds
  <2> QED BY <2>1, <2>2, Commutes
<1>7. /\ \A f \in AllFields : Eval(xs[f], t) = Eval(P[f], z)
      /\ Eval(xs.Z, u) = Eval(P.Z, c (.) u)
      /\ \A m \in Commits : Eval(xs.Qcp[m], t) = Eval(P.Qcp[m], z) /\ Eval(xs.Pi2[m], t) = Eval(P.Pi2[m], z)
  <2>1. "Z" \in AllFields
    BY DEF AllFields
  <2> QED BY <1>1, <1>2, <2>1 DEF Shifted
<1>8. /\ Eval(xs.L, t) = Eval(P.L, z) /\ Eval(xs.R, t) = Eval(P.R, z) /\ Eval(xs.O, t) = Eval(P.O, z)
      /\ Eval(xs.Z, t) = Eval(P.Z, z) /\ Eval(xs.Ql, t) = Eval(P.Ql, z) /\ Eval(xs.Qr, t) = Eval(P.Qr, z)
      /\ Eval(xs.Qm, t) = Eval(P.Qm, z) /\ Eval(xs.Qo, t) = Eval(P.Qo, z) /\ Eval(xs.Qk, t) = Eval(P.Qk, z)
      /\ Eval(xs.S1, t) = Eval(P.S1, z) /\ Eval(xs.S2, t) = Eval(P.S2, z) /\ Eval(xs.S3, t) = Eval(P.S3, z)
  BY <1>7 DEF AllFields, Selectors
<1>9. /\ [m \in DOMAIN xs.Qcp |-> Eval(xs.Qcp[m], t)] = [m \in Commits |-> Eval(P.Qcp[m], z)]
      /\ [m \in DOMAIN xs.Pi2 |-> Eval(xs.Pi2[m], t)] = [m \in Commits |-> Eval(P.Pi2[m], z)]
  <2>1. DOMAIN xs.Qcp = Commits /\ DOMAIN xs.Pi2 = Commits
    BY DEF Complete, Vectors
  <2> QED BY <1>7, <2>1
<1>10. /\ evaluateBlinded(P.L, B.L, z) = Eval(xs.L, t) (+) y.L
       /\ evaluateBlinded(P.R, B.R, z) = Eval(xs.R, t) (+) y.R
       /\ evaluateBlinded(P.O, B.O, z) = Eval(xs.O, t) (+) y.O
       /\ evaluateBlinded(P.Z, B.Z, z) = Eval(xs.Z, t) (+) y.Z
       /\ evaluateBlinded(P.Z, B.Z, c (.) u) = Eval(xs.Z, u) (+) y.ZS
  BY <1>2, <1>3, <1>4, <1>6, <1>7, <1>8 DEF evaluateBlinded
<1>11. Evaluations(xs, k, beta, y)
         = [L |-> Eval(xs.L, t) (+) y.L, R |-> Eval(xs.R, t) (+) y.R, O |-> Eval(xs.O, t) (+) y.O,
            Z |-> Eval(xs.Z, t) (+) y.Z, ZS |-> Eval(xs.Z, u) (+) y.ZS,
            Ql |-> Eval(xs.Ql, t), Qr |-> Eval(xs.Qr, t), Qm |-> Eval(xs.Qm, t),
            Qo |-> Eval(xs.Qo, t), Qk |-> Eval(xs.Qk, t), S1 |-> beta (.) Eval(xs.S1, t),
            S2 |-> beta (.) Eval(xs.S2, t), S3 |-> beta (.) Eval(xs.S3, t),
            Qcp |-> [m \in DOMAIN xs.Qcp |-> Eval(xs.Qcp[m], t)],
            Pi2 |-> [m \in DOMAIN xs.Pi2 |-> Eval(xs.Pi2[m], t)]]
  BY <1>1 DEF Evaluations
<1>12. Evaluations(xs, k, beta, y)
         = Point(P, B, evaluateBlinded(P.Z, B.Z, z), evaluateBlinded(P.Z, B.Z, c (.) u), beta, z)
  BY ONLY <1>8, <1>9, <1>10, <1>11 DEF Point
<1> QED BY <1>1, <1>2, <1>3, <1>12

\* The loop of prove.go.
LEMMA RowsAgree ==
  ASSUME Instance, NEW xs, Complete(xs), NEW P, Complete(P), NEW B, Blinders(B), NEW bs, Blinders(bs),
         NEW c \in F \ {0}, NEW cn \in F \ {0}, cn = Power(c, s.n) (-) 1,
         Shifted(xs, P, c), ShiftedBlinds(bs, B, c, cn),
         NEW k \in Nat, k < s.n, chal.alpha \in F, chal.beta \in F, chal.gamma \in F
  PROVE  /\ allConstraints(xs, bs, c, cn, k) = Num(P, B, chal, c (.) Power(s.w, k))
         /\ constraintKernel(xs, PackedBlinding(bs), PackedChallenges(c, cn), k)
              = Num(P, B, chal, c (.) Power(s.w, k))
<1>1. PICK t \in F, u \in F : /\ t = Power(s.w, k) /\ twiddles0(k) = t /\ Power(t, s.n) = 1
                              /\ u = Power(s.w, k + 1) /\ twiddles0(k + 1) = u
  BY RowPoint
<1>2. PICK z \in F : z = c (.) t /\ z = t (.) c
  BY Closed, Commutes
<1>3. PICK lone \in F : lone = Lone(z)
  BY LoneIs
<1>4. cn (.) Inv(s.n) (.) Inv(z (-) 1) = lone
  BY <1>1, <1>2, <1>3, RowLone
<1>5. PICK e : e = Point(P, B, evaluateBlinded(P.Z, B.Z, z), evaluateBlinded(P.Z, B.Z, s.w (.) z), chal.beta, z)
  OBVIOUS
<1>6. Num(P, B, chal, z) = Combined(e, z (.) chal.beta, lone, chal.alpha, chal.gamma, Root, Root (.) Root)
  BY <1>3, <1>5 DEF Num, NumAt
<1>7. ASSUME NEW y, y.L = Eval(bs.L, t), y.R = Eval(bs.R, t), y.O = Eval(bs.O, t), y.Z = Eval(bs.Z, t),
             y.ZS = Eval(bs.Z, u)
      PROVE  Evaluations(xs, k, chal.beta, y) = e
  <2>1. ShiftedBlinds(bs, B, c, Power(c, s.n) (-) 1)
    OBVIOUS
  <2>2. /\ y.L = Eval(bs.L, Power(s.w, k)) /\ y.R = Eval(bs.R, Power(s.w, k))
        /\ y.O = Eval(bs.O, Power(s.w, k)) /\ y.Z = Eval(bs.Z, Power(s.w, k))
        /\ y.ZS = Eval(bs.Z, Power(s.w, k + 1))
    BY <1>1, <1>7
  <2>3. PICK b : b = chal.beta
    OBVIOUS
  <2>4. LET zz == c (.) Power(s.w, k)
        IN  Evaluations(xs, k, b, y)
              = Point(P, B, evaluateBlinded(P.Z, B.Z, zz), evaluateBlinded(P.Z, B.Z, s.w (.) zz), b, zz)
    BY <2>1, <2>2, RowEvaluations
  <2> QED BY <1>1, <1>2, <1>5, <2>3, <2>4
<1>8. allConstraints(xs, bs, c, cn, k) = Num(P, B, chal, z)
  <2>1. PICK y : y = [L |-> Eval(bs.L, t), R |-> Eval(bs.R, t), O |-> Eval(bs.O, t),
                      Z |-> Eval(bs.Z, t), ZS |-> Eval(bs.Z, u)]
    OBVIOUS
  <2>2. Evaluations(xs, k, chal.beta, y) = e
    <3>1. /\ y.L = Eval(bs.L, t) /\ y.R = Eval(bs.R, t) /\ y.O = Eval(bs.O, t) /\ y.Z = Eval(bs.Z, t)
          /\ y.ZS = Eval(bs.Z, u)
      BY <2>1
    <3> QED BY <1>7, <3>1
  <2>3. allConstraints(xs, bs, c, cn, k)
          = Combined(Evaluations(xs, k, chal.beta, y), t (.) c (.) chal.beta,
                     cn (.) Inv(s.n) (.) Inv(c (.) t (-) 1),
                     chal.alpha, chal.gamma, Root, Root (.) Root)
    BY <1>1, <2>1 DEF allConstraints
  <2> QED BY <1>2, <1>4, <1>6, <2>2, <2>3
<1>9. constraintKernel(xs, PackedBlinding(bs), PackedChallenges(c, cn), k) = Num(P, B, chal, z)
  <2>1. PICK d, d_ch : d = PackedBlinding(bs) /\ d_ch = PackedChallenges(c, cn)
    OBVIOUS
  <2>2. /\ d_ch[0] = chal.alpha /\ d_ch[1] = chal.beta /\ d_ch[2] = chal.gamma /\ d_ch[3] = Root
        /\ d_ch[4] = Root (.) Root /\ d_ch[5] = c /\ d_ch[6] = cn /\ d_ch[7] = Inv(s.n)
    BY <2>1 DEF PackedChallenges
  <2>3. /\ d[0] = bs.L[0] /\ d[1] = bs.L[1] /\ d[2] = bs.R[0] /\ d[3] = bs.R[1]
        /\ d[4] = bs.O[0] /\ d[5] = bs.O[1] /\ d[6] = bs.Z[0] /\ d[7] = bs.Z[1] /\ d[8] = bs.Z[2]
    BY <2>1, PackedIs
  <2>4. PICK y : y = [L |-> d[0] (+) d[0 + 1] (.) t, R |-> d[2] (+) d[2 + 1] (.) t, O |-> d[4] (+) d[4 + 1] (.) t,
                      Z |-> d[6] (+) d[7] (.) t (+) d[8] (.) t (.) t,
                      ZS |-> d[6] (+) d[7] (.) u (+) d[8] (.) u (.) u]
    OBVIOUS
  <2>5. Evaluations(xs, k, chal.beta, y) = e
    <3>1. bs.L \in Vec(2) /\ bs.R \in Vec(2) /\ bs.O \in Vec(2) /\ bs.Z \in Vec(3)
      BY DEF Blinders
    <3>2. /\ Eval(bs.L, t) = bs.L[0] (+) bs.L[1] (.) t /\ Eval(bs.R, t) = bs.R[0] (+) bs.R[1] (.) t
          /\ Eval(bs.O, t) = bs.O[0] (+) bs.O[1] (.) t
      BY <3>1, EvalTwo
    <3>3. /\ Eval(bs.Z, t) = bs.Z[0] (+) bs.Z[1] (.) t (+) bs.Z[2] (.) t (.) t
          /\ Eval(bs.Z, u) = bs.Z[0] (+) bs.Z[1] (.) u (+) bs.Z[2] (.) u (.) u
      BY <3>1, EvalThree
    <3>4. 0 + 1 = 1 /\ 2 + 1 = 3 /\ 4 + 1 = 5
      OBVIOUS
    <3>5. /\ y.L = Eval(bs.L, t) /\ y.R = Eval(bs.R, t) /\ y.O = Eval(bs.O, t) /\ y.Z = Eval(bs.Z, t)
          /\ y.ZS = Eval(bs.Z, u)
      BY ONLY <2>3, <2>4, <3>2, <3>3, <3>4
    <3> QED BY <1>7, <3>5
  <2>6. constraintKernel(xs, d, d_ch, k)
          = Combined(Evaluations(xs, k, d_ch[1], y), t (.) d_ch[5] (.) d_ch[1],
                     d_ch[6] (.) d_ch[7] (.) Inv(t (.) d_ch[5] (-) 1),
                     d_ch[0], d_ch[2], d_ch[3], d_ch[4])
    BY <1>1, <2>4 DEF constraintKernel
  <2> QED BY <1>2, <1>4, <1>6, <2>1, <2>2, <2>5, <2>6
<1> QED BY <1>1, <1>2, <1>8, <1>9

-------------------------------------------------------------------------------
(* The scatter fills the large coset, and the division there is exact.     *)

\* Row k of the j-th coset and the slot r k + j of the large one.
LEMMA SlotIs ==
  ASSUME NEW n \in Nat \ {0}, NEW r \in Nat \ {0}, NEW k \in Nat, k < n, NEW j \in Nat, j < r
  PROVE  r * k + j \in Upto(n * r) /\ (r * k + j) % r = j
<1>1. PICK y \in Nat : y = r * k
  OBVIOUS
<1>2. r * k + r <= n * r
  <2>1. PICK d \in Nat : n = (k + 1) + d
    <3>1. k + 1 \in Nat /\ k + 1 <= n
      OBVIOUS
    <3> QED BY ONLY <3>1, n \in Nat, Gap
  <2>2. n * r = (r * k + r) + d * r
    BY ONLY <2>1, k \in Nat, d \in Nat, r \in Nat
  <2>3. PICK u \in Nat, t \in Nat : u = d * r /\ t = r * k
    BY ONLY d \in Nat, r \in Nat, k \in Nat
  <2> QED BY ONLY <2>2, <2>3, r \in Nat
<1>3. PICK b \in Nat : b = n * r
  BY ONLY n \in Nat, r \in Nat
<1>4. y + j < b /\ y + j \in Nat
  BY ONLY <1>1, <1>2, <1>3, j < r, j \in Nat, r \in Nat, y \in Nat
<1>5. j \in 0 .. r - 1
  OBVIOUS
<1>6. PICK x1 \in Int : x1 = r * k + j
  OBVIOUS
<1>7. x1 % r = j
  BY ONLY <1>5, <1>6, r \in Nat, r # 0, k \in Nat, ModIs
<1> QED BY ONLY <1>1, <1>3, <1>4, <1>6, <1>7, UptoIs

\* Every slot is that of one row of one coset.
LEMMA SlotOf ==
  ASSUME NEW n \in Nat \ {0}, NEW r \in Nat \ {0}, NEW q \in Upto(n * r)
  PROVE  \E k, j \in Nat : k < n /\ j < r /\ q = r * k + j
<1>1. PICK b \in Nat : b = n * r
  BY ONLY n \in Nat, r \in Nat
<1>2. q \in Nat /\ q < b
  BY ONLY <1>1, q \in Upto(n * r), UptoIs
<1>3. PICK j \in Int, k \in Int : j \in 0 .. r - 1 /\ q = r * k + j
  <2>1. q \in Int /\ r \in Nat /\ r # 0
    BY <1>2
  <2>2. q % r \in 0 .. r - 1 /\ q \div r \in Int /\ q = r * (q \div r) + (q % r)
    BY ONLY <2>1, ModRange
  <2>3. q % r \in Int
    BY ONLY <2>2, r \in Nat
  <2> QED BY ONLY <2>2, <2>3
<1>4. j \in Nat /\ j < r
  BY ONLY <1>3, r \in Nat
<1>5. k >= 0
  <2> SUFFICES ASSUME k < 0 PROVE FALSE
    OBVIOUS
  <2>1. PICK e \in Nat : k = -1 - e
    <3>1. -1 - k \in Nat /\ k = -1 - (-1 - k)
      BY k < 0
    <3> QED BY <3>1
  <2>2. r * k = -r - r * e
    BY ONLY <2>1, r \in Nat, e \in Nat, k \in Int
  <2>3. PICK u \in Nat : u = r * e
    BY ONLY r \in Nat, e \in Nat
  <2> QED BY ONLY <1>2, <1>3, <1>4, <2>2, <2>3, r \in Nat, u \in Nat
<1>6. k < n
  <2> SUFFICES ASSUME n <= k PROVE FALSE
    OBVIOUS
  <2>1. PICK d \in Nat : k = n + d
    <3>1. n \in Nat /\ k \in Nat
      BY <1>5
    <3> QED BY ONLY <3>1, n <= k, Gap
  <2>2. r * k = n * r + r * d
    BY ONLY <2>1, r \in Nat, n \in Nat, d \in Nat
  <2>3. PICK u \in Nat : u = r * d
    BY ONLY r \in Nat, d \in Nat
  <2> QED BY ONLY <1>1, <1>2, <1>3, <1>4, <2>2, <2>3, b \in Nat, u \in Nat
<1> QED BY ONLY <1>3, <1>4, <1>5, <1>6, k \in Int

\* Two slots are the same only for the same row of the same coset.
LEMMA SlotInjective ==
  ASSUME NEW n \in Nat \ {0}, NEW r \in Nat \ {0}, NEW k1 \in Nat, k1 < n, NEW j1 \in Nat, j1 < r,
         NEW k2 \in Nat, k2 < n, NEW j2 \in Nat, j2 < r, r * k1 + j1 = r * k2 + j2
  PROVE  k1 = k2 /\ j1 = j2
<1>1. (r * k1 + j1) % r = j1 /\ (r * k2 + j2) % r = j2
  BY SlotIs
<1>2. j1 = j2
  BY <1>1
<1>3. PICK y1, y2 \in Nat : y1 = r * k1 /\ y2 = r * k2 /\ y1 = y2
  BY <1>2
<1>4. r * (k1 - k2) = 0
  BY ONLY <1>3, r \in Nat, k1 \in Nat, k2 \in Nat
<1>5. PICK d \in Int : d = k1 - k2
  OBVIOUS
<1>6. d = 0
  BY ONLY <1>4, <1>5, r \in Nat \ {0}, d \in Int
<1> QED BY <1>2, <1>5, <1>6

\* Bit reversal is injective.
LEMMA ReversalInjective ==
  ASSUME NEW n \in Nat \ {0}, PowerOfTwo(n), NEW j \in Upto(n), NEW k \in Upto(n),
         BitReverse(j, n) = BitReverse(k, n)
  PROVE  j = k
BY BitReverseTwice

\* The points of the cosets are those of the large one.
LEMMA CosetPoint ==
  ASSUME Instance, NEW k \in Nat, NEW j \in Nat
  PROVE  CosetAt(j + 1, s.big) (.) Power(s.w, k) = Root (.) Power(Generator(s.big), s.rho * k + j)
<1>1. /\ Order(s.big) /\ Order(s.n) /\ s.n \in Nat \ {0} /\ s.big \in Nat \ {0} /\ s.rho \in Nat \ {0}
      /\ s.big = s.n * s.rho /\ s.w = Generator(s.n)
  BY InstanceIs, SizePositive
<1>2. PICK n \in Nat \ {0}, r \in Nat \ {0}, b \in Nat \ {0} : n = s.n /\ r = s.rho /\ b = s.big /\ b = n * r
  BY <1>1
<1>3. PICK q1 \in Nat : q1 * n = Prime - 1 /\ Generator(n) = Power(Root, q1)
  BY <1>1, <1>2, OrderIs
<1>4. PICK q2 \in Nat : q2 * b = Prime - 1 /\ Generator(b) = Power(Root, q2)
  BY <1>1, <1>2, OrderIs
<1>5. q1 = q2 * r
  <2>1. PICK y \in Nat : y = q2 * r
    OBVIOUS
  <2>2. y * n = q1 * n
    <3>1. (q2 * r) * n = q2 * (n * r)
      BY ONLY q2 \in Nat, r \in Nat, n \in Nat
    <3> QED BY <1>2, <1>3, <1>4, <2>1, <3>1
  <2>3. PICK d \in Int : d = y - q1
    OBVIOUS
  <2>4. d * n = 0
    BY ONLY <2>2, <2>3, y \in Nat, q1 \in Nat, n \in Nat
  <2>5. d = 0
    BY ONLY <2>4, d \in Int, n \in Nat \ {0}
  <2> QED BY <2>1, <2>3, <2>5
<1>6. Root \in F \ {0} /\ Generator(b) \in F
  BY <1>1, <1>2, RootIs, GeneratorIs
<1>7. Generator(n) = Power(Generator(b), r)
  BY <1>3, <1>4, <1>5, <1>6, PowerPower
<1>8. Power(s.w, k) = Power(Generator(b), r * k)
  <2>1. PICK g \in F : g = Generator(b)
    BY <1>6
  <2>2. Power(Power(g, r), k) = Power(g, r * k)
    BY PowerPower
  <2> QED BY <1>1, <1>2, <1>7, <2>1, <2>2
<1>9. CosetAt(j + 1, s.big) = Root (.) Power(Generator(b), j)
  <2>1. j + 1 # 0 /\ (j + 1) - 1 = j
    OBVIOUS
  <2> QED BY <1>2, <2>1 DEF CosetAt
<1>10. PICK e \in Nat : e = r * k
  OBVIOUS
<1>11. /\ Power(Generator(b), e) \in F /\ Power(Generator(b), j) \in F
       /\ Power(Generator(b), e + j) = Power(Generator(b), e) (.) Power(Generator(b), j)
  BY <1>6, PowerLaws
<1>12. (Root (.) Power(Generator(b), j)) (.) Power(Generator(b), e)
         = Root (.) (Power(Generator(b), e) (.) Power(Generator(b), j))
  BY <1>6, <1>11, Associates, Commutes
<1> QED BY <1>2, <1>8, <1>9, <1>10, <1>11, <1>12

\* The table of inverses is that of X^n - 1 at the slot's point.
LEMMA ZhInverse ==
  ASSUME Instance, NEW k \in Nat, k < s.n, NEW j \in Nat, j < s.rho
  PROVE  LET t == CosetAt(j + 1, s.big) (.) Power(s.w, k)
         IN  /\ t \in F /\ Power(t, s.n) (-) 1 \in F \ {0}
             /\ XnMinusOneInverse(j) = Inv(Power(t, s.n) (-) 1)
<1>1. /\ Order(s.big) /\ Order(s.n) /\ s.n \in Nat \ {0} /\ s.big \in Nat \ {0}
  BY InstanceIs, SizePositive
<1>2. PICK c \in F \ {0} : c = CosetAt(j + 1, s.big) /\ Power(c, s.n) (-) 1 \in F \ {0}
  BY ShifterIs
<1>3. Power(s.w, k) \in F /\ Power(Power(s.w, k), s.n) = 1
  BY RowPoint
<1>4. c (.) Power(s.w, k) \in F /\ Power(c (.) Power(s.w, k), s.n) = Power(c, s.n)
  BY <1>2, <1>3, ShiftedPower
<1>5. c = Root (.) Power(Generator(s.big), j)
  <2>1. j + 1 # 0 /\ (j + 1) - 1 = j
    OBVIOUS
  <2> QED BY <1>2, <2>1 DEF CosetAt
<1>6. Root \in F /\ Generator(s.big) \in F
  BY <1>1, RootIs, GeneratorIs
<1>7. Power(Generator(s.big), j) \in F
  BY <1>6, PowerLaws
<1>8. Power(c, s.n) = Power(Root, s.n) (.) Power(Power(Generator(s.big), j), s.n)
  BY <1>1, <1>5, <1>6, <1>7, PowerProduct
<1>9. Power(Power(Generator(s.big), j), s.n) = Power(Power(Generator(s.big), s.n), j)
  <2>1. PICK n \in Nat : n = s.n
    BY <1>1
  <2>2. /\ Power(Power(Generator(s.big), j), n) = Power(Generator(s.big), j * n)
        /\ Power(Power(Generator(s.big), n), j) = Power(Generator(s.big), n * j)
    BY <1>6, PowerPower
  <2>3. j * n = n * j
    BY ONLY j \in Nat, n \in Nat
  <2> QED BY <2>1, <2>2, <2>3
<1>10. XnMinusOneInverse(j) = Inv(Power(c, s.n) (-) 1)
  BY <1>8, <1>9 DEF XnMinusOneInverse
<1> QED BY <1>2, <1>4, <1>10

\* The values on the large coset, divided there by X^n - 1, are those of the
\* quotient q.
LEMMA DividedAt ==
  ASSUME Instance, NEW a \in Vec(s.big), NEW m \in Nat, NEW q \in Vec(m),
         \A j, k \in Nat : j < s.rho /\ k < s.n =>
            LET t == CosetAt(j + 1, s.big) (.) Power(s.w, k)
            IN  a[BitReverse(s.rho * k + j, s.big)] = Eval(q, t) (.) (Power(t, s.n) (-) 1),
         NEW e \in Nat, e < s.big
  PROVE  a[BitReverse(e, s.big)] (.) XnMinusOneInverse(e % s.rho)
           = Eval(q, Root (.) Power(Generator(s.big), e))
<1>1. /\ s.n \in Nat \ {0} /\ s.big \in Nat \ {0} /\ s.rho \in Nat \ {0} /\ s.big = s.n * s.rho
  BY InstanceIs, SizePositive
<1>2. PICK n \in Nat \ {0}, r \in Nat \ {0} : n = s.n /\ r = s.rho
  BY <1>1
<1>3. e \in Upto(n * r)
  BY <1>1, <1>2, UptoIs
<1>4. PICK k \in Nat, j \in Nat : k < n /\ j < r /\ e = r * k + j
  BY ONLY <1>3, n \in Nat \ {0}, r \in Nat \ {0}, SlotOf
<1>5. e % r = j
  BY ONLY <1>4, n \in Nat \ {0}, r \in Nat \ {0}, SlotIs
<1>6. PICK t : t = CosetAt(j + 1, s.big) (.) Power(s.w, k)
  OBVIOUS
<1>7. t = Root (.) Power(Generator(s.big), e)
  BY <1>2, <1>4, <1>6, CosetPoint
<1>8. a[BitReverse(e, s.big)] = Eval(q, t) (.) (Power(t, s.n) (-) 1)
  BY <1>2, <1>4, <1>6
<1>9. t \in F /\ Power(t, s.n) (-) 1 \in F \ {0} /\ XnMinusOneInverse(j) = Inv(Power(t, s.n) (-) 1)
  BY <1>2, <1>4, <1>6, ZhInverse
<1>10. PICK d \in F \ {0} : d = Power(t, s.n) (-) 1
  BY <1>9
<1>11. PICK f \in F : f = Eval(q, t)
  BY <1>9, EvalType
<1>12. (f (.) d) (.) Inv(d) = f
  <2>1. Inv(d) \in F /\ d (.) Inv(d) = 1
    BY InverseIs
  <2>2. (f (.) d) (.) Inv(d) = f (.) (d (.) Inv(d))
    BY <2>1, Associates
  <2> QED BY <2>1, <2>2, Neutral
<1> QED BY <1>2, <1>5, <1>7, <1>8, <1>9, <1>10, <1>11, <1>12

\* What divideByZH returns is the quotient.
LEMMA QuotientIs ==
  ASSUME Instance, NEW a \in Vec(s.big), NEW m \in Nat, m <= s.big, NEW q \in Vec(m),
         \A j, k \in Nat : j < s.rho /\ k < s.n =>
            LET t == CosetAt(j + 1, s.big) (.) Power(s.w, k)
            IN  a[BitReverse(s.rho * k + j, s.big)] = Eval(q, t) (.) (Power(t, s.n) (-) 1)
  PROVE  /\ \A z \in F : Eval(divideByZH(a), z) = Eval(q, z)
         /\ \A k \in Nat : m <= k /\ k < s.big => divideByZH(a)[k] = 0
<1>1. /\ Order(s.big) /\ s.n \in Nat \ {0} /\ s.big \in Nat \ {0} /\ s.rho \in Nat \ {0}
      /\ PowerOfTwo(s.big) /\ Root \in F \ {0} /\ Generator(s.big) \in F
  BY InstanceIs, SizePositive, RootIs, GeneratorIs
<1>2. PICK d \in Nat : s.big = m + d
  BY <1>1, Gap
<1>3. PICK zeros \in Vec(d) : zeros = [k \in Upto(d) |-> 0] /\ \A z \in F : Eval(zeros, z) = 0
  <2>1. [k \in Upto(d) |-> 0] \in Vec(d)
    BY ZeroOne DEF Vec
  <2> QED BY <2>1, EvalZero
<1>4. PICK p \in Vec(s.big) : /\ \A k \in Nat : m <= k /\ k < s.big => p[k] = 0
                              /\ \A z \in F : Eval(p, z) = Eval(q, z)
  <2>1. /\ Concat(q, zeros) \in Vec(s.big)
        /\ Concat(q, zeros) = [k \in Upto(m + d) |-> IF k < m THEN q[k] ELSE zeros[k - m]]
        /\ \A z \in F : Eval(Concat(q, zeros), z) = Eval(q, z) (+) (Power(z, m) (.) Eval(zeros, z))
    BY <1>2, EvalConcat
  <2>2. \A z \in F : Eval(Concat(q, zeros), z) = Eval(q, z)
    <3> TAKE z \in F
    <3>1. Eval(q, z) \in F /\ Power(z, m) \in F
      BY EvalType, PowerLaws
    <3> QED BY <1>3, <2>1, <3>1, Neutral
  <2>3. \A k \in Nat : m <= k /\ k < s.big => Concat(q, zeros)[k] = 0
    <3> SUFFICES ASSUME NEW k \in Nat, m <= k, k < s.big PROVE Concat(q, zeros)[k] = 0
      OBVIOUS
    <3>1. k \in Upto(m + d) /\ ~(k < m) /\ k - m \in Upto(d)
      BY <1>2 DEF Upto
    <3> QED BY <1>3, <2>1, <3>1
  <2> QED BY <2>1, <2>2, <2>3
<1>5. \A e \in Upto(s.big) : BitReverse(e, s.big) \in Upto(s.big) /\ BitReverse(BitReverse(e, s.big), s.big) = e
  BY <1>1, BitReverseType, BitReverseTwice
<1> DEFINE r == [k \in DOMAIN a |-> a[k] (.) XnMinusOneInverse(BitReverse(k, s.big) % s.rho)]
           v == [k \in DOMAIN r |-> r[BitReverse(k, s.big)]]
           u == [k \in Upto(s.big) |-> Eval(p, Root (.) Power(Generator(s.big), k))]
<1>6. DOMAIN a = Upto(s.big) /\ DOMAIN r = Upto(s.big) /\ DOMAIN v = Upto(s.big)
  BY DEF Vec
<1>7. v = u
  <2> SUFFICES ASSUME NEW k \in Upto(s.big) PROVE v[k] = u[k]
    BY <1>6
  <2>1. v[k] = a[BitReverse(k, s.big)] (.) XnMinusOneInverse(k % s.rho)
    BY <1>5, <1>6
  <2>2. k \in Nat /\ k < s.big
    BY <1>1, UptoIs
  <2>3. a[BitReverse(k, s.big)] (.) XnMinusOneInverse(k % s.rho)
          = Eval(q, Root (.) Power(Generator(s.big), k))
    BY <2>2, DividedAt
  <2>4. Root (.) Power(Generator(s.big), k) \in F
    BY <1>1, <2>2, PowerLaws, Closed
  <2> QED BY <1>4, <2>1, <2>3, <2>4
<1>8. divideByZH(a) = Interpolate(v, Root)
  BY DEF divideByZH
<1>9. Interpolate(u, Root) = p
  BY <1>1, InterpolateValues
<1> HIDE DEF r, v, u
<1>10. divideByZH(a) = p
  BY <1>7, <1>8, <1>9
<1> QED BY <1>4, <1>10

-------------------------------------------------------------------------------
(***************************************************************************)
(* The invariant.                                                          *)
(***************************************************************************)
\* s.x and s.bp without what is left of the coset's shift.
Plain  == IF pc = "coset" THEN RescaleAll(x, Inv(coset)) ELSE x
PlainB == IF pc = "coset" THEN [f \in DOMAIN bp |-> Rescale(bp[f], Inv(coset))] ELSE bp

\* Each coset done so far has left its values in its slots.
Scattered(P, B) ==
    \A j, k \in Nat : j < i /\ k < s.n =>
       cres[BitReverse(s.rho * k + j, s.big)] = Num(P, B, chal, CosetAt(j + 1, s.big) (.) Power(s.w, k))

\* The quotient q fits its shards and gives the numerator num at zeta.
Divided(q, zeta, num) ==
    /\ \A k \in Nat : 3 * (s.n + 2) <= k /\ k < s.big => q[k] = 0
    /\ Eval(q, zeta) (.) (Power(zeta, s.n) (-) 1) = num
    /\ Power(zeta, s.n) # 1 /\ proof.H = commitToQuotient(q)

Sound ==
    /\ pc # "done" => KeptBy(Plain)
    /\ pc \notin {"solve", "done"} => val \in Values /\ SolvedBy(Plain, val)
    /\ pc \in {"alpha", "coset", "openZ"} => RationedBy(Plain, val, chal)
    /\ pc = "coset" => Scattered(Plain, PlainB)
    /\ pc = "openZ" => Divided(h, chal.zeta, Num(x, bp, chal, chal.zeta))
    /\ pc = "linearise" => Divided(h, chal.zeta,
                             NumAt(x, bp, chal, Eval(blindedZ, chal.zeta), proof.zu, chal.zeta))
    /\ pc = "open" => Power(chal.zeta, s.n) # 1

\* No step changes s, so that what depends on it alone stays.
LEMMA Frame ==
  ASSUME s' = s, NEW P, NEW B, NEW v, NEW ch, NEW zt, NEW zs, NEW t, NEW k
  PROVE  /\ KeptBy(P)' = KeptBy(P) /\ SolvedBy(P, v)' = SolvedBy(P, v)
         /\ RationedBy(P, v, ch)' = RationedBy(P, v, ch)
         /\ Num(P, B, ch, t)' = Num(P, B, ch, t) /\ NumAt(P, B, ch, zt, zs, t)' = NumAt(P, B, ch, zt, zs, t)
         /\ commitToQuotient(P)' = commitToQuotient(P) /\ Values' = Values
<1>1. KeptBy(P)' = KeptBy(P) /\ Values' = Values
  BY DEF KeptBy, Values, Commits
<1>2. SolvedBy(P, v)' = SolvedBy(P, v)
  BY DEF SolvedBy, Wire, WireOf, QkOf, CommittedValues, Commits
<1>3. RationedBy(P, v, ch)' = RationedBy(P, v, ch)
  BY DEF RationedBy, RatioNum, RatioDen, WireOf
<1>4. NumAt(P, B, ch, zt, zs, t)' = NumAt(P, B, ch, zt, zs, t)
  BY DEF NumAt, Point, evaluateBlinded, Lone, Commits
<1>5. Num(P, B, ch, t)' = Num(P, B, ch, t)
  BY DEF Num, NumAt, Point, evaluateBlinded, Lone, Commits
<1>6. commitToQuotient(P)' = commitToQuotient(P)
  BY DEF commitToQuotient, h1, h2, h3, Topped, Shard
<1> QED BY <1>1, <1>2, <1>3, <1>4, <1>5, <1>6

\* The parts of the invariant depend on few fields.
LEMMA KeptSame ==
  ASSUME NEW P, NEW Q, KeptBy(P), \A f \in Selectors \ {"Qk"} : Q[f] = P[f], Q.Qcp = P.Qcp
  PROVE  KeptBy(Q)
BY DEF KeptBy

LEMMA SolvedSame ==
  ASSUME NEW P, NEW Q, NEW v, SolvedBy(P, v), \A f \in {"L", "R", "O", "Qk", "Pi2"} : Q[f] = P[f]
  PROVE  SolvedBy(Q, v)
BY DEF SolvedBy

LEMMA RationedSame ==
  ASSUME NEW P, NEW Q, NEW v, NEW ch, NEW dh, RationedBy(P, v, ch), Q.Z = P.Z,
         dh.beta = ch.beta, dh.gamma = ch.gamma
  PROVE  RationedBy(Q, v, dh)
BY DEF RationedBy

\* The numerator depends on the coefficients of the product only through its two
\* values, and on three of the challenges.
LEMMA NumSame ==
  ASSUME NEW P, NEW Q, NEW B, NEW ch, NEW dh, NEW zt, NEW zs, NEW t,
         \A f \in {"L", "R", "O", "Qcp", "Pi2"} \cup Selectors : Q[f] = P[f],
         dh.alpha = ch.alpha, dh.beta = ch.beta, dh.gamma = ch.gamma
  PROVE  NumAt(Q, B, dh, zt, zs, t) = NumAt(P, B, ch, zt, zs, t)
<1>1. /\ Q.L = P.L /\ Q.R = P.R /\ Q.O = P.O /\ Q.Qcp = P.Qcp /\ Q.Pi2 = P.Pi2 /\ Q.Ql = P.Ql
      /\ Q.Qr = P.Qr /\ Q.Qm = P.Qm /\ Q.Qo = P.Qo /\ Q.Qk = P.Qk /\ Q.S1 = P.S1 /\ Q.S2 = P.S2
      /\ Q.S3 = P.S3
  BY DEF Selectors
<1>2. Point(Q, B, zt, zs, ch.beta, t) = Point(P, B, zt, zs, ch.beta, t)
  BY <1>1 DEF Point
<1> QED BY <1>2 DEF NumAt

LEMMA NumChallenges ==
  ASSUME NEW P, NEW B, NEW ch, NEW dh, NEW t,
         dh.alpha = ch.alpha, dh.beta = ch.beta, dh.gamma = ch.gamma
  PROVE  Num(P, B, dh, t) = Num(P, B, ch, t)
BY DEF Num, NumAt

-------------------------------------------------------------------------------
(* Scaling every polynomial.                                               *)

\* The fields of the rescaled polynomials.
LEMMA RescaledFields ==
  ASSUME Instance, NEW xs, Complete(xs), DOMAIN xs = AllFields \cup {"Qcp", "Pi2"}, NEW c \in F
  PROVE  LET ys == RescaleAll(xs, c)
         IN  /\ DOMAIN ys = AllFields \cup {"Qcp", "Pi2"}
             /\ ys = [f \in DOMAIN ys |-> ys[f]]
             /\ \A f \in AllFields : ys[f] = Rescale(xs[f], c) /\ ys[f] \in Vec(s.n) /\ xs[f] \in Vec(s.n)
             /\ \A g \in {"Qcp", "Pi2"} :
                  /\ ys[g] = [m \in Commits |-> Rescale(xs[g][m], c)]
                  /\ \A m \in Commits : xs[g][m] \in Vec(s.n)
<1>1. PICK ys : ys = RescaleAll(xs, c)
  OBVIOUS
<1>2. /\ DOMAIN ys = AllFields \cup {"Qcp", "Pi2"} /\ ys = [f \in DOMAIN ys |-> ys[f]]
      /\ \A f \in AllFields : ys[f] = Rescale(xs[f], c)
      /\ \A g \in {"Qcp", "Pi2"} : ys[g] = [m \in DOMAIN xs[g] |-> Rescale(xs[g][m], c)]
  BY <1>1 DEF RescaleAll, AllFields, Selectors
<1>3. s.n \in Nat /\ \A p \in Vec(s.n) : Rescale(p, c) \in Vec(s.n)
  BY InstanceIs, RescaleIs
<1>4. /\ \A f \in AllFields : xs[f] \in Vec(s.n)
      /\ xs.Qcp \in [Commits -> Vec(s.n)] /\ xs.Pi2 \in [Commits -> Vec(s.n)]
  BY DEF Complete, Vectors
<1>5. \A g \in {"Qcp", "Pi2"} : DOMAIN xs[g] = Commits /\ \A m \in Commits : xs[g][m] \in Vec(s.n)
  BY <1>4
<1>6. \A g \in {"Qcp", "Pi2"} : ys[g] = [m \in Commits |-> Rescale(xs[g][m], c)]
  BY <1>2, <1>5
<1> QED BY <1>1, <1>2, <1>3, <1>4, <1>5, <1>6

\* Two shifts are one, and a shift by 1 is none.
LEMMA RescaleAllTwice ==
  ASSUME Instance, NEW xs, Complete(xs), DOMAIN xs = AllFields \cup {"Qcp", "Pi2"},
         NEW c \in F, NEW d \in F, NEW e \in F, c (.) d = e
  PROVE  RescaleAll(RescaleAll(xs, c), d) = RescaleAll(xs, e)
<1>1. PICK ys : ys = RescaleAll(xs, c)
  OBVIOUS
<1>2. PICK zs : zs = RescaleAll(ys, d)
  OBVIOUS
<1>3. PICK us : us = RescaleAll(xs, e)
  OBVIOUS
<1>4. s.n \in Nat /\ Complete(ys) /\ DOMAIN ys = AllFields \cup {"Qcp", "Pi2"}
  BY <1>1, RescaleAllIs, InstanceIs
<1>5. /\ \A f \in AllFields : ys[f] = Rescale(xs[f], c) /\ xs[f] \in Vec(s.n)
      /\ \A g \in {"Qcp", "Pi2"} : /\ ys[g] = [m \in Commits |-> Rescale(xs[g][m], c)]
                                   /\ \A m \in Commits : xs[g][m] \in Vec(s.n)
  BY <1>1, RescaledFields
<1>6. /\ DOMAIN zs = AllFields \cup {"Qcp", "Pi2"} /\ zs = [f \in DOMAIN zs |-> zs[f]]
      /\ \A f \in AllFields : zs[f] = Rescale(ys[f], d)
      /\ \A g \in {"Qcp", "Pi2"} : zs[g] = [m \in Commits |-> Rescale(ys[g][m], d)]
  BY <1>2, <1>4, RescaledFields
<1>7. /\ DOMAIN us = AllFields \cup {"Qcp", "Pi2"} /\ us = [f \in DOMAIN us |-> us[f]]
      /\ \A f \in AllFields : us[f] = Rescale(xs[f], e)
      /\ \A g \in {"Qcp", "Pi2"} : us[g] = [m \in Commits |-> Rescale(xs[g][m], e)]
  BY <1>3, RescaledFields
<1>8. \A p \in Vec(s.n) : Rescale(Rescale(p, c), d) = Rescale(p, e)
  BY <1>4, Reshift
<1>9. \A f \in AllFields : zs[f] = us[f]
  BY <1>5, <1>6, <1>7, <1>8
<1>10. \A g \in {"Qcp", "Pi2"} : zs[g] = us[g]
  <2> SUFFICES ASSUME NEW g \in {"Qcp", "Pi2"} PROVE zs[g] = us[g]
    OBVIOUS
  <2>1. \A m \in Commits : Rescale(ys[g][m], d) = Rescale(xs[g][m], e)
    BY <1>5, <1>8
  <2> QED BY <1>6, <1>7, <2>1
<1>11. zs = us
  BY <1>6, <1>7, <1>9, <1>10
<1> QED BY <1>1, <1>2, <1>3, <1>11

LEMMA RescaleAllOne ==
  ASSUME Instance, NEW xs, Complete(xs), DOMAIN xs = AllFields \cup {"Qcp", "Pi2"}
  PROVE  \A f \in AllFields \cup {"Qcp", "Pi2"} : RescaleAll(xs, 1)[f] = xs[f]
<1>1. PICK c \in F : c = 1
  BY ZeroOne
<1>2. PICK ys : ys = RescaleAll(xs, c)
  OBVIOUS
<1>3. s.n \in Nat /\ xs.Qcp \in [Commits -> Vec(s.n)] /\ xs.Pi2 \in [Commits -> Vec(s.n)]
  BY InstanceIs DEF Complete, Vectors
<1>4. /\ \A f \in AllFields : ys[f] = Rescale(xs[f], c) /\ xs[f] \in Vec(s.n)
      /\ \A g \in {"Qcp", "Pi2"} : ys[g] = [m \in Commits |-> Rescale(xs[g][m], c)]
  BY <1>2, RescaledFields
<1>5. \A p \in Vec(s.n) : Rescale(p, c) = p
  BY <1>1, <1>3, RescaleOne
<1>6. \A f \in AllFields : ys[f] = xs[f]
  BY <1>4, <1>5
<1>7. ys.Qcp = xs.Qcp /\ ys.Pi2 = xs.Pi2
  <2>1. \A m \in Commits : Rescale(xs.Qcp[m], c) = xs.Qcp[m] /\ Rescale(xs.Pi2[m], c) = xs.Pi2[m]
    BY <1>3, <1>5
  <2> QED BY <1>3, <1>4, <2>1
<1> QED BY <1>1, <1>2, <1>6, <1>7

\* What is scaled by a is the shift by c of what is scaled by b, when a is b c.
LEMMA RescaledShift ==
  ASSUME Instance, NEW xs, Complete(xs), DOMAIN xs = AllFields \cup {"Qcp", "Pi2"},
         NEW a \in F, NEW b \in F, NEW c \in F, b (.) c = a
  PROVE  Shifted(RescaleAll(xs, a), RescaleAll(xs, b), c)
<1>1. PICK ys, zs : ys = RescaleAll(xs, a) /\ zs = RescaleAll(xs, b)
  OBVIOUS
<1>2. s.n \in Nat
  BY InstanceIs
<1>3. /\ \A f \in AllFields : ys[f] = Rescale(xs[f], a) /\ xs[f] \in Vec(s.n)
      /\ \A g \in {"Qcp", "Pi2"} : /\ ys[g] = [m \in Commits |-> Rescale(xs[g][m], a)]
                                   /\ \A m \in Commits : xs[g][m] \in Vec(s.n)
  BY <1>1, RescaledFields
<1>4. /\ \A f \in AllFields : zs[f] = Rescale(xs[f], b)
      /\ \A g \in {"Qcp", "Pi2"} : zs[g] = [m \in Commits |-> Rescale(xs[g][m], b)]
  BY <1>1, RescaledFields
<1>5. \A p \in Vec(s.n) : \A t \in F : Eval(Rescale(p, a), t) = Eval(Rescale(p, b), c (.) t)
  <2> TAKE p \in Vec(s.n)
  <2> TAKE t \in F
  <2>1. c (.) t \in F /\ b (.) (c (.) t) = a (.) t
    BY Closed, Associates
  <2>2. Eval(Rescale(p, a), t) = Eval(p, a (.) t)
    BY <1>2, EvalRescale
  <2>3. Eval(Rescale(p, b), c (.) t) = Eval(p, b (.) (c (.) t))
    BY <1>2, <2>1, EvalRescale
  <2> QED BY <2>1, <2>2, <2>3
<1>6. \A f \in AllFields : \A t \in F : Eval(ys[f], t) = Eval(zs[f], c (.) t)
  BY <1>3, <1>4, <1>5
<1>7. \A m \in Commits : \A t \in F : /\ Eval(ys.Qcp[m], t) = Eval(zs.Qcp[m], c (.) t)
                                      /\ Eval(ys.Pi2[m], t) = Eval(zs.Pi2[m], c (.) t)
  <2> SUFFICES ASSUME NEW m \in Commits, NEW t \in F
               PROVE  /\ Eval(ys.Qcp[m], t) = Eval(zs.Qcp[m], c (.) t)
                      /\ Eval(ys.Pi2[m], t) = Eval(zs.Pi2[m], c (.) t)
    OBVIOUS
  <2>1. /\ ys.Qcp[m] = Rescale(xs.Qcp[m], a) /\ zs.Qcp[m] = Rescale(xs.Qcp[m], b) /\ xs.Qcp[m] \in Vec(s.n)
        /\ ys.Pi2[m] = Rescale(xs.Pi2[m], a) /\ zs.Pi2[m] = Rescale(xs.Pi2[m], b) /\ xs.Pi2[m] \in Vec(s.n)
    BY <1>3, <1>4
  <2> QED BY <1>5, <2>1
<1> QED BY <1>1, <1>6, <1>7 DEF Shifted

\* The same of a blinding, which is multiplied by q too.
LEMMA BlindShift ==
  ASSUME NEW m \in Nat, NEW p \in Vec(m), NEW a \in F, NEW b \in F, NEW c \in F, b (.) c = a,
         NEW q \in F, NEW y, y = [k \in DOMAIN p |-> p[k] (.) q (.) Power(a, k)], NEW t \in F
  PROVE  Eval(y, t) = q (.) Eval(Rescale(p, b), c (.) t)
<1>1. PICK u : u = [k \in Upto(m) |-> q (.) p[k]]
  OBVIOUS
<1>2. DOMAIN p = Upto(m) /\ \A k \in Upto(m) : k \in Nat /\ p[k] \in F
  BY UptoIs DEF Vec
<1>3. a (.) t \in F /\ c (.) t \in F /\ b (.) (c (.) t) = a (.) t
  BY Closed, Associates
<1>4. u \in Vec(m) /\ Eval(u, a (.) t) = q (.) Eval(p, a (.) t)
  BY <1>1, <1>3, EvalScale
<1>5. y = Rescale(u, a)
  <2>1. Rescale(u, a) = [k \in Upto(m) |-> u[k] (.) Power(a, k)]
    BY <1>4, RescaleIs
  <2>2. \A k \in Upto(m) : p[k] (.) q (.) Power(a, k) = u[k] (.) Power(a, k)
    BY <1>1, <1>2, Commutes
  <2> QED BY <1>2, <2>1, <2>2
<1>6. Eval(y, t) = Eval(u, a (.) t)
  BY <1>4, <1>5, EvalRescale
<1>7. Eval(Rescale(p, b), c (.) t) = Eval(p, b (.) (c (.) t))
  BY <1>3, EvalRescale
<1> QED BY <1>3, <1>4, <1>6, <1>7

-------------------------------------------------------------------------------
(***************************************************************************)
(* The steps.                                                              *)
(***************************************************************************)
LEMMA InitSound == Init => Sound
<1> SUFFICES ASSUME Init PROVE Sound
  OBVIOUS
<1>1. pc = "solve" /\ x = s.trace
  BY DEF Init
<1> QED BY <1>1 DEF Sound, Plain, KeptBy, Late

\* Solve leaves a witness.
LEMMA SolveSound ==
  ASSUME IInv, Sound, Solve
  PROVE  Sound'
<1>1. pc = "solve" /\ pc' = "ratio" /\ s' = s
  BY DEF Solve
<1>2. /\ Instance /\ DOMAIN x = TraceFields /\ KeptBy(x)
  BY <1>1 DEF IInv, Typed, FieldsOK, FieldsAt, Sound, Plain
<1>3. PICK r \in Randomizers, v \in Values :
         /\ val' = v
         /\ LET wl  == [k \in Upto(s.n) |-> WireOf(v, k, "l")]
                wr  == [k \in Upto(s.n) |-> WireOf(v, k, "r")]
                wo  == [k \in Upto(s.n) |-> WireOf(v, k, "o")]
                pi2 == [m \in Commits |-> CommittedValues(m, wl, r[1], r[2])]
            IN  x' = [f \in DOMAIN x \cup {"L", "R", "O", "Pi2"} |->
                         CASE f = "L" -> Poly(wl) [] f = "R" -> Poly(wr)
                           [] f = "O" -> Poly(wo) [] f = "Qk" -> Poly(QkOf(v))
                           [] f = "Pi2" -> [m \in DOMAIN pi2 |-> Poly(pi2[m])]
                           [] OTHER -> x[f]]
  BY DEF Solve, WireOf, QkOf, Values, Commits
<1>4. PICK pi2 : pi2 = [m \in Commits |-> CommittedValues(m, Wire(v, "l"), r[1], r[2])]
  OBVIOUS
<1>5. x' = [f \in DOMAIN x \cup {"L", "R", "O", "Pi2"} |->
              CASE f = "L" -> Poly(Wire(v, "l")) [] f = "R" -> Poly(Wire(v, "r"))
                [] f = "O" -> Poly(Wire(v, "o")) [] f = "Qk" -> Poly(QkOf(v))
                [] f = "Pi2" -> [m \in DOMAIN pi2 |-> Poly(pi2[m])]
                [] OTHER -> x[f]]
  BY <1>3, <1>4 DEF Wire
<1>6. PICK Q : Q = x'
  OBVIOUS
<1>7. /\ Q.L = Poly(Wire(v, "l")) /\ Q.R = Poly(Wire(v, "r")) /\ Q.O = Poly(Wire(v, "o"))
      /\ Q.Qk = Poly(QkOf(v)) /\ Q.Pi2 = [m \in DOMAIN pi2 |-> Poly(pi2[m])] /\ Q.Qcp = x.Qcp
      /\ \A f \in Selectors \ {"Qk"} : Q[f] = x[f]
  BY <1>2, <1>5, <1>6 DEF TraceFields, Selectors
<1>8. KeptBy(Q)
  BY <1>2, <1>7 DEF KeptBy
<1>9. SolvedBy(Q, v)
  <2>1. \A m \in Commits : Q.Pi2[m] = Poly(CommittedValues(m, Wire(v, "l"), r[1], r[2]))
    BY <1>4, <1>7
  <2> QED BY <1>7, <2>1 DEF SolvedBy
<1>10. KeptBy(Q)' /\ SolvedBy(Q, v)' /\ v \in Values'
  BY <1>1, <1>8, <1>9, Frame
<1> QED BY <1>1, <1>3, <1>6, <1>10 DEF Sound, Plain

\* BuildRatio leaves a running product that goes round.
LEMMA BuildRatioSound ==
  ASSUME IInv, Sound, BuildRatio
  PROVE  Sound'
<1>1. pc = "ratio" /\ pc' = "alpha" /\ s' = s /\ val' = val
  BY DEF BuildRatio
<1>2. /\ Instance /\ FieldsOK(x, "ratio", s.n, Commits) /\ KeptBy(x) /\ val \in Values /\ SolvedBy(x, val)
  BY <1>1 DEF IInv, Typed, Sound, Plain
<1>3. /\ DOMAIN x = TraceFields \cup {"L", "R", "O", "Pi2"}
      /\ x.L \in Vec(s.n) /\ x.R \in Vec(s.n) /\ x.O \in Vec(s.n)
  BY <1>2, FieldsAre DEF FieldsOK, FieldsAt, Single
<1>4. RatioInputs
  <2>1. s.trace.S1 \in Vec(s.n) /\ s.trace.S2 \in Vec(s.n) /\ s.trace.S3 \in Vec(s.n)
    BY <1>2, InstanceIs, TraceType DEF Selectors
  <2> QED BY <1>3, <2>1 DEF RatioInputs
<1>5. PICK gb \in GammaBetas :
         /\ \A k \in Upto(s.n - 1) : Denominator(k, gb[2], gb[1]) # 0
         /\ chal' = [gamma |-> gb[1], beta |-> gb[2]]
         /\ x' = [f \in DOMAIN x \cup {"Z"} |->
                    IF f = "Z" THEN Poly(CopyRatio(gb[2], gb[1])) ELSE x[f]]
  BY DEF BuildRatio
<1>6. PICK beta \in F, gamma \in F : beta = gb[2] /\ gamma = gb[1]
  BY ValuesAssumption
<1>7. PICK v \in Values : v = val
  BY <1>2
<1>8. x.L = Poly(Wire(v, "l")) /\ x.R = Poly(Wire(v, "r")) /\ x.O = Poly(Wire(v, "o"))
  BY <1>2, <1>7 DEF SolvedBy
<1>9. \A k \in Upto(s.n - 1) : Denominator(k, beta, gamma) # 0
  BY <1>5, <1>6
<1>10. PICK Z : Z = Poly(CopyRatio(beta, gamma))
  OBVIOUS
<1>11. /\ Eval(Z, Power(s.w, 0)) = 1
       /\ \A k \in Nat : k < s.n =>
            Eval(Z, Power(s.w, k + 1)) (.) RatioDen(v, k, beta, gamma)
              = Eval(Z, Power(s.w, k)) (.) RatioNum(v, k, beta, gamma)
  BY <1>2, <1>4, <1>8, <1>9, <1>10, RatioRationed
<1>12. PICK Q, ch : Q = x' /\ ch = chal'
  OBVIOUS
<1>13. /\ Q.Z = Z /\ ch.beta = beta /\ ch.gamma = gamma
       /\ \A f \in TraceFields \cup {"L", "R", "O", "Pi2"} : Q[f] = x[f]
  BY <1>3, <1>5, <1>6, <1>10, <1>12 DEF TraceFields, Selectors
<1>14. RationedBy(Q, v, ch)
  BY <1>11, <1>13 DEF RationedBy
<1>15. KeptBy(Q) /\ SolvedBy(Q, v)
  BY <1>2, <1>7, <1>13 DEF KeptBy, SolvedBy, TraceFields, Selectors
<1>16. KeptBy(Q)' /\ SolvedBy(Q, v)' /\ v \in Values' /\ RationedBy(Q, v, ch)'
  BY <1>1, <1>14, <1>15, Frame
<1> QED BY <1>1, <1>7, <1>12, <1>16 DEF Sound, Plain

\* No coset is done yet.
LEMMA StartQuotientSound ==
  ASSUME IInv, Sound, StartQuotient
  PROVE  Sound'
<1>1. /\ pc = "alpha" /\ pc' = "coset" /\ s' = s /\ i' = i /\ x' = x /\ bp' = bp /\ coset' = coset
      /\ val' = val
  BY DEF StartQuotient
<1>2. /\ Instance /\ Complete(x) /\ DOMAIN x = AllFields \cup {"Qcp", "Pi2"} /\ i = 0 /\ coset = 1
      /\ KeptBy(x) /\ val \in Values /\ SolvedBy(x, val) /\ RationedBy(x, val, chal)
  BY <1>1, CompleteIs DEF IInv, Typed, CosetAt, Stages, Sound, Plain
<1>3. \E alpha : chal' = [gamma |-> chal.gamma, beta |-> chal.beta, alpha |-> alpha]
  BY DEF StartQuotient
<1>4. PICK P, v, Q, ch, dh : P = x /\ v = val /\ Q = RescaleAll(x, 1) /\ ch = chal /\ dh = chal'
  OBVIOUS
<1>5. \A f \in AllFields \cup {"Qcp", "Pi2"} : Q[f] = P[f]
  BY <1>2, <1>4, RescaleAllOne
<1>6. KeptBy(Q)
  BY <1>2, <1>4, <1>5, KeptSame DEF AllFields
<1>7. SolvedBy(Q, v)
  BY <1>2, <1>4, <1>5, SolvedSame DEF AllFields, Selectors
<1>8. RationedBy(Q, v, dh)
  <2>1. Q.Z = P.Z /\ dh.beta = ch.beta /\ dh.gamma = ch.gamma
    BY <1>3, <1>4, <1>5 DEF AllFields
  <2> QED BY <1>2, <1>4, <2>1, RationedSame
<1>9. KeptBy(Q)' /\ SolvedBy(Q, v)' /\ v \in Values' /\ RationedBy(Q, v, dh)'
  BY <1>1, <1>2, <1>4, <1>6, <1>7, <1>8, Frame
<1>10. Plain' = Q
  BY <1>1, <1>2, <1>4, InvOne DEF Plain
<1>11. Scattered(Plain, PlainB)'
  <2>1. i' = 0
    BY <1>1, <1>2
  <2> QED BY <2>1 DEF Scattered
<1> QED BY <1>1, <1>4, <1>9, <1>10, <1>11 DEF Sound

-------------------------------------------------------------------------------
(* A coset.                                                                *)

\* The polynomials without their shift are the same after the loop's rescaling by c
\* as before it.
LEMMA PlainKept ==
  ASSUME Instance, Complete(x), DOMAIN x = AllFields \cup {"Qcp", "Pi2"}, Blinders(bp),
         NEW c \in F \ {0}, coset \in F \ {0}
  PROVE  /\ RescaleAll(RescaleAll(x, c), Inv(coset (.) c)) = RescaleAll(x, Inv(coset))
         /\ \A f \in DOMAIN bp :
              Rescale(Rescale(bp[f], c), Inv(coset (.) c)) = Rescale(bp[f], Inv(coset))
<1>1. PICK d \in F, e \in F : d = Inv(coset (.) c) /\ e = Inv(coset) /\ c (.) d = e
  <2>1. /\ Inv(coset (.) c) = Inv(coset) (.) Inv(c) /\ Inv(coset) \in F /\ Inv(c) \in F
        /\ c (.) Inv(c) = 1
    BY NonzeroProduct, InverseIs
  <2>2. PICK a \in F, b \in F : /\ a = Inv(coset) /\ b = Inv(c) /\ c (.) b = 1
                                /\ Inv(coset (.) c) = a (.) b
    BY <2>1
  <2>3. c (.) (a (.) b) = a /\ a (.) b \in F
    <3>1. a (.) b = b (.) a /\ c (.) (b (.) a) = (c (.) b) (.) a /\ 1 (.) a = a /\ a (.) b \in F
      BY Commutes, Associates, Neutral, Closed
    <3> QED BY <2>2, <3>1
  <2> QED BY <2>2, <2>3
<1>2. RescaleAll(RescaleAll(x, c), d) = RescaleAll(x, e)
  BY <1>1, RescaleAllTwice
<1>3. \A f \in DOMAIN bp : Rescale(Rescale(bp[f], c), d) = Rescale(bp[f], e)
  <2>1. /\ DOMAIN bp = {"L", "R", "O", "Z"}
        /\ bp.L \in Vec(2) /\ bp.R \in Vec(2) /\ bp.O \in Vec(2) /\ bp.Z \in Vec(3)
    BY DEF Blinders
  <2>2. /\ \A p \in Vec(2) : Rescale(Rescale(p, c), d) = Rescale(p, e)
        /\ \A p \in Vec(3) : Rescale(Rescale(p, c), d) = Rescale(p, e)
    BY <1>1, Reshift
  <2> QED BY <2>1, <2>2
<1> QED BY <1>1, <1>2, <1>3

\* The rows buf of coset e scattered over a: its own slots, and no other.
Scatter(a, buf, e) ==
    [q \in DOMAIN a |->
        IF \E k \in Upto(s.n) : BitReverse(s.rho * k + e, s.big) = q
        THEN buf[CHOOSE k \in Upto(s.n) : BitReverse(s.rho * k + e, s.big) = q] ELSE a[q]]

\* What an iteration leaves in the slots.
LEMMA SlotsWritten ==
  ASSUME Instance, NEW a \in Vec(s.big), NEW buf, NEW e \in Nat, e < s.rho, NEW b,
         b = Scatter(a, buf, e)
  PROVE  \A k \in Nat : k < s.n =>
            /\ b[BitReverse(s.rho * k + e, s.big)] = buf[k]
            /\ \A j \in Nat : j < e => b[BitReverse(s.rho * k + j, s.big)] = a[BitReverse(s.rho * k + j, s.big)]
<1>1. PICK n \in Nat \ {0}, r \in Nat \ {0}, g \in Nat \ {0} :
         n = s.n /\ r = s.rho /\ g = s.big /\ g = n * r /\ PowerOfTwo(g)
  BY InstanceIs, SizePositive
<1>2. e < r /\ DOMAIN a = Upto(g)
  BY <1>1 DEF Vec
<1>3. ASSUME NEW k \in Nat, k < n, NEW j \in Nat, j < r
      PROVE  r * k + j \in Upto(g) /\ BitReverse(r * k + j, g) \in Upto(g)
  <2>1. r * k + j \in Upto(g)
    BY <1>1, <1>3, SlotIs
  <2> QED BY <1>1, <2>1, BitReverseType
<1>4. ASSUME NEW k \in Nat, k < n, NEW j \in Nat, j < r, NEW k2 \in Nat, k2 < n, NEW j2 \in Nat, j2 < r,
             BitReverse(r * k + j, g) = BitReverse(r * k2 + j2, g)
      PROVE  k = k2 /\ j = j2
  <2>1. PICK q1 \in Upto(g), q2 \in Upto(g) : q1 = r * k + j /\ q2 = r * k2 + j2
    BY <1>3, <1>4
  <2>2. q1 = q2
    BY <1>1, <1>4, <2>1, ReversalInjective
  <2>3. r * k + j = r * k2 + j2
    BY ONLY <2>1, <2>2
  <2> QED BY ONLY <1>4, <2>3, n \in Nat \ {0}, r \in Nat \ {0}, SlotInjective
<1>5. \A k : k \in Upto(n) <=> k \in Nat /\ k < n
  BY UptoIs
<1>6. b = [q \in Upto(g) |->
             IF \E k \in Upto(n) : BitReverse(r * k + e, g) = q
             THEN buf[CHOOSE k \in Upto(n) : BitReverse(r * k + e, g) = q] ELSE a[q]]
  BY <1>1, <1>2 DEF Scatter
<1>7. ASSUME NEW k \in Nat, k < n
      PROVE  b[BitReverse(r * k + e, g)] = buf[k]
  <2>1. PICK q \in Upto(g) : q = BitReverse(r * k + e, g)
    BY <1>2, <1>3, <1>7
  <2>2. \E k2 \in Upto(n) : BitReverse(r * k2 + e, g) = q
    BY <1>5, <1>7, <2>1
  <2>3. BitReverse(r * (CHOOSE k2 \in Upto(n) : BitReverse(r * k2 + e, g) = q) + e, g) = q
        /\ (CHOOSE k2 \in Upto(n) : BitReverse(r * k2 + e, g) = q) \in Upto(n)
    BY <2>2
  <2>4. PICK t \in Upto(n) : t = (CHOOSE k2 \in Upto(n) : BitReverse(r * k2 + e, g) = q)
                             /\ BitReverse(r * t + e, g) = q
    BY <2>3
  <2>5. t = k
    BY <1>2, <1>4, <1>5, <1>7, <2>1, <2>4
  <2>6. b[q] = buf[CHOOSE k2 \in Upto(n) : BitReverse(r * k2 + e, g) = q]
    BY ONLY <1>6, <2>2, q \in Upto(g)
  <2>7. b[q] = buf[t]
    BY ONLY <2>4, <2>6
  <2> QED BY ONLY <2>1, <2>5, <2>7
<1>8. ASSUME NEW k \in Nat, k < n, NEW j \in Nat, j < e
      PROVE  b[BitReverse(r * k + j, g)] = a[BitReverse(r * k + j, g)]
  <2>1. j < r /\ j # e
    BY <1>2, <1>8
  <2>2. PICK q \in Upto(g) : q = BitReverse(r * k + j, g)
    BY <1>3, <1>8, <2>1
  <2>3. ~ \E k2 \in Upto(n) : BitReverse(r * k2 + e, g) = q
    BY <1>2, <1>4, <1>5, <1>8, <2>1, <2>2
  <2> QED BY <1>6, <2>2, <2>3
<1>9. \A k \in Nat : k < n =>
        /\ b[BitReverse(r * k + e, g)] = buf[k]
        /\ \A j \in Nat : j < e => b[BitReverse(r * k + j, g)] = a[BitReverse(r * k + j, g)]
  BY ONLY <1>7, <1>8
<1> QED BY ONLY <1>1, <1>9

-------------------------------------------------------------------------------
\* What a coset starts from: bs are the blindings it uses, cb those it leaves, and
\* buf the rows, which are the numerator's values at its points.
LEMMA CosetRows ==
  ASSUME Instance, Complete(x), DOMAIN x = AllFields \cup {"Qcp", "Pi2"}, Blinders(bp),
         ChallengesIn(chal), NEW j \in Nat, j < s.rho, coset = CosetAt(j, s.big),
         NEW c, c = coset (.) Shifter(j), NEW cn, cn = Power(c, s.n) (-) 1,
         NEW P, P = RescaleAll(x, Inv(coset)),
         NEW B, B = [f \in DOMAIN bp |-> Rescale(bp[f], Inv(coset))],
         NEW xs, xs = RescaleAll(x, Shifter(j)),
         NEW bs, bs = [f \in DOMAIN bp |->
                         [k \in DOMAIN bp[f] |-> bp[f][k] (.) cn (.) Power(Shifter(j), k)]],
         NEW k \in Nat, k < s.n
  PROVE  /\ allConstraints(xs, bs, c, cn, k)
              = Num(P, B, chal, CosetAt(j + 1, s.big) (.) Power(s.w, k))
         /\ constraintKernel(xs, PackedBlinding(bs), PackedChallenges(c, cn), k)
              = Num(P, B, chal, CosetAt(j + 1, s.big) (.) Power(s.w, k))
<1>1. PICK sh \in F \ {0} : sh = Shifter(j)
  BY ShifterIs
<1>2. /\ coset \in F \ {0} /\ c \in F \ {0} /\ cn \in F \ {0} /\ c = CosetAt(j + 1, s.big)
      /\ c = coset (.) sh /\ s.n \in Nat
  BY <1>1, ShifterIs, InstanceIs
<1>3. PICK e \in F : e = Inv(coset) /\ e (.) c = sh
  <2>1. Inv(coset) \in F /\ Inv(coset) (.) coset = 1
    BY <1>2, InverseIs
  <2>2. Inv(coset) (.) (coset (.) sh) = (Inv(coset) (.) coset) (.) sh
    BY <1>2, <2>1, Associates
  <2> QED BY <1>2, <2>1, <2>2, Neutral
<1>4. Complete(P) /\ Complete(xs)
  BY <1>1, <1>3, RescaleAllIs
<1>5. Shifted(xs, P, c)
  BY <1>1, <1>2, <1>3, RescaledShift
<1>6. /\ DOMAIN bp = {"L", "R", "O", "Z"}
      /\ bp.L \in Vec(2) /\ bp.R \in Vec(2) /\ bp.O \in Vec(2) /\ bp.Z \in Vec(3)
  BY DEF Blinders
<1>7. ASSUME NEW f \in DOMAIN bp, NEW m \in Nat, bp[f] \in Vec(m)
      PROVE  /\ bs[f] \in Vec(m) /\ B[f] \in Vec(m)
             /\ \A t \in F : Eval(bs[f], t) = cn (.) Eval(B[f], c (.) t)
  <2>1. PICK y : y = [k1 \in DOMAIN bp[f] |-> bp[f][k1] (.) cn (.) Power(sh, k1)]
    OBVIOUS
  <2>2. bs[f] = y /\ B[f] = Rescale(bp[f], e)
    BY <1>1, <1>3, <2>1
  <2>3. y \in Vec(m)
    <3>1. PICK p \in Vec(m) : p = bp[f]
      BY <1>7
    <3>2. y = [k1 \in DOMAIN p |-> p[k1] (.) cn (.) Power(sh, k1)]
      BY <2>1, <3>1
    <3>3. cn \in F \ {0} /\ sh \in F
      BY <1>2
    <3>4. y \in Vec(m) /\ [k1 \in DOMAIN y |-> y[k1] (.) Inv(cn)] = Rescale(p, sh)
      BY ONLY <3>2, <3>3, p \in Vec(m), m \in Nat, BlindsScaled
    <3> QED BY <3>4
  <2>4. Rescale(bp[f], e) \in Vec(m)
    BY <1>7, RescaleIs
  <2>5. ASSUME NEW t \in F
        PROVE  Eval(y, t) = cn (.) Eval(Rescale(bp[f], e), c (.) t)
    <3>1. PICK p \in Vec(m) : p = bp[f]
      BY <1>7
    <3>2. y = [k1 \in DOMAIN p |-> p[k1] (.) cn (.) Power(sh, k1)]
      BY <2>1, <3>1
    <3>3. cn \in F /\ c \in F
      BY <1>2
    <3>4. Eval(y, t) = cn (.) Eval(Rescale(p, e), c (.) t)
      BY ONLY <1>3, <3>2, <3>3, sh \in F \ {0}, p \in Vec(m), m \in Nat, e \in F, t \in F, BlindShift
    <3> QED BY <3>1, <3>4
  <2> QED BY <2>2, <2>3, <2>4, <2>5
<1>8. /\ bs.L \in Vec(2) /\ bs.R \in Vec(2) /\ bs.O \in Vec(2) /\ bs.Z \in Vec(3)
      /\ B.L \in Vec(2) /\ B.R \in Vec(2) /\ B.O \in Vec(2) /\ B.Z \in Vec(3)
  BY <1>6, <1>7
<1>9. Blinders(bs) /\ Blinders(B)
  BY <1>6, <1>8 DEF Blinders
<1>10. ShiftedBlinds(bs, B, c, cn)
  <2>1. \A f \in {"L", "R", "O"} : \A t \in F : Eval(bs[f], t) = cn (.) Eval(B[f], c (.) t)
    BY <1>6, <1>7
  <2>2. \A t \in F : Eval(bs.Z, t) = cn (.) Eval(B.Z, c (.) t)
    BY <1>6, <1>7
  <2> QED BY <2>1, <2>2 DEF ShiftedBlinds
<1> QED BY <1>2, <1>4, <1>5, <1>9, <1>10, RowsAgree DEF ChallengesIn

\* One coset more is scattered, with the shift taken into account.
LEMMA CosetSound ==
  ASSUME IInv, Sound, Coset
  PROVE  Sound'
<1>1. /\ pc = "coset" /\ pc' = "coset" /\ i < s.rho /\ i' = i + 1 /\ s' = s /\ chal' = chal
      /\ val' = val
  BY DEF Coset
<1>2. /\ Instance /\ Blinders(bp) /\ Complete(x) /\ DOMAIN x = AllFields \cup {"Qcp", "Pi2"}
      /\ i \in Nat /\ coset = CosetAt(i, s.big) /\ cres \in Vec(s.big) /\ ChallengesIn(chal)
  BY <1>1, CompleteIs DEF IInv, Typed, Stages, ChallengesOK, Late, ChallengesIn
<1>3. PICK j \in Nat : j = i /\ j < s.rho
  BY <1>1, <1>2
<1>4. PICK c, sh, cn, xs, bs :
         /\ c = coset (.) Shifter(j) /\ sh = Shifter(j) /\ cn = Power(c, s.n) (-) 1
         /\ xs = RescaleAll(x, sh)
         /\ bs = [f \in DOMAIN bp |-> [k \in DOMAIN bp[f] |-> bp[f][k] (.) cn (.) Power(sh, k)]]
  OBVIOUS
<1>5. PICK buf, at :
         /\ buf = [k \in Upto(s.n) |->
                     IF s.gpu THEN constraintKernel(xs, PackedBlinding(bs), PackedChallenges(c, cn), k)
                              ELSE allConstraints(xs, bs, c, cn, k)]
         /\ at = [k \in Upto(s.n) |-> BitReverse(s.rho * k + j, s.big)]
  OBVIOUS
<1>6. /\ coset' = c /\ x' = xs
      /\ bp' = [f \in DOMAIN bs |-> [k \in DOMAIN bs[f] |-> bs[f][k] (.) Inv(cn)]]
      /\ cres' = [q \in DOMAIN cres |->
                    IF \E k \in DOMAIN at : at[k] = q
                    THEN buf[CHOOSE k \in DOMAIN at : at[k] = q] ELSE cres[q]]
  BY <1>3, <1>4, <1>5 DEF Coset
<1>7. /\ sh \in F \ {0} /\ coset \in F \ {0} /\ c \in F \ {0} /\ cn \in F \ {0} /\ c = coset (.) sh
  BY <1>2, <1>3, <1>4, ShifterIs
<1>8. PICK P, B, v, ch, a :
         /\ P = RescaleAll(x, Inv(coset)) /\ B = [f \in DOMAIN bp |-> Rescale(bp[f], Inv(coset))]
         /\ v = val /\ ch = chal /\ a = cres
  OBVIOUS
<1>9. Plain = P /\ PlainB = B
  BY <1>1, <1>8 DEF Plain, PlainB
<1>10. Plain' = P
  <2>1. RescaleAll(xs, Inv(c)) = P
    BY <1>2, <1>4, <1>7, <1>8, PlainKept
  <2> QED BY <1>1, <1>6, <2>1 DEF Plain
<1>11. PlainB' = B
  <2>1. /\ DOMAIN bp = {"L", "R", "O", "Z"} /\ DOMAIN bs = DOMAIN bp
        /\ bp.L \in Vec(2) /\ bp.R \in Vec(2) /\ bp.O \in Vec(2) /\ bp.Z \in Vec(3)
    BY <1>2, <1>4 DEF Blinders
  <2>2. ASSUME NEW f \in DOMAIN bp
        PROVE  [k \in DOMAIN bs[f] |-> bs[f][k] (.) Inv(cn)] = Rescale(bp[f], sh)
    <3>1. PICK m \in Nat : bp[f] \in Vec(m)
      BY <2>1
    <3>2. PICK y : y = [k \in DOMAIN bp[f] |-> bp[f][k] (.) cn (.) Power(sh, k)]
      OBVIOUS
    <3>3. [k \in DOMAIN y |-> y[k] (.) Inv(cn)] = Rescale(bp[f], sh)
      BY <1>7, <3>1, <3>2, BlindsScaled
    <3>4. bs[f] = y
      BY <1>4, <3>2
    <3> QED BY <3>3, <3>4
  <2>3. bp' = [f \in DOMAIN bp |-> Rescale(bp[f], sh)]
    BY <1>6, <2>1, <2>2
  <2>4. \A f \in DOMAIN bp : Rescale(Rescale(bp[f], sh), Inv(c)) = Rescale(bp[f], Inv(coset))
    BY <1>2, <1>7, PlainKept
  <2>5. [f \in DOMAIN bp' |-> Rescale(bp'[f], Inv(c))] = B
    BY <1>8, <2>3, <2>4
  <2> QED BY <1>1, <1>6, <2>5 DEF PlainB
<1>12. \A k \in Nat : k < s.n => buf[k] = Num(P, B, ch, CosetAt(j + 1, s.big) (.) Power(s.w, k))
  <2> SUFFICES ASSUME NEW k \in Nat, k < s.n
               PROVE  buf[k] = Num(P, B, ch, CosetAt(j + 1, s.big) (.) Power(s.w, k))
    OBVIOUS
  <2>1. /\ allConstraints(xs, bs, c, cn, k) = Num(P, B, ch, CosetAt(j + 1, s.big) (.) Power(s.w, k))
        /\ constraintKernel(xs, PackedBlinding(bs), PackedChallenges(c, cn), k)
             = Num(P, B, ch, CosetAt(j + 1, s.big) (.) Power(s.w, k))
    BY <1>2, <1>3, <1>4, <1>8, CosetRows
  <2>2. k \in Upto(s.n)
    BY <1>2, InstanceIs, UptoIs
  <2> QED BY <1>5, <2>1, <2>2
<1>13. PICK b : b = cres'
  OBVIOUS
<1>14. \A k \in Nat : k < s.n =>
          /\ b[BitReverse(s.rho * k + j, s.big)] = buf[k]
          /\ \A e \in Nat : e < j =>
               b[BitReverse(s.rho * k + e, s.big)] = a[BitReverse(s.rho * k + e, s.big)]
  <2>1. b = Scatter(a, buf, j)
    <3>1. DOMAIN at = Upto(s.n) /\ \A k \in Upto(s.n) : at[k] = BitReverse(s.rho * k + j, s.big)
      BY <1>5
    <3>2. ASSUME NEW q
          PROVE  /\ (\E k \in DOMAIN at : at[k] = q)
                      = (\E k \in Upto(s.n) : BitReverse(s.rho * k + j, s.big) = q)
                 /\ (CHOOSE k \in DOMAIN at : at[k] = q)
                      = (CHOOSE k \in Upto(s.n) : BitReverse(s.rho * k + j, s.big) = q)
      BY <3>1
    <3> QED BY <1>6, <1>8, <1>13, <3>2 DEF Scatter
  <2>2. a \in Vec(s.big) /\ Instance
    BY <1>2, <1>8
  <2> QED BY ONLY <1>3, <2>1, <2>2, j \in Nat, SlotsWritten
<1>15. \A e, k \in Nat : e < j + 1 /\ k < s.n =>
          b[BitReverse(s.rho * k + e, s.big)] = Num(P, B, ch, CosetAt(e + 1, s.big) (.) Power(s.w, k))
  <2> SUFFICES ASSUME NEW e \in Nat, NEW k \in Nat, e < j + 1, k < s.n
               PROVE  b[BitReverse(s.rho * k + e, s.big)]
                        = Num(P, B, ch, CosetAt(e + 1, s.big) (.) Power(s.w, k))
    OBVIOUS
  <2>1. CASE e = j
    BY <1>12, <1>14, <2>1
  <2>2. CASE e < j
    <3>1. b[BitReverse(s.rho * k + e, s.big)] = a[BitReverse(s.rho * k + e, s.big)]
      BY <1>14, <2>2
    <3>2. Scattered(P, B)
      BY <1>1, <1>9 DEF Sound
    <3> QED BY <1>3, <1>8, <2>2, <3>1, <3>2 DEF Scattered
  <2> QED BY <2>1, <2>2
<1>16. Scattered(P, B)'
  <2>1. \A e, k \in Nat : e < i' /\ k < s.n =>
          cres'[BitReverse(s.rho * k + e, s.big)] = Num(P, B, chal, CosetAt(e + 1, s.big) (.) Power(s.w, k))
    BY <1>1, <1>3, <1>8, <1>13, <1>15
  <2>2. \A t : Num(P, B, chal, t)' = Num(P, B, chal, t)
    BY <1>1, <1>8, Frame
  <2> QED BY <1>1, <2>1, <2>2 DEF Scattered
<1>17. KeptBy(P) /\ v \in Values /\ SolvedBy(P, v) /\ RationedBy(P, v, ch)
  BY <1>1, <1>8, <1>9 DEF Sound
<1>18. KeptBy(P)' /\ v \in Values' /\ SolvedBy(P, v)' /\ RationedBy(P, v, ch)'
  BY <1>1, <1>17, Frame
<1> QED BY <1>1, <1>8, <1>10, <1>11, <1>16, <1>18 DEF Sound

\* The division is exact and its result fits.
LEMMA FinishQuotientSound ==
  ASSUME IInv, Sound, FinishQuotient
  PROVE  Sound'
<1>1. /\ pc = "coset" /\ pc' = "openZ" /\ i = s.rho /\ s' = s /\ val' = val
      /\ x' = RescaleAll(x, Unshift) /\ bp' = [f \in DOMAIN bp |-> Rescale(bp[f], Unshift)]
      /\ h' = divideByZH(cres) /\ proof' = [proof EXCEPT !.H = commitToQuotient(h')]
  BY DEF FinishQuotient
<1>2. /\ Instance /\ Blinders(bp) /\ Complete(x) /\ DOMAIN x = AllFields \cup {"Qcp", "Pi2"}
      /\ coset = CosetAt(i, s.big) /\ cres \in Vec(s.big) /\ ChallengesIn(chal)
      /\ DOMAIN proof = {"bsb", "LRO", "Z", "H", "zu"} /\ DOMAIN chal = {"gamma", "beta", "alpha"}
  BY <1>1, CompleteIs DEF IInv, Typed, Stages, ChallengesOK, Late, ChallengesIn
<1>3. PICK n \in Nat \ {0}, r \in Nat \ {0}, g \in Nat \ {0} :
         n = s.n /\ r = s.rho /\ g = s.big /\ 3 * (n + 2) <= g
  BY <1>2, InstanceIs, SizePositive
<1>4. Unshift = Inv(coset) /\ Inv(coset) \in F
  <2>1. coset \in F \ {0}
    BY <1>1, <1>2, <1>3, CosetNonzero
  <2> QED BY <1>1, <1>2, <2>1, UnshiftIs, InverseIs
<1>5. PICK zeta \in F \ {0} : /\ Power(zeta, s.n) # 1
                              /\ chal' = [f \in DOMAIN chal \cup {"zeta"} |->
                                            IF f = "zeta" THEN zeta ELSE chal[f]]
  BY ValuesAssumption DEF FinishQuotient
<1>6. PICK P, B, v, ch, dh, q :
         P = x' /\ B = bp' /\ v = val /\ ch = chal /\ dh = chal' /\ q = h'
  OBVIOUS
<1>7. /\ dh.alpha = ch.alpha /\ dh.beta = ch.beta /\ dh.gamma = ch.gamma /\ dh.zeta = zeta
  BY <1>2, <1>5, <1>6
<1>8. Plain = P /\ PlainB = B /\ Plain' = P
  BY <1>1, <1>4, <1>6 DEF Plain, PlainB
<1>9. Complete(P) /\ Blinders(B)
  <2>1. Complete(P)
    BY <1>1, <1>2, <1>4, <1>6, RescaleAllIs
  <2>2. /\ DOMAIN bp = {"L", "R", "O", "Z"}
        /\ bp.L \in Vec(2) /\ bp.R \in Vec(2) /\ bp.O \in Vec(2) /\ bp.Z \in Vec(3)
    BY <1>2 DEF Blinders
  <2>3. /\ \A p \in Vec(2) : Rescale(p, Unshift) \in Vec(2)
        /\ \A p \in Vec(3) : Rescale(p, Unshift) \in Vec(3)
    BY <1>4, RescaleIs
  <2>4. Blinders(B)
    BY <1>1, <1>6, <2>2, <2>3 DEF Blinders
  <2> QED BY <2>1, <2>4
<1>10. KeptBy(P) /\ v \in Values /\ SolvedBy(P, v) /\ RationedBy(P, v, ch) /\ Scattered(P, B)
  BY <1>1, <1>6, <1>8 DEF Sound
<1>11. PICK m \in Nat : m = 3 * (n + 2) /\ m = 3 * (s.n + 2) /\ m <= s.big
  BY <1>3
<1>12. PICK y \in Vec(m) : \A z \in F : Num(P, B, ch, z) = Eval(y, z) (.) (Power(z, s.n) (-) 1)
  BY <1>2, <1>6, <1>9, <1>10, <1>11, QuotientExists
<1>13. \A j, k \in Nat : j < s.rho /\ k < s.n =>
          LET t == CosetAt(j + 1, s.big) (.) Power(s.w, k)
          IN  cres[BitReverse(s.rho * k + j, s.big)] = Eval(y, t) (.) (Power(t, s.n) (-) 1)
  <2> SUFFICES ASSUME NEW j \in Nat, NEW k \in Nat, j < s.rho, k < s.n, NEW t,
                      t = CosetAt(j + 1, s.big) (.) Power(s.w, k)
               PROVE  cres[BitReverse(s.rho * k + j, s.big)] = Eval(y, t) (.) (Power(t, s.n) (-) 1)
    OBVIOUS
  <2>1. t \in F
    BY <1>2, ZhInverse
  <2>2. cres[BitReverse(s.rho * k + j, s.big)] = Num(P, B, ch, t)
    BY <1>1, <1>6, <1>10 DEF Scattered
  <2> QED BY <1>12, <2>1, <2>2
<1>14. /\ \A z \in F : Eval(q, z) = Eval(y, z)
       /\ \A k \in Nat : m <= k /\ k < s.big => q[k] = 0
  BY <1>1, <1>2, <1>6, <1>11, <1>13, QuotientIs
<1>15. Eval(q, zeta) (.) (Power(zeta, s.n) (-) 1) = Num(P, B, dh, zeta)
  <2>1. Num(P, B, dh, zeta) = Num(P, B, ch, zeta)
    BY <1>7, NumChallenges
  <2> QED BY <1>12, <1>14, <2>1
<1>16. Divided(q, dh.zeta, Num(P, B, dh, dh.zeta))'
  <2>1. \A k \in Nat : 3 * (s.n + 2) <= k /\ k < s.big => q[k] = 0
    BY <1>11, <1>14
  <2>2. Num(P, B, dh, zeta)' = Num(P, B, dh, zeta) /\ commitToQuotient(q)' = commitToQuotient(q)
    BY <1>1, Frame
  <2>3. proof'.H = commitToQuotient(q)
    BY <1>1, <1>2, <1>6
  <2>4. PICK num : num = Num(P, B, dh, zeta)
    OBVIOUS
  <2>5. Divided(q, zeta, num)'
    BY <1>1, <1>5, <1>15, <2>1, <2>2, <2>3, <2>4 DEF Divided
  <2> QED BY <1>7, <2>2, <2>4, <2>5
<1>17. RationedBy(P, v, dh)
  BY <1>7, <1>10, RationedSame
<1>18. KeptBy(P)' /\ v \in Values' /\ SolvedBy(P, v)' /\ RationedBy(P, v, dh)'
  BY <1>1, <1>10, <1>17, Frame
<1> QED BY <1>1, <1>6, <1>8, <1>16, <1>18 DEF Sound, Plain

-------------------------------------------------------------------------------

\* The blinded Z has at zeta and at w zeta the values in the numerator.
LEMMA OpenZSound ==
  ASSUME IInv, Sound, openZ
  PROVE  Sound'
<1>1. /\ pc = "openZ" /\ pc' = "linearise" /\ s' = s /\ bp' = bp /\ chal' = chal /\ val' = val
      /\ h' = h /\ blindedZ' = getBlindedCoefficients(x.Z, bp.Z)
      /\ x' = Overwritten(x, "Z", blindedZ')
      /\ proof' = [proof EXCEPT !.zu = Eval(blindedZ', chal.zeta (.) s.w)]
  BY DEF openZ
<1>2. /\ Instance /\ Complete(x) /\ DOMAIN x = AllFields \cup {"Qcp", "Pi2"}
      /\ Blinders(bp) /\ DOMAIN proof = {"bsb", "LRO", "Z", "H", "zu"} /\ chal.zeta \in F
      /\ s.n \in Nat /\ s.w \in F
  BY <1>1, CompleteIs, InstanceIs, GeneratorIs DEF IInv, Typed, Stages, ChallengesOK, Late
<1>3. x.Z \in Vec(s.n) /\ bp.Z \in Vec(3)
  BY <1>2 DEF Complete, Blinders, AllFields
<1>4. PICK b, Q : b = blindedZ' /\ Q = x'
  OBVIOUS
<1>5. b \in Vec(s.n + 3) /\ \A z \in F : Eval(b, z) = evaluateBlinded(x.Z, bp.Z, z)
  BY <1>1, <1>2, <1>3, <1>4, EvalBlinded DEF evaluateBlinded
<1>6. Keeps(Q, x, "Z")
  BY <1>1, <1>2, <1>4, <1>5, OverwrittenIs
<1>7. \A f \in {"L", "R", "O", "Qcp", "Pi2"} \cup Selectors : Q[f] = x[f]
  BY <1>6 DEF Keeps, AllFields, Selectors
<1>8. PICK v, B, ch, q, zeta : v = val /\ B = bp /\ ch = chal /\ q = h /\ zeta = chal.zeta
  OBVIOUS
<1>9. proof'.H = proof.H /\ proof'.zu = Eval(b, zeta (.) s.w)
  BY <1>1, <1>2, <1>4, <1>8
<1>10. PICK zt, zs : zt = Eval(b, zeta) /\ zs = Eval(b, zeta (.) s.w)
  OBVIOUS
<1>11. Num(x, B, ch, zeta) = NumAt(Q, B, ch, zt, zs, zeta)
  <2>1. zt = evaluateBlinded(x.Z, B.Z, zeta) /\ zs = evaluateBlinded(x.Z, B.Z, s.w (.) zeta)
    <3>1. zeta (.) s.w \in F /\ zeta (.) s.w = s.w (.) zeta
      BY <1>2, <1>8, Commutes, Closed
    <3> QED BY <1>2, <1>5, <1>8, <1>10, <3>1
  <2>2. NumAt(Q, B, ch, zt, zs, zeta) = NumAt(x, B, ch, zt, zs, zeta)
    BY <1>7, NumSame
  <2> QED BY <2>1, <2>2 DEF Num
<1>12. Divided(q, zeta, NumAt(Q, B, ch, zt, zs, zeta))'
  <2>1. Divided(q, zeta, NumAt(Q, B, ch, zt, zs, zeta))
    BY <1>1, <1>8, <1>11 DEF Sound
  <2>2. /\ NumAt(Q, B, ch, zt, zs, zeta)' = NumAt(Q, B, ch, zt, zs, zeta)
        /\ commitToQuotient(q)' = commitToQuotient(q)
    BY <1>1, Frame
  <2>3. PICK num : num = NumAt(Q, B, ch, zt, zs, zeta)
    OBVIOUS
  <2>4. Divided(q, zeta, num)'
    BY <1>1, <1>9, <2>1, <2>2, <2>3 DEF Divided
  <2> QED BY <2>2, <2>3, <2>4
<1>13. KeptBy(Q) /\ v \in Values /\ SolvedBy(Q, v)
  <2>1. KeptBy(x) /\ v \in Values /\ SolvedBy(x, v)
    BY <1>1, <1>8 DEF Sound, Plain
  <2> QED BY <1>7, <2>1, KeptSame, SolvedSame DEF Selectors
<1>14. KeptBy(Q)' /\ v \in Values' /\ SolvedBy(Q, v)'
  BY <1>1, <1>13, Frame
<1>15. zt = Eval(blindedZ', chal'.zeta) /\ zs = proof'.zu
  BY <1>1, <1>4, <1>8, <1>9, <1>10
<1> QED BY <1>1, <1>4, <1>8, <1>12, <1>14, <1>15 DEF Sound, Plain

\* Only x.Z is overwritten.
LEMMA LinearizeSound ==
  ASSUME IInv, Sound, computeLinearizedPolynomial
  PROVE  Sound'
<1>1. /\ pc = "linearise" /\ pc' = "open" /\ s' = s /\ chal' = chal /\ val' = val
      /\ x' = Overwritten(x, "Z", blindedZ')
  BY DEF computeLinearizedPolynomial
<1>2. Instance /\ Complete(x) /\ DOMAIN x = AllFields \cup {"Qcp", "Pi2"}
  BY <1>1, CompleteIs DEF IInv, Typed, Stages
<1>3. PICK b, Q : b = blindedZ' /\ Q = x'
  OBVIOUS
<1>4. b \in Vec(s.n + 3)
  <2>1. IInv'
    BY LinearizeStep
  <2> QED BY <1>1, <1>3, <2>1 DEF IInv, Typed, Opening
<1>5. Keeps(Q, x, "Z")
  BY <1>1, <1>2, <1>3, <1>4, OverwrittenIs
<1>6. \A f \in {"L", "R", "O", "Qcp", "Pi2"} \cup Selectors : Q[f] = x[f]
  BY <1>5 DEF Keeps, AllFields, Selectors
<1>7. PICK v : v = val
  OBVIOUS
<1>8. KeptBy(Q) /\ v \in Values /\ SolvedBy(Q, v) /\ Power(chal.zeta, s.n) # 1
  <2>1. KeptBy(x) /\ v \in Values /\ SolvedBy(x, v)
    BY <1>1, <1>7 DEF Sound, Plain
  <2>2. Power(chal.zeta, s.n) # 1
    BY <1>1 DEF Sound, Divided
  <2> QED BY <1>6, <2>1, <2>2, KeptSame, SolvedSame DEF Selectors
<1>9. KeptBy(Q)' /\ v \in Values' /\ SolvedBy(Q, v)'
  BY <1>1, <1>8, Frame
<1> QED BY <1>1, <1>3, <1>7, <1>8, <1>9 DEF Sound, Plain

\* Stuttering steps.
LEMMA StutterSound ==
  ASSUME Sound, UNCHANGED vars
  PROVE  Sound'
<1>1. /\ pc' = pc /\ s' = s /\ x' = x /\ bp' = bp /\ val' = val /\ chal' = chal /\ proof' = proof
      /\ i' = i /\ coset' = coset /\ cres' = cres /\ h' = h /\ blindedZ' = blindedZ
  BY DEF vars
<1>2. PICK P, B, v, ch, q, b, zs : /\ P = Plain /\ B = PlainB /\ v = val /\ ch = chal /\ q = h
                                   /\ b = blindedZ /\ zs = proof.zu
  OBVIOUS
<1>3. Plain' = P /\ PlainB' = B
  BY <1>1, <1>2 DEF Plain, PlainB
<1>4. pc # "done" => KeptBy(P)'
  BY <1>1, <1>2, Frame DEF Sound
<1>5. pc \notin {"solve", "done"} => v \in Values' /\ SolvedBy(P, v)'
  BY <1>1, <1>2, Frame DEF Sound
<1>6. pc \in {"alpha", "coset", "openZ"} => RationedBy(P, v, ch)'
  BY <1>1, <1>2, Frame DEF Sound
<1>7. ASSUME pc = "coset" PROVE Scattered(P, B)'
  <2>1. Scattered(P, B)
    BY <1>2, <1>7 DEF Sound
  <2>2. \A t : Num(P, B, chal, t)' = Num(P, B, chal, t)
    BY <1>1, <1>2, Frame
  <2> QED BY <1>1, <2>1, <2>2 DEF Scattered
<1>8. \A num : Divided(q, ch.zeta, num) => Divided(q, ch.zeta, num)'
  <2>1. commitToQuotient(q)' = commitToQuotient(q)
    BY <1>1, Frame
  <2> QED BY <1>1, <2>1 DEF Divided
<1>9. ASSUME pc = "openZ" PROVE Divided(h, chal.zeta, Num(x, bp, chal, chal.zeta))'
  <2>1. P = x /\ B = bp
    BY <1>2, <1>9 DEF Plain, PlainB
  <2>2. PICK num : num = Num(P, B, ch, ch.zeta)
    OBVIOUS
  <2>3. num = Num(P, B, ch, ch.zeta)'
    BY <1>1, <2>2, Frame
  <2>4. Divided(q, ch.zeta, num)'
    BY <1>2, <1>8, <1>9, <2>1, <2>2 DEF Sound
  <2> QED BY <1>1, <1>2, <2>1, <2>3, <2>4
<1>10. ASSUME pc = "linearise"
       PROVE  Divided(h, chal.zeta, NumAt(x, bp, chal, Eval(blindedZ, chal.zeta), proof.zu, chal.zeta))'
  <2>1. P = x /\ B = bp
    BY <1>2, <1>10 DEF Plain, PlainB
  <2>2. PICK num : num = NumAt(P, B, ch, Eval(b, ch.zeta), zs, ch.zeta)
    OBVIOUS
  <2>3. num = NumAt(P, B, ch, Eval(b, ch.zeta), zs, ch.zeta)'
    BY <1>1, <2>2, Frame
  <2>4. Divided(q, ch.zeta, num)'
    BY <1>2, <1>8, <1>10, <2>1, <2>2 DEF Sound
  <2> QED BY <1>1, <1>2, <2>1, <2>3, <2>4
<1>11. pc = "open" => (Power(chal.zeta, s.n) # 1)'
  BY <1>1 DEF Sound
<1> QED BY <1>1, <1>2, <1>3, <1>4, <1>5, <1>6, <1>7, <1>9, <1>10, <1>11 DEF Sound

\* The invariant is inductive, and holds.
LEMMA NextSound == IInv /\ Sound /\ [Next]_vars => Sound'
<1> SUFFICES ASSUME IInv, Sound, [Next]_vars PROVE Sound'
  OBVIOUS
<1>1. CASE Solve
  BY <1>1, SolveSound
<1>2. CASE BuildRatio
  BY <1>2, BuildRatioSound
<1>3. CASE StartQuotient
  BY <1>3, StartQuotientSound
<1>4. CASE Coset
  BY <1>4, CosetSound
<1>5. CASE FinishQuotient
  BY <1>5, FinishQuotientSound
<1>6. CASE openZ
  BY <1>6, OpenZSound
<1>7. CASE computeLinearizedPolynomial
  BY <1>7, LinearizeSound
<1>8. CASE batchOpening
  BY <1>8 DEF batchOpening, Sound
<1>9. CASE UNCHANGED vars
  BY <1>9, StutterSound
<1> QED BY <1>1, <1>2, <1>3, <1>4, <1>5, <1>6, <1>7, <1>8, <1>9 DEF Next

LEMMA SoundInvariant == Spec => [](IInv /\ Sound)
<1>1. Init => IInv /\ Sound
  BY InitIInv, InitSound
<1>2. (IInv /\ Sound) /\ [Next]_vars => (IInv /\ Sound)'
  BY NextIInv, NextSound
<1> QED BY <1>1, <1>2, PTL DEF Spec

\* It gives the property.
LEMMA FitsImplies == IInv /\ Sound => QuotientFits
<1> SUFFICES ASSUME IInv, Sound PROVE QuotientFits
  OBVIOUS
<1>1. PICK n \in Nat, g \in Nat, b \in Nat : n = s.n /\ g = s.big /\ b = 3 * (n + 2) /\ b <= g
  BY InstanceIs DEF IInv, Typed
<1>2. ASSUME pc = "openZ", NEW k \in b .. g - 1 PROVE h[k] = 0
  <2>1. k \in Nat /\ b <= k /\ k < g
    BY <1>1
  <2> QED BY <1>1, <1>2, <2>1 DEF Sound, Divided
<1>3. g >= b
  BY <1>1
<1> QED BY <1>1, <1>2, <1>3 DEF QuotientFits

\* For every circuit that the compiler and the solver can leave: when computeQuotient
\* has divided, no coefficient is above the three shards, so that commitToQuotient
\* and innerComputeLinearizedPoly lose nothing by cutting h there.
THEOREM QuotientFitsThm == Spec => []QuotientFits
BY SoundInvariant, FitsImplies, PTL

-------------------------------------------------------------------------------
(***************************************************************************)
(* The linearised polynomial at a point.                                   *)
(***************************************************************************)
\* Vectors of length n, term by term.
SumOf(p, q, n) == [k \in Upto(n) |-> p[k] (+) q[k]]
LessOf(p, q, n) == [k \in Upto(n) |-> p[k] (-) q[k]]
TimesOf(p, c, n) == [k \in Upto(n) |-> p[k] (.) c]
Padded(p, n) == [k \in Upto(n) |-> At(p, k)]

\* Their values.
LEMMA EvalSum ==
  \A n \in Nat : \A p, q \in Vec(n), t \in F :
     SumOf(p, q, n) \in Vec(n) /\ Eval(SumOf(p, q, n), t) = Eval(p, t) (+) Eval(q, t)
<1> TAKE n \in Nat
<1> TAKE p, q \in Vec(n), t \in F
<1>1. PICK v : v = SumOf(p, q, n)
  OBVIOUS
<1>2. \A k \in Upto(n) : p[k] \in F /\ q[k] \in F
  BY DEF Vec
<1>3. DOMAIN v = Upto(n) /\ \A k \in Upto(n) : v[k] = p[k] (+) q[k]
  BY <1>1 DEF SumOf
<1>4. v \in Vec(n)
  BY <1>1, <1>2, Closed DEF SumOf, Vec
<1>5. PICK d : d = [k \in Upto(n) |-> v[k] (-) q[k]]
  OBVIOUS
<1>6. Eval(d, t) = Eval(v, t) (-) Eval(q, t)
  BY <1>4, <1>5, EvalSub
<1>7. \A k \in Upto(n) : v[k] (-) q[k] = p[k]
  BY <1>2, <1>3, Subtracts
<1>8. p = [k \in Upto(n) |-> p[k]]
  BY VecIs
<1>9. d = p
  BY <1>5, <1>7, <1>8
<1>10. Eval(v, t) \in F /\ Eval(q, t) \in F /\ Eval(p, t) \in F
  BY <1>4, EvalType
<1>11. Eval(v, t) = Eval(p, t) (+) Eval(q, t)
  BY <1>6, <1>9, <1>10, Subtracts
<1> QED BY <1>1, <1>4, <1>11

LEMMA EvalLess ==
  \A n \in Nat : \A p, q \in Vec(n), t \in F :
     LessOf(p, q, n) \in Vec(n) /\ Eval(LessOf(p, q, n), t) = Eval(p, t) (-) Eval(q, t)
BY EvalSub DEF LessOf

LEMMA EvalTimes ==
  \A n \in Nat : \A p \in Vec(n), c, t \in F :
     TimesOf(p, c, n) \in Vec(n) /\ Eval(TimesOf(p, c, n), t) = Eval(p, t) (.) c
<1> TAKE n \in Nat
<1> TAKE p \in Vec(n), c, t \in F
<1>1. \A k \in Upto(n) : p[k] \in F
  BY DEF Vec
<1>2. TimesOf(p, c, n) = [k \in Upto(n) |-> c (.) p[k]]
  BY <1>1, Commutes DEF TimesOf
<1>3. /\ [k \in Upto(n) |-> c (.) p[k]] \in Vec(n)
      /\ Eval([k \in Upto(n) |-> c (.) p[k]], t) = c (.) Eval(p, t)
  BY EvalScale
<1>4. Eval(p, t) \in F
  BY EvalType
<1> QED BY <1>2, <1>3, <1>4, Commutes

\* Zeros behind a polynomial do not change its values.
LEMMA EvalPadded ==
  \A n, d \in Nat : \A p \in Vec(n), t \in F :
     Padded(p, n + d) \in Vec(n + d) /\ Eval(Padded(p, n + d), t) = Eval(p, t)
<1> TAKE n, d \in Nat
<1> TAKE p \in Vec(n), t \in F
<1>1. PICK o : o = [k \in Upto(d) |-> 0]
  OBVIOUS
<1>2. o \in Vec(d) /\ Eval(o, t) = 0 /\ \A k \in Upto(d) : o[k] = 0
  BY <1>1, ZeroOne, EvalZero DEF Vec
<1>3. /\ Concat(p, o) \in Vec(n + d)
      /\ Concat(p, o) = [k \in Upto(n + d) |-> IF k < n THEN p[k] ELSE o[k - n]]
      /\ Eval(Concat(p, o), t) = Eval(p, t) (+) (Power(t, n) (.) Eval(o, t))
  BY <1>2, EvalConcat
<1>4. Power(t, n) \in F /\ Eval(p, t) \in F /\ Size(p) = n
  BY PowerLaws, EvalType, VecIs
<1>5. Eval(Concat(p, o), t) = Eval(p, t)
  BY <1>2, <1>3, <1>4, Neutral
<1>6. \A k \in Upto(n + d) : (IF k < n THEN p[k] ELSE o[k - n]) = At(p, k)
  <2> TAKE k \in Upto(n + d)
  <2>1. k \in Nat /\ k < n + d
    BY UptoIs
  <2>2. ASSUME ~(k < n) PROVE o[k - n] = 0
    <3>1. k - n \in Nat /\ k - n < d
      BY <2>1, <2>2
    <3>2. k - n \in Upto(d)
      BY <3>1, UptoIs
    <3> QED BY <1>2, <3>2
  <2> QED BY <1>4, <2>2 DEF At
<1>7. Concat(p, o) = Padded(p, n + d)
  BY <1>3, <1>6 DEF Padded
<1> QED BY <1>3, <1>5, <1>7

\* The BSB22 terms together.
LEMMA EvalBsb ==
  ASSUME Instance, Complete(x), NEW m \in Nat, Commits = Upto(m), NEW qz \in Vec(m), NEW t \in F
  PROVE  /\ [k \in Upto(s.n) |-> Bsb(k, qz)] \in Vec(s.n)
         /\ [j \in Upto(m) |-> Eval(x.Pi2[j], t) (.) qz[j]] \in Vec(m)
         /\ Eval([k \in Upto(s.n) |-> Bsb(k, qz)], t)
              = Total([j \in Upto(m) |-> Eval(x.Pi2[j], t) (.) qz[j]])
<1>1. PICK n \in Nat : n = s.n
  BY InstanceIs
<1>2. PICK ps : ps = x.Pi2
  OBVIOUS
<1>3. ps \in [Upto(m) -> Vec(n)] /\ DOMAIN ps = Upto(m)
  BY <1>1, <1>2 DEF Complete, Vectors
<1>4. /\ \A j \in Upto(m) : ps[j] \in Vec(n) /\ qz[j] \in F
      /\ \A j \in Upto(m), k \in Upto(n) : ps[j][k] \in F
      /\ \A k \in Upto(n) : Power(t, k) \in F
  BY <1>3, UptoIs, PowerLaws DEF Vec
<1>5. PICK a : a = [jk \in Upto(m) \X Upto(n) |-> (ps[jk[1]][jk[2]] (.) qz[jk[1]]) (.) Power(t, jk[2])]
  OBVIOUS
<1>6. a \in [Upto(m) \X Upto(n) -> F]
  BY <1>4, <1>5, Closed
<1>7. \A j \in Upto(m), k \in Upto(n) : a[<<j, k>>] = (ps[j][k] (.) qz[j]) (.) Power(t, k)
  BY <1>5
<1>8. PICK b : b = [k \in Upto(n) |-> Bsb(k, qz)]
  OBVIOUS
<1>9. ASSUME NEW k \in Upto(n)
      PROVE  b[k] \in F /\ Power(t, k) (.) b[k] = Total([j \in Upto(m) |-> a[<<j, k>>]])
  <2>1. PICK v : v = [j \in Upto(m) |-> ps[j][k] (.) qz[j]]
    OBVIOUS
  <2>2. v \in Vec(m) /\ \A j \in Upto(m) : v[j] = ps[j][k] (.) qz[j] /\ v[j] \in F
    BY <1>4, <2>1, Closed DEF Vec
  <2>3. b[k] = Total(v)
    BY <1>2, <1>3, <1>8, <2>1 DEF Bsb
  <2>4. Total(v) \in F
    BY <2>2, TotalType
  <2>5. Total([j \in Upto(m) |-> Power(t, k) (.) v[j]]) = Power(t, k) (.) Total(v)
    BY <1>4, <2>2, TotalScale
  <2>6. \A j \in Upto(m) : Power(t, k) (.) v[j] = a[<<j, k>>]
    BY <1>4, <1>7, <2>2, Commutes
  <2>7. [j \in Upto(m) |-> Power(t, k) (.) v[j]] = [j \in Upto(m) |-> a[<<j, k>>]]
    BY <2>6
  <2> QED BY <2>3, <2>4, <2>5, <2>7
<1>10. b \in Vec(n)
  BY <1>8, <1>9 DEF Vec
<1>11. Eval(b, t) = Total([k \in Upto(n) |-> b[k] (.) Power(t, k)])
  BY <1>10, EvalTotal
<1>12. [k \in Upto(n) |-> b[k] (.) Power(t, k)]
         = [k \in Upto(n) |-> Total([j \in Upto(m) |-> a[<<j, k>>]])]
  BY <1>4, <1>9, Commutes
<1>13. Total([j \in Upto(m) |-> Total([k \in Upto(n) |-> a[<<j, k>>]])])
         = Total([k \in Upto(n) |-> Total([j \in Upto(m) |-> a[<<j, k>>]])])
  BY <1>6, TotalSwap
<1>14. ASSUME NEW j \in Upto(m)
       PROVE  /\ Eval(ps[j], t) \in F
              /\ Total([k \in Upto(n) |-> a[<<j, k>>]]) = Eval(ps[j], t) (.) qz[j]
  <2>1. PICK p \in Vec(n), c \in F : p = ps[j] /\ c = qz[j]
    BY <1>4
  <2>2. TimesOf(p, c, n) \in Vec(n) /\ Eval(TimesOf(p, c, n), t) = Eval(p, t) (.) c /\ Eval(p, t) \in F
    BY EvalTimes, EvalType
  <2>3. PICK v \in Vec(n) : v = TimesOf(p, c, n)
    BY <2>2
  <2>4. Eval(v, t) = Total([k \in Upto(n) |-> v[k] (.) Power(t, k)])
    BY EvalTotal
  <2>5. \A k \in Upto(n) : v[k] (.) Power(t, k) = a[<<j, k>>]
    BY <1>7, <2>1, <2>3 DEF TimesOf
  <2>6. [k \in Upto(n) |-> v[k] (.) Power(t, k)] = [k \in Upto(n) |-> a[<<j, k>>]]
    BY <2>5
  <2> QED BY <2>1, <2>2, <2>3, <2>4, <2>6
<1>15. [j \in Upto(m) |-> Total([k \in Upto(n) |-> a[<<j, k>>]])]
         = [j \in Upto(m) |-> Eval(ps[j], t) (.) qz[j]]
  BY <1>14
<1>16. [j \in Upto(m) |-> Eval(ps[j], t) (.) qz[j]] \in Vec(m)
  BY <1>4, <1>14, Closed DEF Vec
<1> QED BY <1>1, <1>2, <1>8, <1>10, <1>11, <1>12, <1>13, <1>15, <1>16

-------------------------------------------------------------------------------
\* The three shards folded at w.
FoldAt(w, t) == (Eval(h3(h), t) (.) w (+) Eval(h2(h), t)) (.) w (+) Eval(h1(h), t)

\* The folded shards at t.
LEMMA EvalFolded ==
  ASSUME Instance, h \in Vec(s.big), NEW sc, sc.zetaNPlusTwo \in F, NEW t \in F
  PROVE  /\ [k \in Upto(s.n + 3) |-> Folded(k, sc)] \in Vec(s.n + 3)
         /\ Eval([k \in Upto(s.n + 3) |-> Folded(k, sc)], t) = FoldAt(sc.zetaNPlusTwo, t)
<1>1. PICK a \in Nat, b \in Nat, w \in F : a = s.n + 2 /\ b = a + 1 /\ b = s.n + 3 /\ w = sc.zetaNPlusTwo
  <2>1. s.n \in Nat
    BY InstanceIs
  <2>2. s.n + 2 \in Nat /\ s.n + 3 \in Nat /\ s.n + 3 = (s.n + 2) + 1
    BY <2>1
  <2> QED BY <2>2
<1>2. PICK p1, p2, p3 : p1 = h1(h) /\ p2 = h2(h) /\ p3 = h3(h)
  OBVIOUS
<1>3. p3 \in Vec(a) /\ Size(p3) = a
  BY <1>1, <1>2, ShardsAre, VecIs
<1>4. PICK e \in Nat : (s.zk /\ e = b) \/ (~s.zk /\ e = a)
  BY <1>1
<1>5. p1 \in Vec(e) /\ p2 \in Vec(e) /\ Size(p1) = e /\ Size(p2) = e
  BY <1>1, <1>2, <1>4, ShardsAre, VecIs
<1>6. \E d \in Nat : b = e + d
  <2>1. b = a + 1 /\ b = b + 0 /\ 0 \in Nat /\ 1 \in Nat
    BY <1>1
  <2> QED BY <1>4, <2>1
<1>7. PICK d \in Nat : b = e + d
  BY <1>6
<1>8. PICK q1, q2, q3 : q1 = Padded(p1, b) /\ q2 = Padded(p2, b) /\ q3 = Padded(p3, b)
  OBVIOUS
<1>9. /\ q1 \in Vec(b) /\ Eval(q1, t) = Eval(p1, t)
      /\ q2 \in Vec(b) /\ Eval(q2, t) = Eval(p2, t)
      /\ q3 \in Vec(b) /\ Eval(q3, t) = Eval(p3, t)
  <2>1. q3 \in Vec(b) /\ Eval(q3, t) = Eval(p3, t)
    BY <1>1, <1>3, <1>8, EvalPadded
  <2>2. q1 \in Vec(b) /\ Eval(q1, t) = Eval(p1, t)
    BY <1>5, <1>7, <1>8, EvalPadded
  <2>3. q2 \in Vec(b) /\ Eval(q2, t) = Eval(p2, t)
    BY <1>5, <1>7, <1>8, EvalPadded
  <2> QED BY <2>1, <2>2, <2>3
<1>10. PICK u1 : u1 = TimesOf(q3, w, b)
  OBVIOUS
<1>11. u1 \in Vec(b) /\ Eval(u1, t) = Eval(p3, t) (.) w
  BY <1>9, <1>10, EvalTimes
<1>12. PICK u2 : u2 = SumOf(u1, q2, b)
  OBVIOUS
<1>13. u2 \in Vec(b) /\ Eval(u2, t) = Eval(p3, t) (.) w (+) Eval(p2, t)
  BY <1>9, <1>11, <1>12, EvalSum
<1>14. PICK u3 : u3 = TimesOf(u2, w, b)
  OBVIOUS
<1>15. u3 \in Vec(b) /\ Eval(u3, t) = (Eval(p3, t) (.) w (+) Eval(p2, t)) (.) w
  BY <1>13, <1>14, EvalTimes
<1>16. PICK u4 : u4 = SumOf(u3, q1, b)
  OBVIOUS
<1>17. u4 \in Vec(b) /\ Eval(u4, t) = (Eval(p3, t) (.) w (+) Eval(p2, t)) (.) w (+) Eval(p1, t)
  BY <1>9, <1>15, <1>16, EvalSum
<1>18. ASSUME NEW k \in Upto(b) PROVE u4[k] = Folded(k, sc)
  <2>1. u4[k] = (q3[k] (.) w (+) q2[k]) (.) w (+) q1[k]
    BY <1>10, <1>12, <1>14, <1>16 DEF SumOf, TimesOf
  <2>2. q1[k] = At(p1, k) /\ q2[k] = At(p2, k) /\ q3[k] = At(p3, k)
    BY <1>8 DEF Padded
  <2>3. k \in Nat /\ k < b /\ (k < a \/ (k = a /\ ~(k < a)))
    BY <1>1, UptoIs
  <2>4. q1[k] \in F /\ q2[k] \in F /\ q3[k] \in F
    BY <1>9 DEF Vec
  <2>5. Folded(k, sc) = IF k < a THEN (p3[k] (.) w (+) p2[k]) (.) w (+) p1[k]
                        ELSE IF s.zk THEN p2[k] (.) w (+) p1[k] ELSE 0
    BY <1>1, <1>2, <1>3 DEF Folded
  <2>6. CASE k < a
    <3>1. k < e
      BY <1>1, <1>4, <2>3, <2>6
    <3>2. q1[k] = p1[k] /\ q2[k] = p2[k] /\ q3[k] = p3[k]
      BY <1>3, <1>5, <2>2, <2>6, <3>1 DEF At
    <3> QED BY <2>1, <2>5, <2>6, <3>2
  <2>7. CASE ~(k < a) /\ s.zk
    <3>1. k < e
      BY <1>4, <2>3, <2>7
    <3>2. q1[k] = p1[k] /\ q2[k] = p2[k] /\ q3[k] = 0
      BY <1>3, <1>5, <2>2, <2>7, <3>1 DEF At
    <3>3. q3[k] (.) w (+) q2[k] = q2[k]
      BY <2>4, <3>2, Neutral
    <3> QED BY <2>1, <2>5, <2>7, <3>2, <3>3
  <2>8. CASE ~(k < a) /\ ~s.zk
    <3>1. q1[k] = 0 /\ q2[k] = 0 /\ q3[k] = 0
      BY <1>3, <1>4, <1>5, <2>2, <2>8 DEF At
    <3>2. q3[k] (.) w (+) q2[k] = 0
      BY <2>4, <3>1, Neutral
    <3>3. (q3[k] (.) w (+) q2[k]) (.) w (+) q1[k] = 0
      BY <3>1, <3>2, Neutral, ZeroOne
    <3> QED BY <2>1, <2>5, <2>8, <3>3
  <2> QED BY <2>6, <2>7, <2>8
<1>19. u4 = [k \in Upto(b) |-> u4[k]]
  BY <1>17, VecIs
<1>20. u4 = [k \in Upto(b) |-> Folded(k, sc)]
  BY <1>18, <1>19
<1>21. FoldAt(w, t) = (Eval(p3, t) (.) w (+) Eval(p2, t)) (.) w (+) Eval(p1, t)
  BY <1>2 DEF FoldAt
<1> QED BY <1>1, <1>17, <1>20, <1>21

\* The gates' terms and the linearised polynomial at t.
GatesAt(sc, qz, t) ==
    Eval(x.Qm, t) (.) sc.rl (+) Eval(x.Ql, t) (.) sc.l (+) Eval(x.Qr, t) (.) sc.r
      (+) Eval(x.Qo, t) (.) sc.o (+) Eval(s.trace.Qk, t)
      (+) Total([m \in Commits |-> Eval(x.Pi2[m], t) (.) qz[m]])

LinearizedAt(sc, qz, bz, t) ==
    Eval(bz, t) (.) sc.s2 (+) Eval(x.S3, t) (.) sc.s1 (+) GatesAt(sc, qz, t)
      (+) Eval(bz, t) (.) sc.alpha2Lag (-) FoldAt(sc.zetaNPlusTwo, t) (.) sc.zhZeta

\* The linearised gates at t.
LEMMA EvalGates ==
  ASSUME Instance, Complete(x), NEW m \in Nat, Commits = Upto(m),
         NEW sc, Scaled(sc), NEW qz \in Vec(m), NEW t \in F
  PROVE  /\ [k \in Upto(s.n) |-> Gates(k, sc, qz)] \in Vec(s.n)
         /\ Eval([k \in Upto(s.n) |-> Gates(k, sc, qz)], t) = GatesAt(sc, qz, t)
<1>1. PICK n \in Nat : n = s.n
  BY InstanceIs
<1>2. PICK p1, p2, p3, p4, p5 : p1 = x.Qm /\ p2 = x.Ql /\ p3 = x.Qr /\ p4 = x.Qo /\ p5 = s.trace.Qk
  OBVIOUS
<1>3. p1 \in Vec(n) /\ p2 \in Vec(n) /\ p3 \in Vec(n) /\ p4 \in Vec(n) /\ p5 \in Vec(n)
  <2>1. s.trace.Qk \in Vec(s.n)
    BY InstanceIs, TraceType DEF Selectors
  <2> QED BY <1>1, <1>2, <2>1 DEF Complete, AllFields, Selectors
<1>4. PICK c1, c2, c3, c4 \in F : c1 = sc.rl /\ c2 = sc.l /\ c3 = sc.r /\ c4 = sc.o
  BY DEF Scaled
<1>5. PICK p6 : p6 = [k \in Upto(n) |-> Bsb(k, qz)]
  OBVIOUS
<1>6. /\ p6 \in Vec(n)
      /\ Eval(p6, t) = Total([j \in Commits |-> Eval(x.Pi2[j], t) (.) qz[j]])
  BY <1>1, <1>5, EvalBsb
<1>7. PICK u1, u2, u3, u4 : /\ u1 = TimesOf(p1, c1, n) /\ u2 = TimesOf(p2, c2, n)
                            /\ u3 = TimesOf(p3, c3, n) /\ u4 = TimesOf(p4, c4, n)
  OBVIOUS
<1>8. /\ u1 \in Vec(n) /\ Eval(u1, t) = Eval(p1, t) (.) c1
      /\ u2 \in Vec(n) /\ Eval(u2, t) = Eval(p2, t) (.) c2
      /\ u3 \in Vec(n) /\ Eval(u3, t) = Eval(p3, t) (.) c3
      /\ u4 \in Vec(n) /\ Eval(u4, t) = Eval(p4, t) (.) c4
  BY <1>3, <1>7, EvalTimes
<1>9. PICK v1 : v1 = SumOf(u1, u2, n)
  OBVIOUS
<1>10. v1 \in Vec(n) /\ Eval(v1, t) = Eval(u1, t) (+) Eval(u2, t)
  BY <1>8, <1>9, EvalSum
<1>11. PICK v2 : v2 = SumOf(v1, u3, n)
  OBVIOUS
<1>12. v2 \in Vec(n) /\ Eval(v2, t) = Eval(v1, t) (+) Eval(u3, t)
  BY <1>8, <1>10, <1>11, EvalSum
<1>13. PICK v3 : v3 = SumOf(v2, u4, n)
  OBVIOUS
<1>14. v3 \in Vec(n) /\ Eval(v3, t) = Eval(v2, t) (+) Eval(u4, t)
  BY <1>8, <1>12, <1>13, EvalSum
<1>15. PICK v4 : v4 = SumOf(v3, p5, n)
  OBVIOUS
<1>16. v4 \in Vec(n) /\ Eval(v4, t) = Eval(v3, t) (+) Eval(p5, t)
  BY <1>3, <1>14, <1>15, EvalSum
<1>17. PICK v5 : v5 = SumOf(v4, p6, n)
  OBVIOUS
<1>18. v5 \in Vec(n) /\ Eval(v5, t) = Eval(v4, t) (+) Eval(p6, t)
  BY <1>6, <1>16, <1>17, EvalSum
<1>19. Eval(v5, t) = GatesAt(sc, qz, t)
  BY <1>2, <1>4, <1>6, <1>8, <1>10, <1>12, <1>14, <1>16, <1>18 DEF GatesAt
<1>20. \A k \in Upto(n) : v5[k] = Gates(k, sc, qz)
  <2> TAKE k \in Upto(n)
  <2>1. v5[k] = p1[k] (.) c1 (+) p2[k] (.) c2 (+) p3[k] (.) c3 (+) p4[k] (.) c4 (+) p5[k] (+) p6[k]
    BY <1>7, <1>9, <1>11, <1>13, <1>15, <1>17 DEF SumOf, TimesOf
  <2> QED BY <1>2, <1>4, <1>5, <2>1 DEF Gates
<1>21. v5 = [k \in Upto(n) |-> v5[k]]
  BY <1>18, VecIs
<1>22. v5 = [k \in Upto(n) |-> Gates(k, sc, qz)]
  BY <1>20, <1>21
<1> QED BY <1>1, <1>18, <1>19, <1>22

\* The linearised polynomial at t, for every t.
LEMMA EvalLinearized ==
  ASSUME Instance, Complete(x), NEW m \in Nat, Commits = Upto(m), h \in Vec(s.big),
         NEW sc, Scaled(sc), NEW qz \in Vec(m), NEW bz \in Vec(s.n + 3), NEW t \in F
  PROVE  Eval(innerComputeLinearizedPoly(sc, qz, bz), t) = LinearizedAt(sc, qz, bz, t)
<1>1. PICK n \in Nat, b \in Nat : n = s.n /\ b = n + 3 /\ b = s.n + 3
  <2>1. s.n \in Nat /\ s.n + 3 \in Nat
    BY InstanceIs
  <2> QED BY <2>1
<1>2. PICK c1, c2, c3, c4 \in F : c1 = sc.s2 /\ c2 = sc.s1 /\ c3 = sc.alpha2Lag /\ c4 = sc.zhZeta
  BY DEF Scaled
<1>3. PICK p3, g, f : /\ p3 = x.S3 /\ g = [k \in Upto(n) |-> Gates(k, sc, qz)]
                      /\ f = [k \in Upto(b) |-> Folded(k, sc)]
  OBVIOUS
<1>4. p3 \in Vec(n) /\ g \in Vec(n) /\ Eval(g, t) = GatesAt(sc, qz, t)
  BY <1>1, <1>3, EvalGates DEF Complete, AllFields, Selectors
<1>5. f \in Vec(b) /\ Eval(f, t) = FoldAt(sc.zetaNPlusTwo, t)
  <2>1. sc.zetaNPlusTwo \in F
    BY DEF Scaled
  <2> QED BY <1>1, <1>3, <2>1, EvalFolded
<1>6. PICK q3, gp : q3 = Padded(p3, b) /\ gp = Padded(g, b)
  OBVIOUS
<1>7. q3 \in Vec(b) /\ Eval(q3, t) = Eval(p3, t) /\ gp \in Vec(b) /\ Eval(gp, t) = Eval(g, t)
  BY <1>1, <1>4, <1>6, EvalPadded
<1>8. bz \in Vec(b)
  BY <1>1
<1>9. PICK u1, u2, u3, u4 : /\ u1 = TimesOf(bz, c1, b) /\ u2 = TimesOf(q3, c2, b)
                            /\ u3 = TimesOf(bz, c3, b) /\ u4 = TimesOf(f, c4, b)
  OBVIOUS
<1>10. /\ u1 \in Vec(b) /\ Eval(u1, t) = Eval(bz, t) (.) c1
       /\ u2 \in Vec(b) /\ Eval(u2, t) = Eval(p3, t) (.) c2
       /\ u3 \in Vec(b) /\ Eval(u3, t) = Eval(bz, t) (.) c3
       /\ u4 \in Vec(b) /\ Eval(u4, t) = Eval(f, t) (.) c4
  BY <1>5, <1>7, <1>8, <1>9, EvalTimes
<1>11. PICK v1 : v1 = SumOf(u1, u2, b)
  OBVIOUS
<1>12. v1 \in Vec(b) /\ Eval(v1, t) = Eval(u1, t) (+) Eval(u2, t)
  BY <1>10, <1>11, EvalSum
<1>13. PICK v2 : v2 = SumOf(v1, gp, b)
  OBVIOUS
<1>14. v2 \in Vec(b) /\ Eval(v2, t) = Eval(v1, t) (+) Eval(gp, t)
  BY <1>7, <1>12, <1>13, EvalSum
<1>15. PICK v3 : v3 = LessOf(u3, u4, b)
  OBVIOUS
<1>16. v3 \in Vec(b) /\ Eval(v3, t) = Eval(u3, t) (-) Eval(u4, t)
  BY <1>10, <1>15, EvalLess
<1>17. PICK v4 : v4 = SumOf(v2, v3, b)
  OBVIOUS
<1>18. v4 \in Vec(b) /\ Eval(v4, t) = Eval(v2, t) (+) Eval(v3, t)
  BY <1>14, <1>16, <1>17, EvalSum
<1>19. Eval(v4, t) = LinearizedAt(sc, qz, bz, t)
  BY <1>2, <1>3, <1>4, <1>5, <1>7, <1>10, <1>12, <1>14, <1>16, <1>18 DEF LinearizedAt
<1>20. PICK lp : lp = innerComputeLinearizedPoly(sc, qz, bz)
  OBVIOUS
<1>21. lp = [k \in Upto(b) |->
                   bz[k] (.) sc.s2 (+) At(x.S3, k) (.) sc.s1
                     (+) (IF k < s.n THEN Gates(k, sc, qz) ELSE 0) (+) bz[k] (.) sc.alpha2Lag
                     (-) Folded(k, sc) (.) sc.zhZeta]
  BY <1>1, <1>20, LinearizedTerms
<1>22. ASSUME NEW k \in Upto(b) PROVE v4[k] = lp[k]
  <2>1. v4[k] = bz[k] (.) c1 (+) q3[k] (.) c2 (+) gp[k] (+) bz[k] (.) c3 (-) f[k] (.) c4
    BY <1>9, <1>11, <1>13, <1>15, <1>17 DEF SumOf, TimesOf, LessOf
  <2>2. q3[k] = At(x.S3, k) /\ f[k] = Folded(k, sc) /\ gp[k] = At(g, k)
    BY <1>3, <1>6 DEF Padded
  <2>3. Size(g) = n /\ k \in Nat
    BY <1>4, VecIs, UptoIs
  <2>4. At(g, k) = IF k < s.n THEN Gates(k, sc, qz) ELSE 0
    <3>1. k < n => k \in Upto(n)
      BY <2>3, UptoIs
    <3> QED BY <1>1, <1>3, <2>3, <3>1 DEF At
  <2> QED BY <1>2, <1>21, <2>1, <2>2, <2>4
<1>23. v4 = [k \in Upto(b) |-> v4[k]]
  BY <1>18, VecIs
<1>24. lp = [k \in Upto(b) |-> lp[k]]
  BY <1>21
<1>25. v4 = lp
  BY <1>22, <1>23, <1>24
<1> QED BY <1>19, <1>20, <1>25

-------------------------------------------------------------------------------
(* The shards hold the quotient, and their randomizers cancel.             *)

\* The ring identities of the two randomizers, for shards with and without them.
LEMMA RandomizersCancel1 ==
  \A a, r, y, u \in F :
     (u (-) r) (.) y (+) (a (+) y (.) r)
       = u (.) y (+) a
<1> TAKE a, r, y, u \in F
<1>1. /\ a \in Int /\ a = Mod(a)
      /\ r \in Int /\ r = Mod(r)
      /\ y \in Int /\ y = Mod(y)
      /\ u \in Int /\ u = Mod(u)
  BY ModOfElement
<1>2. PICK i1 \in Int : i1 = u - r
  BY <1>1
<1>3. u (-) r = Mod(i1) /\ i1 \in Int
  BY <1>1, <1>2, ModOps
<1>4. PICK i2 \in Int : i2 = i1 * y
  BY <1>3, <1>1
<1>5. (u (-) r) (.) y = Mod(i2) /\ i2 \in Int
  BY <1>3, <1>1, <1>4, ModOps
<1>6. PICK i3 \in Int : i3 = y * r
  BY <1>1
<1>7. y (.) r = Mod(i3) /\ i3 \in Int
  BY <1>1, <1>6, ModOps
<1>8. PICK i4 \in Int : i4 = a + i3
  BY <1>1, <1>7
<1>9. a (+) y (.) r = Mod(i4) /\ i4 \in Int
  BY <1>1, <1>7, <1>8, ModOps
<1>10. PICK i5 \in Int : i5 = i2 + i4
  BY <1>5, <1>9
<1>11. (u (-) r) (.) y (+) (a (+) y (.) r) = Mod(i5) /\ i5 \in Int
  BY <1>5, <1>9, <1>10, ModOps
<1>12. PICK i6 \in Int : i6 = u * y
  BY <1>1
<1>13. u (.) y = Mod(i6) /\ i6 \in Int
  BY <1>1, <1>12, ModOps
<1>14. PICK i7 \in Int : i7 = i6 + a
  BY <1>13, <1>1
<1>15. u (.) y (+) a = Mod(i7) /\ i7 \in Int
  BY <1>13, <1>1, <1>14, ModOps
<1>16. i5 = i7
  BY <1>1, <1>2, <1>4, <1>6, <1>8, <1>10, <1>12, <1>14
<1> QED BY <1>11, <1>15, <1>16

LEMMA RandomizersCancel2 ==
  \A b, r, q, y \in F :
     ((b (-) r) (+) y (.) q)
       = ((b (+) y (.) q) (-) r)
<1> TAKE b, r, q, y \in F
<1>1. /\ b \in Int /\ b = Mod(b)
      /\ r \in Int /\ r = Mod(r)
      /\ q \in Int /\ q = Mod(q)
      /\ y \in Int /\ y = Mod(y)
  BY ModOfElement
<1>2. PICK i1 \in Int : i1 = b - r
  BY <1>1
<1>3. b (-) r = Mod(i1) /\ i1 \in Int
  BY <1>1, <1>2, ModOps
<1>4. PICK i2 \in Int : i2 = y * q
  BY <1>1
<1>5. y (.) q = Mod(i2) /\ i2 \in Int
  BY <1>1, <1>4, ModOps
<1>6. PICK i3 \in Int : i3 = i1 + i2
  BY <1>3, <1>5
<1>7. b (-) r (+) y (.) q = Mod(i3) /\ i3 \in Int
  BY <1>3, <1>5, <1>6, ModOps
<1>8. PICK i4 \in Int : i4 = b + i2
  BY <1>1, <1>5
<1>9. b (+) y (.) q = Mod(i4) /\ i4 \in Int
  BY <1>1, <1>5, <1>8, ModOps
<1>10. PICK i5 \in Int : i5 = i4 - r
  BY <1>9, <1>1
<1>11. (b (+) y (.) q) (-) r = Mod(i5) /\ i5 \in Int
  BY <1>9, <1>1, <1>10, ModOps
<1>12. i3 = i5
  BY <1>1, <1>2, <1>4, <1>6, <1>8, <1>10
<1> QED BY <1>7, <1>11, <1>12

LEMMA RandomizersCancel3 ==
  \A c, q, y, b \in F :
     (c (-) q) (.) y (+) (b (+) y (.) q)
       = b (+) y (.) c
<1> TAKE c, q, y, b \in F
<1>1. /\ c \in Int /\ c = Mod(c)
      /\ q \in Int /\ q = Mod(q)
      /\ y \in Int /\ y = Mod(y)
      /\ b \in Int /\ b = Mod(b)
  BY ModOfElement
<1>2. PICK i1 \in Int : i1 = c - q
  BY <1>1
<1>3. c (-) q = Mod(i1) /\ i1 \in Int
  BY <1>1, <1>2, ModOps
<1>4. PICK i2 \in Int : i2 = i1 * y
  BY <1>3, <1>1
<1>5. (c (-) q) (.) y = Mod(i2) /\ i2 \in Int
  BY <1>3, <1>1, <1>4, ModOps
<1>6. PICK i3 \in Int : i3 = y * q
  BY <1>1
<1>7. y (.) q = Mod(i3) /\ i3 \in Int
  BY <1>1, <1>6, ModOps
<1>8. PICK i4 \in Int : i4 = b + i3
  BY <1>1, <1>7
<1>9. b (+) y (.) q = Mod(i4) /\ i4 \in Int
  BY <1>1, <1>7, <1>8, ModOps
<1>10. PICK i5 \in Int : i5 = i2 + i4
  BY <1>5, <1>9
<1>11. (c (-) q) (.) y (+) (b (+) y (.) q) = Mod(i5) /\ i5 \in Int
  BY <1>5, <1>9, <1>10, ModOps
<1>12. PICK i6 \in Int : i6 = y * c
  BY <1>1
<1>13. y (.) c = Mod(i6) /\ i6 \in Int
  BY <1>1, <1>12, ModOps
<1>14. PICK i7 \in Int : i7 = b + i6
  BY <1>1, <1>13
<1>15. b (+) y (.) c = Mod(i7) /\ i7 \in Int
  BY <1>1, <1>13, <1>14, ModOps
<1>16. i5 = i7
  BY <1>1, <1>2, <1>4, <1>6, <1>8, <1>10, <1>12, <1>14
<1> QED BY <1>11, <1>15, <1>16

\* A power taken out.
LEMMA ShiftOut ==
  \A d, u, r \in F :
     d (+) (u (-) r)
       = (d (+) u) (-) r
<1> TAKE d, u, r \in F
<1>1. /\ d \in Int /\ d = Mod(d)
      /\ u \in Int /\ u = Mod(u)
      /\ r \in Int /\ r = Mod(r)
  BY ModOfElement
<1>2. PICK i1 \in Int : i1 = u - r
  BY <1>1
<1>3. u (-) r = Mod(i1) /\ i1 \in Int
  BY <1>1, <1>2, ModOps
<1>4. PICK i2 \in Int : i2 = d + i1
  BY <1>1, <1>3
<1>5. d (+) u (-) r = Mod(i2) /\ i2 \in Int
  BY <1>1, <1>3, <1>4, ModOps
<1>6. PICK i3 \in Int : i3 = d + u
  BY <1>1
<1>7. d (+) u = Mod(i3) /\ i3 \in Int
  BY <1>1, <1>6, ModOps
<1>8. PICK i4 \in Int : i4 = i3 - r
  BY <1>7, <1>1
<1>9. (d (+) u) (-) r = Mod(i4) /\ i4 \in Int
  BY <1>7, <1>1, <1>8, ModOps
<1>10. i2 = i4
  BY <1>1, <1>2, <1>4, <1>6, <1>8
<1> QED BY <1>5, <1>9, <1>10


Third(q, k) == [j \in Upto(s.n + 2) |-> q[k * (s.n + 2) + j]]

\* A third of the quotient, a shard and a shard with its randomizer.
LEMMA ThirdType ==
  ASSUME Instance, NEW q \in Vec(s.big), NEW k \in {0, 1, 2}
  PROVE  Third(q, k) \in Vec(s.n + 2)
<1>1. s.n \in Nat /\ s.big \in Nat /\ 3 * (s.n + 2) <= s.big
  BY InstanceIs
<1> SUFFICES ASSUME NEW j \in Upto(s.n + 2) PROVE q[k * (s.n + 2) + j] \in F
  BY DEF Third, Vec
<1>2. PICK n \in Nat : n = s.n
  BY <1>1
<1>3. j \in Nat /\ j < n + 2
  BY <1>2 DEF Upto
<1>4. k * (s.n + 2) + j \in Nat /\ k * (s.n + 2) + j < s.big
  <2>1. CASE k = 0
    BY <1>1, <1>2, <1>3, <2>1
  <2>2. CASE k = 1
    BY <1>1, <1>2, <1>3, <2>2
  <2>3. CASE k = 2
    BY <1>1, <1>2, <1>3, <2>3
  <2> QED BY <2>1, <2>2, <2>3
<1> QED BY <1>1, <1>4, VecIs

LEMMA ShardEval ==
  ASSUME Instance, NEW q \in Vec(s.big), NEW k \in {0, 1, 2}, NEW lo \in F, NEW t \in F
  PROVE  /\ Shard(q, k, lo) \in Vec(s.n + 2)
         /\ Eval(Shard(q, k, lo), t) = Eval(Third(q, k), t) (-) lo
<1>1. PICK a \in Nat : a = s.n + 2 /\ 0 < a /\ 0 \in Nat
  <2>1. s.n \in Nat
    BY InstanceIs
  <2> QED BY <2>1
<1>2. PICK p \in Vec(a) : p = Third(q, k)
  BY <1>1, ThirdType
<1>3. PICK o : o = [j \in Upto(a) |-> IF j = 0 THEN lo ELSE 0]
  OBVIOUS
<1>4. o \in Vec(a) /\ Eval(o, t) = Power(t, 0) (.) lo
  BY <1>1, <1>3, EvalMonomial
<1>5. Eval(o, t) = lo
  BY <1>4, PowerLaws, Neutral
<1>6. PICK d : d = LessOf(p, o, a)
  OBVIOUS
<1>7. d \in Vec(a) /\ Eval(d, t) = Eval(p, t) (-) lo
  BY <1>4, <1>5, <1>6, EvalLess
<1>8. d = [j \in Upto(a) |-> p[j] (-) o[j]]
  BY <1>6 DEF LessOf
<1>9. \A j \in Upto(a) : p[j] (-) o[j] = q[k * a + j] (-) IF j = 0 THEN lo ELSE 0
  BY <1>1, <1>2, <1>3 DEF Third
<1>10. Shard(q, k, lo) = [j \in Upto(a) |-> q[k * a + j] (-) IF j = 0 THEN lo ELSE 0]
  BY <1>1 DEF Shard
<1>11. d = Shard(q, k, lo)
  BY <1>8, <1>9, <1>10
<1> QED BY <1>1, <1>2, <1>7, <1>11

LEMMA ToppedEval ==
  ASSUME Instance, NEW p \in Vec(s.n + 2), NEW hi \in F, ~s.zk => hi = 0, NEW t \in F
  PROVE  Eval(Topped(p, hi), t) = Eval(p, t) (+) Power(t, s.n + 2) (.) hi
<1>1. PICK a \in Nat : a = s.n + 2
  <2>1. s.n \in Nat
    BY InstanceIs
  <2> QED BY <2>1
<1>2. Eval(p, t) \in F /\ Power(t, a) \in F /\ p \in Vec(a)
  BY <1>1, EvalType, PowerLaws
<1>3. CASE s.zk
  <2>1. PICK top : top = [j \in {0} |-> hi]
    OBVIOUS
  <2>2. Upto(1) = {0} /\ 1 \in Nat
    BY DEF Upto
  <2>3. top \in Vec(1)
    BY <2>1, <2>2 DEF Vec
  <2>4. top = [j \in Upto(1) |-> hi]
    BY <2>1, <2>2
  <2>5. Eval(top, t) = hi
    BY <2>4, EvalConstant
  <2>6. Eval(Concat(p, top), t) = Eval(p, t) (+) (Power(t, a) (.) Eval(top, t))
    BY <1>2, <2>2, <2>3, EvalConcat
  <2>7. Topped(p, hi) = Concat(p, top)
    BY <1>3, <2>1 DEF Topped
  <2> QED BY <1>1, <2>5, <2>6, <2>7
<1>4. CASE ~s.zk
  <2>1. Topped(p, hi) = p
    BY <1>4 DEF Topped
  <2>2. Power(t, a) (.) hi = 0
    BY <1>2, <1>4, Neutral
  <2> QED BY <1>1, <1>2, <2>1, <2>2, Neutral
<1> QED BY <1>3, <1>4

\* A quotient that fits is the sum of its thirds.
LEMMA ThirdsEval ==
  ASSUME Instance, NEW q \in Vec(s.big), NEW t \in F,
         \A k \in Nat : 3 * (s.n + 2) <= k /\ k < s.big => q[k] = 0
  PROVE  Eval(q, t) = Eval(Third(q, 0), t) (+) Power(t, s.n + 2) (.)
                        (Eval(Third(q, 1), t) (+) Power(t, s.n + 2) (.) Eval(Third(q, 2), t))
<1>a. s.n \in Nat /\ s.big \in Nat /\ 3 * (s.n + 2) <= s.big
  BY InstanceIs
<1>b. PICK n \in Nat, g \in Nat : n = s.n /\ g = s.big
  BY <1>a
<1>c. PICK a \in Nat : a = n + 2
  BY <1>b
<1>d. PICK b \in Nat, c \in Nat : b = a + a /\ c = a + a + a
  BY <1>c
<1>e. a = s.n + 2 /\ g = s.big /\ c = 3 * (s.n + 2) /\ c <= g
  BY <1>a, <1>b, <1>c, <1>d
<1>1. /\ a = s.n + 2 /\ b = a + a /\ c = a + a + a /\ g = s.big
      /\ a <= g /\ a <= b /\ b <= g /\ b <= c /\ c <= g /\ 0 <= a
      /\ c = 3 * (s.n + 2) /\ a - 0 = a /\ b - a = a /\ c - b = a
      /\ g - c \in Nat /\ 0 \in Nat /\ g <= g
  <2>1. a \in Nat /\ b \in Nat /\ c \in Nat /\ g \in Nat /\ b = a + a /\ c = a + a + a /\ c <= g
    BY <1>b, <1>c, <1>d, <1>e
  <2>2. /\ a <= g /\ a <= b /\ b <= g /\ b <= c /\ 0 <= a /\ 0 \in Nat /\ g <= g
        /\ a - 0 = a /\ b - a = a /\ c - b = a
    BY ONLY <2>1
  <2>3. g - c \in Nat
    BY ONLY <2>1
  <2> QED BY <1>e, <2>1, <2>2, <2>3
<1>2. q \in Vec(g)
  BY <1>1
<1>3. PICK e : IsHorner(e, g, q, t)
  BY <1>2, HornerExists
<1>4. e[0] = Eval(q, t) /\ e[g] = 0
  BY <1>2, <1>3, EvalIs DEF IsHorner
<1>f. \A lo, hi \in Nat : lo <= hi /\ hi <= g =>
         e[lo] = Eval(Slice(q, lo, hi), t) (+) (Power(t, hi - lo) (.) e[hi])
  BY <1>2, <1>3, SliceEval
<1>5. e[0] = Eval(Slice(q, 0, a), t) (+) (Power(t, a) (.) e[a])
  <2>1. e[0] = Eval(Slice(q, 0, a), t) (+) (Power(t, a - 0) (.) e[a])
    BY <1>1, <1>f
  <2> QED BY <1>1, <2>1
<1>6. e[a] = Eval(Slice(q, a, b), t) (+) (Power(t, a) (.) e[b])
  <2>1. e[a] = Eval(Slice(q, a, b), t) (+) (Power(t, b - a) (.) e[b])
    BY <1>1, <1>f
  <2> QED BY <1>1, <2>1
<1>7. e[b] = Eval(Slice(q, b, c), t) (+) (Power(t, a) (.) e[c])
  <2>1. e[b] = Eval(Slice(q, b, c), t) (+) (Power(t, c - b) (.) e[c])
    BY <1>1, <1>f
  <2> QED BY <1>1, <2>1
<1>8. e[c] = Eval(Slice(q, c, g), t) (+) (Power(t, g - c) (.) e[g])
  BY <1>1, <1>f
<1>9. Slice(q, c, g) = [k \in Upto(g - c) |-> 0]
  <2>1. \A k \in Upto(g - c) : q[c + k] = 0
    <3> TAKE k \in Upto(g - c)
    <3>1. k \in Nat /\ k < g - c
      BY <1>1, UptoIs
    <3>2. c + k \in Nat /\ c <= c + k /\ c + k < g
      BY <3>1
    <3> QED BY <1>1, <3>2
  <2> QED BY <2>1 DEF Slice
<1>10. Eval(Slice(q, c, g), t) = 0 /\ Power(t, g - c) \in F
  BY <1>1, <1>9, EvalZero, PowerLaws
<1>11. e[c] = 0
  BY <1>4, <1>8, <1>10, Neutral, ZeroOne
<1>12. Slice(q, 0, a) = Third(q, 0) /\ Slice(q, a, b) = Third(q, 1) /\ Slice(q, b, c) = Third(q, 2)
  <2>1. \A j \in Upto(a) : /\ j \in Nat /\ 0 + j = 0 * a + j /\ a + j = 1 * a + j /\ b + j = 2 * a + j
    <3>1. \A j \in Upto(a) : j \in Nat
      BY UptoIs
    <3>2. \A j \in Nat : 0 + j = 0 * a + j /\ a + j = 1 * a + j /\ b + j = 2 * a + j
      BY <1>d
    <3> QED BY <3>1, <3>2
  <2>2. /\ Third(q, 0) = [j \in Upto(a) |-> q[0 * a + j]] /\ Third(q, 1) = [j \in Upto(a) |-> q[1 * a + j]]
        /\ Third(q, 2) = [j \in Upto(a) |-> q[2 * a + j]]
    BY <1>1 DEF Third
  <2>3. Slice(q, 0, a) = [j \in Upto(a) |-> q[0 + j]]
    BY <1>1 DEF Slice
  <2>4. Slice(q, a, b) = [j \in Upto(a) |-> q[a + j]]
    BY <1>1 DEF Slice
  <2>5. Slice(q, b, c) = [j \in Upto(a) |-> q[b + j]]
    BY <1>1 DEF Slice
  <2> QED BY <2>1, <2>2, <2>3, <2>4, <2>5
<1>13. Eval(Third(q, 2), t) \in F /\ Power(t, a) \in F
  <2>1. Third(q, 2) \in Vec(a)
    BY <1>1, ThirdType
  <2> QED BY <1>1, <2>1, EvalType, PowerLaws
<1>14. e[b] = Eval(Third(q, 2), t)
  BY <1>7, <1>11, <1>12, <1>13, Neutral
<1> QED BY <1>1, <1>4, <1>5, <1>6, <1>12, <1>14

\* Folded at the power that separates them the shards are the quotient.
LEMMA FoldIs ==
  ASSUME Instance, h \in Vec(s.big), NEW t \in F,
         \A k \in Nat : 3 * (s.n + 2) <= k /\ k < s.big => h[k] = 0
  PROVE  FoldAt(Power(t, s.n + 2), t) = Eval(h, t)
<1>1. PICK y : y = Power(t, s.n + 2)
  OBVIOUS
<1>2. PICK a \in Nat : a = s.n + 2
  <2>1. s.n \in Nat
    BY InstanceIs
  <2> QED BY <2>1
<1>3. y \in F
  BY <1>1, <1>2, PowerLaws
<1>4. PICK q, r : q = s.rnd[2] /\ r = s.rnd[1]
  OBVIOUS
<1>5. q \in F /\ r \in F /\ (~s.zk => q = 0 /\ r = 0)
  <2>1. s.rnd[1] \in F /\ s.rnd[2] \in F
    BY InstanceIs
  <2>2. ~s.zk => s.rnd = <<0, 0>>
    BY DEF Instance, newInstance
  <2> QED BY <1>4, <2>1, <2>2
<1>6. PICK c0, c1, c2 : c0 = Eval(Third(h, 0), t) /\ c1 = Eval(Third(h, 1), t) /\ c2 = Eval(Third(h, 2), t)
  OBVIOUS
<1>7. c0 \in F /\ c1 \in F /\ c2 \in F
  <2>1. Third(h, 0) \in Vec(a) /\ Third(h, 1) \in Vec(a) /\ Third(h, 2) \in Vec(a)
    BY <1>2, ThirdType
  <2> QED BY <1>6, <2>1, EvalType
<1>8. Eval(h3(h), t) = c2 (-) q
  BY <1>4, <1>5, <1>6, ShardEval DEF h3
<1>9. Eval(h2(h), t) = (c1 (-) r) (+) y (.) q
  <2>1. PICK p : p = Shard(h, 1, r)
    OBVIOUS
  <2>2. p \in Vec(s.n + 2) /\ Eval(p, t) = c1 (-) r
    BY <1>5, <1>6, <2>1, ShardEval
  <2>3. Eval(Topped(p, q), t) = Eval(p, t) (+) y (.) q
    BY <1>1, <1>5, <2>2, ToppedEval
  <2> QED BY <1>4, <2>1, <2>2, <2>3 DEF h2
<1>10. Eval(h1(h), t) = c0 (+) y (.) r
  <2>1. PICK p : p = Shard(h, 0, 0)
    OBVIOUS
  <2>2. p \in Vec(s.n + 2) /\ Eval(p, t) = c0 (-) 0
    BY <1>6, <2>1, ZeroOne, ShardEval
  <2>3. Eval(Topped(p, r), t) = Eval(p, t) (+) y (.) r
    BY <1>1, <1>5, <2>2, ToppedEval
  <2>4. c0 (-) 0 = c0
    BY <1>7, Neutral
  <2> QED BY <1>4, <2>1, <2>2, <2>3, <2>4 DEF h1
<1>11. Eval(h, t) = c0 (+) y (.) (c1 (+) y (.) c2)
  BY <1>1, <1>6, ThirdsEval
<1>12. PICK u2 \in F, u1 \in F : u2 = c1 (+) y (.) q /\ u1 = c1 (+) y (.) c2
  BY <1>3, <1>5, <1>7, Closed
<1>13. (c1 (-) r) (+) y (.) q = u2 (-) r
  BY <1>3, <1>5, <1>7, <1>12, RandomizersCancel2
<1>14. (c2 (-) q) (.) y (+) u2 = u1
  BY <1>3, <1>5, <1>7, <1>12, RandomizersCancel3
<1>15. FoldAt(y, t) = ((c2 (-) q) (.) y (+) (u2 (-) r)) (.) y (+) (c0 (+) y (.) r)
  BY <1>8, <1>9, <1>10, <1>13 DEF FoldAt
<1>16. PICK d \in F : d = (c2 (-) q) (.) y
  BY <1>3, <1>5, <1>7, Closed
<1>17. d (+) (u2 (-) r) = u1 (-) r
  <2>1. d (+) (u2 (-) r) = (d (+) u2) (-) r
    BY <1>5, <1>12, <1>16, ShiftOut
  <2> QED BY <1>14, <1>16, <2>1
<1>18. FoldAt(y, t) = u1 (.) y (+) c0
  BY <1>3, <1>5, <1>7, <1>12, <1>15, <1>16, <1>17, RandomizersCancel1
<1>19. u1 (.) y (+) c0 = c0 (+) y (.) u1
  <2>1. u1 (.) y = y (.) u1 /\ u1 (.) y \in F
    BY <1>3, <1>12, Commutes, Closed
  <2> QED BY <1>7, <2>1, Commutes
<1> QED BY <1>1, <1>11, <1>12, <1>18, <1>19

-------------------------------------------------------------------------------
(* The public inputs and the hashes are what the witness adds to Qk.       *)

HashRow(m) == s.circuit.nbPublic + s.circuit.commits[m].index

Public(v) == [k \in Upto(s.n) |-> IF k < s.circuit.nbPublic THEN s.circuit.witness[v][k] ELSE 0]
Hashed(v) == [k \in Upto(s.n) |-> Total([m \in DOMAIN v |-> IF k = HashRow(m) THEN v[m] ELSE 0])]
Constants == [k \in Upto(s.n) |-> Row(s.circuit, k).qk]

\* No two hashes have a row in common, or one with a public input.
LEMMA HashRows ==
  ASSUME Instance, NEW m \in Commits
  PROVE  /\ HashRow(m) \in Nat /\ s.circuit.nbPublic <= HashRow(m) /\ HashRow(m) < s.n
         /\ Row(s.circuit, HashRow(m)).qk = 0
         /\ \A j \in Commits \ {m} : HashRow(j) # HashRow(m)
<1>1. PICK c : c = s.circuit
  OBVIOUS
<1>2. /\ c \in Circuits /\ s.n \in Nat /\ s.offset = c.nbPublic + Size(c.gates) /\ s.offset <= s.n
      /\ c.nbPublic \in Nat /\ Size(c.gates) \in Nat /\ DOMAIN c.gates = Upto(Size(c.gates))
  BY <1>1, InstanceIs, CircuitIs
<1>3. \A j \in Commits : /\ c.commits[j].index \in DOMAIN c.gates /\ c.gates[c.commits[j].index].qk = 0
                         /\ \A e \in Commits \ {j} : c.commits[e].index # c.commits[j].index
  BY <1>1, <1>2, CommitsAssumption DEF Commits
<1>4. \A j \in Commits : c.commits[j].index \in Nat /\ c.commits[j].index < Size(c.gates)
  BY <1>2, <1>3, UptoIs
<1>5. PICK nb \in Nat, g \in Nat, d \in Nat : nb = c.nbPublic /\ g = Size(c.gates) /\ d = c.commits[m].index
  BY <1>2, <1>4
<1>6. HashRow(m) = nb + d /\ d < g /\ nb + g <= s.n
  BY <1>1, <1>2, <1>4, <1>5 DEF HashRow
<1>7. /\ HashRow(m) \in Nat /\ nb <= HashRow(m) /\ HashRow(m) < s.n /\ ~(HashRow(m) < nb)
      /\ HashRow(m) < nb + g /\ HashRow(m) - nb = d
  BY <1>2, <1>5, <1>6
<1>8. Row(c, HashRow(m)) = c.gates[d]
  BY <1>5, <1>7 DEF Row
<1>9. \A j \in Commits \ {m} : HashRow(j) # HashRow(m)
  <2> SUFFICES ASSUME NEW j \in Commits, j # m PROVE HashRow(j) # HashRow(m)
    OBVIOUS
  <2>1. PICK e \in Nat : e = c.commits[j].index /\ e # d
    BY <1>3, <1>4, <1>5
  <2>2. HashRow(j) = nb + e
    BY <1>1, <1>5, <2>1 DEF HashRow
  <2> QED BY <1>5, <1>6, <2>1, <2>2
<1> QED BY <1>1, <1>3, <1>5, <1>7, <1>8, <1>9

\* Qk row by row.
LEMMA QkSplits ==
  ASSUME Instance, NEW v \in Values, NEW k \in Nat, k < s.n
  PROVE  /\ Public(v)[k] \in F /\ Hashed(v)[k] \in F /\ Constants[k] \in F
         /\ QkOf(v)[k] = Public(v)[k] (+) Hashed(v)[k] (+) Constants[k]
<1>a. PICK c : c = s.circuit
  OBVIOUS
<1>b. PICK nb \in Nat : nb = c.nbPublic
  BY <1>a, InstanceIs, CircuitIs
<1>1. c = s.circuit /\ nb = c.nbPublic /\ nb \in Nat
  BY <1>a, <1>b
<1>2. s.n \in Nat /\ HashValues \subseteq F /\ k \in Upto(s.n) /\ c \in Circuits
  BY <1>1, InstanceIs, ValuesAssumption, UptoIs
<1>3. PICK cm \in Nat : Commits = Upto(cm)
  BY CommitsAre
<1>4. DOMAIN v = Upto(cm) /\ \A m \in Upto(cm) : v[m] \in F
  BY <1>2, <1>3 DEF Values
<1>5. Public(v)[k] \in F
  <2>1. k < nb => c.witness[v][k] \in F
    BY <1>1, WiresAre
  <2> QED BY <1>1, <1>2, <2>1, ZeroOne DEF Public
<1>6. Constants[k] \in F /\ Constants[k] = Row(c, k).qk
  <2>1. Row(c, k).qk \in F
    BY <1>2, RowIs
  <2> QED BY <1>1, <1>2, <2>1 DEF Constants
<1>7. PICK w : w = [m \in Upto(cm) |-> IF k = HashRow(m) THEN v[m] ELSE 0]
  OBVIOUS
<1>8. w \in Vec(cm) /\ \A m \in Upto(cm) : w[m] = IF k = HashRow(m) THEN v[m] ELSE 0
  BY <1>4, <1>7, ZeroOne DEF Vec
<1>9. Hashed(v)[k] = Total(w) /\ Total(w) \in F
  BY <1>2, <1>4, <1>7, <1>8, TotalType DEF Hashed
<1>10. QkOf(v)[k] = IF k < nb THEN c.witness[v][k]
                    ELSE IF \E m \in DOMAIN v : k = HashRow(m)
                    THEN v[CHOOSE m \in DOMAIN v : k = HashRow(m)]
                    ELSE Row(c, k).qk
  BY <1>1, <1>2 DEF QkOf, HashRow
<1>11. CASE \E m \in Upto(cm) : k = HashRow(m)
  <2>1. PICK a \in Upto(cm) : k = HashRow(a)
    BY <1>11
  <2>2. nb <= k /\ Row(c, k).qk = 0 /\ \A j \in Upto(cm) \ {a} : HashRow(j) # k
    BY <1>1, <1>3, <2>1, HashRows
  <2>3. (CHOOSE m \in DOMAIN v : k = HashRow(m)) = a
    BY <1>4, <2>1, <2>2
  <2>4. ~(k < nb)
    BY <2>2
  <2>5. QkOf(v)[k] = v[a]
    BY <1>4, <1>10, <2>1, <2>3, <2>4
  <2>6. Public(v)[k] = 0 /\ Constants[k] = 0
    BY <1>1, <1>2, <1>6, <2>2, <2>4 DEF Public
  <2>7. \A j \in Upto(cm) : j # a => w[j] = 0
    BY <1>8, <2>2
  <2>8. a \in Nat /\ a < cm
    BY UptoIs
  <2>9. Total(w) = w[a]
    BY <1>8, <2>7, <2>8, TotalOfOne
  <2>10. w[a] = v[a] /\ v[a] \in F
    BY <1>4, <1>8, <2>1
  <2>11. 0 (+) v[a] = v[a] /\ v[a] (+) 0 = v[a]
    BY <2>10, Neutral
  <2> QED BY <1>5, <1>6, <1>9, <2>5, <2>6, <2>9, <2>10, <2>11
<1>12. CASE ~\E m \in Upto(cm) : k = HashRow(m)
  <2>1. \A m \in Upto(cm) : w[m] = 0
    BY <1>8, <1>12
  <2>2. w = [m \in Upto(cm) |-> 0]
    BY <1>7, <1>8, <2>1
  <2>3. Hashed(v)[k] = 0
    BY <1>9, <2>2, TotalZero
  <2>4. CASE k < nb
    <3>1. Row(c, k).qk = 0
      BY <1>1, <2>4 DEF Row
    <3>2. QkOf(v)[k] = c.witness[v][k] /\ Public(v)[k] = c.witness[v][k]
      BY <1>1, <1>2, <1>10, <2>4 DEF Public
    <3>3. Public(v)[k] (+) 0 (+) 0 = Public(v)[k]
      BY <1>5, Neutral
    <3> QED BY <1>5, <1>6, <1>9, <2>3, <3>1, <3>2, <3>3
  <2>5. CASE ~(k < nb)
    <3>1. Public(v)[k] = 0
      BY <1>1, <1>2, <2>5 DEF Public
    <3>2. QkOf(v)[k] = Constants[k]
      BY <1>4, <1>6, <1>10, <1>12, <2>5
    <3>3. 0 (+) 0 (+) Constants[k] = Constants[k]
      BY <1>6, Neutral, ZeroOne
    <3> QED BY <1>5, <1>6, <1>9, <2>3, <3>1, <3>2, <3>3
  <2> QED BY <2>4, <2>5
<1> QED BY <1>11, <1>12

\* Qk is the sum of the three vectors.
LEMMA QkSum ==
  ASSUME Instance, NEW v \in Values
  PROVE  /\ Public(v) \in Vec(s.n) /\ Hashed(v) \in Vec(s.n) /\ Constants \in Vec(s.n)
         /\ QkOf(v) = SumOf(SumOf(Public(v), Hashed(v), s.n), Constants, s.n)
<1>1. PICK n \in Nat : n = s.n
  BY InstanceIs
<1>2. \A k \in Upto(n) : /\ Public(v)[k] \in F /\ Hashed(v)[k] \in F /\ Constants[k] \in F
                         /\ QkOf(v)[k] = Public(v)[k] (+) Hashed(v)[k] (+) Constants[k]
  <2> TAKE k \in Upto(n)
  <2>1. k \in Nat /\ k < s.n
    BY <1>1, UptoIs
  <2> QED BY <2>1, QkSplits
<1>3. PICK a, b, d, q : a = Public(v) /\ b = Hashed(v) /\ d = Constants /\ q = QkOf(v)
  OBVIOUS
<1>4. /\ a = [k \in Upto(n) |-> a[k]] /\ b = [k \in Upto(n) |-> b[k]]
      /\ d = [k \in Upto(n) |-> d[k]] /\ q = [k \in Upto(n) |-> q[k]]
  BY <1>1, <1>3 DEF Public, Hashed, Constants, QkOf
<1>5. a \in Vec(n) /\ b \in Vec(n) /\ d \in Vec(n)
  BY <1>2, <1>3, <1>4 DEF Vec
<1>6. \A k \in Upto(n) : q[k] = SumOf(a, b, n)[k] (+) d[k]
  BY <1>2, <1>3 DEF SumOf
<1>7. q = SumOf(SumOf(a, b, n), d, n)
  BY <1>4, <1>6 DEF SumOf
<1> QED BY <1>1, <1>3, <1>5, <1>7

\* Interpolating a sum.
LEMMA EvalPolySum ==
  ASSUME NEW n, Order(n), NEW p \in Vec(n), NEW q \in Vec(n), NEW z \in F, Power(z, n) # 1
  PROVE  SumOf(p, q, n) \in Vec(n) /\ Eval(Poly(SumOf(p, q, n)), z) = Eval(Poly(p), z) (+) Eval(Poly(q), z)
<1>1. n \in Nat
  BY OrderIs
<1>2. PICK r \in Vec(n) : r = SumOf(p, q, n)
  BY <1>1, EvalSum, ZeroOne
<1>3. \A k \in Upto(n) : Lagrange(n, k, z) \in F /\ p[k] \in F /\ q[k] \in F
  <2> TAKE k \in Upto(n)
  <2>1. k \in Nat
    BY <1>1, UptoIs
  <2> QED BY <2>1, LagrangeIs DEF Vec
<1>4. PICK a, b : a = [k \in Upto(n) |-> p[k] (.) Lagrange(n, k, z)]
                 /\ b = [k \in Upto(n) |-> q[k] (.) Lagrange(n, k, z)]
  OBVIOUS
<1>5. a \in Vec(n) /\ Eval(Poly(p), z) = Total(a) /\ b \in Vec(n) /\ Eval(Poly(q), z) = Total(b)
  BY <1>4, EvalPoly
<1>6. Eval(Poly(r), z) = Total([k \in Upto(n) |-> r[k] (.) Lagrange(n, k, z)])
  BY EvalPoly
<1>7. \A k \in Upto(n) : r[k] (.) Lagrange(n, k, z) = a[k] (+) b[k]
  BY <1>2, <1>3, <1>4, Distributes DEF SumOf
<1>8. [k \in Upto(n) |-> r[k] (.) Lagrange(n, k, z)] = [k \in Upto(n) |-> a[k] (+) b[k]]
  BY <1>7
<1>9. Total([k \in Upto(n) |-> a[k] (+) b[k]]) = Total(a) (+) Total(b)
  BY <1>1, <1>5, TotalAdd
<1> QED BY <1>2, <1>5, <1>6, <1>8, <1>9

\* The values of each at z.
LEMMA EvalPublic ==
  ASSUME Instance, NEW v \in Values, NEW z \in F, Power(z, s.n) # 1
  PROVE  Eval(Poly(Public(v)), z)
           = Total([k \in Upto(s.circuit.nbPublic) |-> s.circuit.witness[v][k] (.) LagrangeAt(k, z)])
<1>1. PICK n \in Nat, nb \in Nat : n = s.n /\ nb = s.circuit.nbPublic /\ nb <= n
  <2>1. /\ s.circuit.nbPublic \in Nat /\ Size(s.circuit.gates) \in Nat /\ s.n \in Nat
        /\ s.circuit.nbPublic + Size(s.circuit.gates) <= s.n
    BY InstanceIs, CircuitIs
  <2>2. s.circuit.nbPublic <= s.n
    BY <2>1
  <2> QED BY <2>1, <2>2
<1>2. Order(n)
  BY <1>1, InstanceIs
<1>3. PICK p \in Vec(n) : p = Public(v)
  BY <1>1, QkSum
<1>4. PICK a : a = [k \in Upto(n) |-> p[k] (.) Lagrange(n, k, z)]
  OBVIOUS
<1>5. a \in Vec(n) /\ Eval(Poly(p), z) = Total(a)
  BY <1>1, <1>2, <1>4, EvalPoly
<1>6. \A k \in Upto(n) : (k < 0 \/ k >= nb) => a[k] = 0
  <2> SUFFICES ASSUME NEW k \in Upto(n), k < 0 \/ k >= nb PROVE a[k] = 0
    OBVIOUS
  <2>1. k \in Nat /\ ~(k < nb)
    BY <1>1, UptoIs
  <2>2. p[k] = 0
    BY <1>1, <1>3, <2>1 DEF Public
  <2>3. Lagrange(n, k, z) \in F
    BY <1>1, <1>2, <2>1, LagrangeIs
  <2> QED BY <1>4, <2>2, <2>3, Neutral
<1>7. Total([k \in Upto(nb - 0) |-> a[0 + k]]) = Total(a)
  <2>1. 0 \in Nat /\ 0 <= nb
    BY <1>1
  <2> QED BY <1>1, <1>5, <1>6, <2>1, TotalWindow
<1>8. [k \in Upto(nb - 0) |-> a[0 + k]]
        = [k \in Upto(nb) |-> s.circuit.witness[v][k] (.) LagrangeAt(k, z)]
  <2>1. nb - 0 = nb
    BY <1>1
  <2>2. \A k \in Upto(nb) : a[0 + k] = s.circuit.witness[v][k] (.) LagrangeAt(k, z)
    <3> TAKE k \in Upto(nb)
    <3>1. k \in Nat /\ k < nb /\ 0 + k = k /\ k < n
      BY <1>1, UptoIs
    <3>2. k \in Upto(n)
      BY <1>1, <3>1, UptoIs
    <3>3. LagrangeAt(k, z) = Lagrange(n, k, z)
      BY <1>1, <3>1, LagrangeAtIs
    <3>4. p[k] = s.circuit.witness[v][k]
      BY <1>1, <1>3, <3>1, <3>2 DEF Public
    <3> QED BY <1>4, <3>1, <3>2, <3>3, <3>4
  <2> QED BY <2>1, <2>2
<1> QED BY <1>1, <1>3, <1>5, <1>7, <1>8

LEMMA EvalHashed ==
  ASSUME Instance, NEW v \in Values, NEW z \in F, Power(z, s.n) # 1
  PROVE  Eval(Poly(Hashed(v)), z) = Total([m \in DOMAIN v |-> v[m] (.) LagrangeAt(HashRow(m), z)])
<1>1. PICK n \in Nat : n = s.n
  BY InstanceIs
<1>2. Order(n) /\ HashValues \subseteq F
  BY <1>1, InstanceIs, ValuesAssumption
<1>3. PICK cm \in Nat : Commits = Upto(cm)
  BY CommitsAre
<1>4. DOMAIN v = Upto(cm) /\ \A m \in Upto(cm) : v[m] \in F
  BY <1>2, <1>3 DEF Values
<1>5. PICK p \in Vec(n) : p = Hashed(v)
  BY <1>1, QkSum
<1>6. Eval(Poly(p), z) = Total([k \in Upto(n) |-> p[k] (.) Lagrange(n, k, z)])
  BY <1>1, <1>2, EvalPoly
<1>7. \A k \in Upto(n) : Lagrange(n, k, z) \in F
  <2> TAKE k \in Upto(n)
  <2>1. k \in Nat
    BY <1>1, UptoIs
  <2> QED BY <1>1, <1>2, <2>1, LagrangeIs
<1>8. PICK a : a = [mk \in Upto(cm) \X Upto(n) |->
                      (IF mk[2] = HashRow(mk[1]) THEN v[mk[1]] ELSE 0) (.) Lagrange(n, mk[2], z)]
  OBVIOUS
<1>9. a \in [Upto(cm) \X Upto(n) -> F]
  BY <1>4, <1>7, <1>8, ZeroOne, Closed
<1>10. \A m \in Upto(cm), k \in Upto(n) :
          a[<<m, k>>] = (IF k = HashRow(m) THEN v[m] ELSE 0) (.) Lagrange(n, k, z)
  BY <1>8
<1>11. Total([m \in Upto(cm) |-> Total([k \in Upto(n) |-> a[<<m, k>>]])])
         = Total([k \in Upto(n) |-> Total([m \in Upto(cm) |-> a[<<m, k>>]])])
  BY <1>9, TotalSwap
<1>12. ASSUME NEW k \in Upto(n)
       PROVE  p[k] (.) Lagrange(n, k, z) = Total([m \in Upto(cm) |-> a[<<m, k>>]])
  <2>1. PICK w : w = [m \in Upto(cm) |-> IF k = HashRow(m) THEN v[m] ELSE 0]
    OBVIOUS
  <2>2. w \in Vec(cm) /\ \A m \in Upto(cm) : w[m] \in F
    BY <1>4, <2>1, ZeroOne DEF Vec
  <2>3. p[k] = Total(w) /\ Total(w) \in F
    BY <1>1, <1>4, <1>5, <2>1, <2>2, TotalType DEF Hashed
  <2>4. PICK lg \in F : lg = Lagrange(n, k, z)
    BY <1>7
  <2>5. Total([m \in Upto(cm) |-> lg (.) w[m]]) = lg (.) Total(w)
    BY <2>2, TotalScale
  <2>6. \A m \in Upto(cm) : lg (.) w[m] = a[<<m, k>>]
    <3> TAKE m \in Upto(cm)
    <3>1. a[<<m, k>>] = w[m] (.) lg
      BY <1>10, <2>1, <2>4
    <3> QED BY <2>2, <3>1, Commutes
  <2>7. [m \in Upto(cm) |-> lg (.) w[m]] = [m \in Upto(cm) |-> a[<<m, k>>]]
    BY <2>6
  <2>8. lg (.) Total(w) = Total(w) (.) lg
    BY <2>3, Commutes
  <2> QED BY <2>3, <2>4, <2>5, <2>7, <2>8
<1>13. [k \in Upto(n) |-> p[k] (.) Lagrange(n, k, z)]
         = [k \in Upto(n) |-> Total([m \in Upto(cm) |-> a[<<m, k>>]])]
  BY <1>12
<1>14. ASSUME NEW m \in Upto(cm)
       PROVE  Total([k \in Upto(n) |-> a[<<m, k>>]]) = v[m] (.) LagrangeAt(HashRow(m), z)
  <2>1. PICK r \in Nat : r = HashRow(m) /\ r < n
    BY <1>1, <1>3, HashRows
  <2>2. PICK u : u = [k \in Upto(n) |-> a[<<m, k>>]]
    OBVIOUS
  <2>3. u \in Vec(n)
    BY <1>9, <2>2 DEF Vec
  <2>4. \A k \in Upto(n) : k # r => u[k] = 0
    BY <1>7, <1>10, <2>1, <2>2, Neutral
  <2>5. Total(u) = u[r]
    BY <2>1, <2>3, <2>4, TotalOfOne
  <2>6. r \in Upto(n) /\ LagrangeAt(r, z) = Lagrange(n, r, z)
    BY <1>1, <2>1, UptoIs, LagrangeAtIs
  <2> QED BY <1>10, <2>1, <2>2, <2>5, <2>6
<1>15. [m \in Upto(cm) |-> Total([k \in Upto(n) |-> a[<<m, k>>]])]
         = [m \in Upto(cm) |-> v[m] (.) LagrangeAt(HashRow(m), z)]
  BY <1>14
<1> QED BY <1>4, <1>5, <1>6, <1>11, <1>13, <1>15

\* What the verifier sums is what solving added to Qk.
LEMMA PublicInputIs ==
  ASSUME Instance, val \in Values, NEW z \in F, Power(z, s.n) # 1
  PROVE  /\ PublicInput(z) \in F
         /\ Eval(Poly(QkOf(val)), z) = PublicInput(z) (+) Eval(s.trace.Qk, z)
<1>1. PICK n \in Nat : n = s.n /\ Order(n)
  BY InstanceIs
<1>2. PICK a, b, d \in Vec(n) : a = Public(val) /\ b = Hashed(val) /\ d = Constants
  BY <1>1, QkSum
<1>3. QkOf(val) = SumOf(SumOf(a, b, n), d, n)
  BY <1>1, <1>2, QkSum
<1>4. PICK e : e = SumOf(a, b, n)
  OBVIOUS
<1>5. e \in Vec(n) /\ Eval(Poly(e), z) = Eval(Poly(a), z) (+) Eval(Poly(b), z)
  BY <1>1, <1>2, <1>4, EvalPolySum
<1>6. Eval(Poly(SumOf(e, d, n)), z) = Eval(Poly(e), z) (+) Eval(Poly(d), z)
  BY <1>1, <1>2, <1>5, EvalPolySum
<1>7. PublicInput(z) = Eval(Poly(a), z) (+) Eval(Poly(b), z)
  BY <1>1, <1>2, EvalPublic, EvalHashed DEF PublicInput, HashRow
<1>8. s.trace.Qk = Poly(d)
  BY <1>1, <1>2, InstanceIs DEF Trace, Constants
<1>9. PublicInput(z) \in F
  <2>1. Poly(e) \in Vec(n)
    BY <1>1, <1>5, PolyIs
  <2> QED BY <1>5, <1>7, <2>1, EvalType
<1> QED BY <1>3, <1>4, <1>5, <1>6, <1>7, <1>8, <1>9

-------------------------------------------------------------------------------
(* The algebra of the verifier's two equations.                            *)

\* Each is one regrouping of a sum of products.
LEMMA LagrangeShape ==
  \A zh, iz, al, im \in F :
     zh (.) iz (.) al (.) al (.) im
       = al (.) al (.) (1 (.) zh (.) (im (.) iz))
<1> TAKE zh, iz, al, im \in F
<1>1. /\ zh \in Int /\ zh = Mod(zh)
      /\ iz \in Int /\ iz = Mod(iz)
      /\ al \in Int /\ al = Mod(al)
      /\ im \in Int /\ im = Mod(im)
  BY ModOfElement
<1>2. 1 \in Int /\ 1 = Mod(1)
  BY ZeroOne, ModOfElement
<1>3. PICK i1 \in Int : i1 = zh * iz
  BY <1>1
<1>4. zh (.) iz = Mod(i1) /\ i1 \in Int
  BY <1>1, <1>3, ModOps
<1>5. PICK i2 \in Int : i2 = i1 * al
  BY <1>4, <1>1
<1>6. zh (.) iz (.) al = Mod(i2) /\ i2 \in Int
  BY <1>4, <1>1, <1>5, ModOps
<1>7. PICK i3 \in Int : i3 = i2 * al
  BY <1>6, <1>1
<1>8. zh (.) iz (.) al (.) al = Mod(i3) /\ i3 \in Int
  BY <1>6, <1>1, <1>7, ModOps
<1>9. PICK i4 \in Int : i4 = i3 * im
  BY <1>8, <1>1
<1>10. zh (.) iz (.) al (.) al (.) im = Mod(i4) /\ i4 \in Int
  BY <1>8, <1>1, <1>9, ModOps
<1>11. PICK i5 \in Int : i5 = al * al
  BY <1>1
<1>12. al (.) al = Mod(i5) /\ i5 \in Int
  BY <1>1, <1>11, ModOps
<1>13. PICK i6 \in Int : i6 = 1 * zh
  BY <1>2, <1>1
<1>14. 1 (.) zh = Mod(i6) /\ i6 \in Int
  BY <1>2, <1>1, <1>13, ModOps
<1>15. PICK i7 \in Int : i7 = im * iz
  BY <1>1
<1>16. im (.) iz = Mod(i7) /\ i7 \in Int
  BY <1>1, <1>15, ModOps
<1>17. PICK i8 \in Int : i8 = i6 * i7
  BY <1>14, <1>16
<1>18. 1 (.) zh (.) (im (.) iz) = Mod(i8) /\ i8 \in Int
  BY <1>14, <1>16, <1>17, ModOps
<1>19. PICK i9 \in Int : i9 = i5 * i8
  BY <1>12, <1>18
<1>20. al (.) al (.) (1 (.) zh (.) (im (.) iz)) = Mod(i9) /\ i9 \in Int
  BY <1>12, <1>18, <1>19, ModOps
<1>21. i4 = i9
  BY <1>1, <1>3, <1>5, <1>7, <1>9, <1>11, <1>13, <1>15, <1>17, <1>19
<1> QED BY <1>10, <1>20, <1>21

LEMMA ThreeFolded ==
  \A d3, d2, d1, w \in F :
     (d3 (.) w (+) d2) (.) w (+) d1
       = d1 (+) w (.) d2 (+) w (.) w (.) d3
<1> TAKE d3, d2, d1, w \in F
<1>1. /\ d3 \in Int /\ d3 = Mod(d3)
      /\ d2 \in Int /\ d2 = Mod(d2)
      /\ d1 \in Int /\ d1 = Mod(d1)
      /\ w \in Int /\ w = Mod(w)
  BY ModOfElement
<1>2. PICK i1 \in Int : i1 = d3 * w
  BY <1>1
<1>3. d3 (.) w = Mod(i1) /\ i1 \in Int
  BY <1>1, <1>2, ModOps
<1>4. PICK i2 \in Int : i2 = i1 + d2
  BY <1>3, <1>1
<1>5. d3 (.) w (+) d2 = Mod(i2) /\ i2 \in Int
  BY <1>3, <1>1, <1>4, ModOps
<1>6. PICK i3 \in Int : i3 = i2 * w
  BY <1>5, <1>1
<1>7. (d3 (.) w (+) d2) (.) w = Mod(i3) /\ i3 \in Int
  BY <1>5, <1>1, <1>6, ModOps
<1>8. PICK i4 \in Int : i4 = i3 + d1
  BY <1>7, <1>1
<1>9. (d3 (.) w (+) d2) (.) w (+) d1 = Mod(i4) /\ i4 \in Int
  BY <1>7, <1>1, <1>8, ModOps
<1>10. PICK i5 \in Int : i5 = w * d2
  BY <1>1
<1>11. w (.) d2 = Mod(i5) /\ i5 \in Int
  BY <1>1, <1>10, ModOps
<1>12. PICK i6 \in Int : i6 = d1 + i5
  BY <1>1, <1>11
<1>13. d1 (+) w (.) d2 = Mod(i6) /\ i6 \in Int
  BY <1>1, <1>11, <1>12, ModOps
<1>14. PICK i7 \in Int : i7 = w * w
  BY <1>1
<1>15. w (.) w = Mod(i7) /\ i7 \in Int
  BY <1>1, <1>14, ModOps
<1>16. PICK i8 \in Int : i8 = i7 * d3
  BY <1>15, <1>1
<1>17. w (.) w (.) d3 = Mod(i8) /\ i8 \in Int
  BY <1>15, <1>1, <1>16, ModOps
<1>18. PICK i9 \in Int : i9 = i6 + i8
  BY <1>13, <1>17
<1>19. d1 (+) w (.) d2 (+) w (.) w (.) d3 = Mod(i9) /\ i9 \in Int
  BY <1>13, <1>17, <1>18, ModOps
<1>20. i4 = i9
  BY <1>1, <1>2, <1>4, <1>6, <1>8, <1>10, <1>12, <1>14, <1>16, <1>18
<1> QED BY <1>9, <1>19, <1>20

LEMMA Rotated ==
  \A p1, p2, p3 \in F :
     p1 (+) p2 (+) p3
       = p2 (+) p3 (+) p1
<1> TAKE p1, p2, p3 \in F
<1>1. /\ p1 \in Int /\ p1 = Mod(p1)
      /\ p2 \in Int /\ p2 = Mod(p2)
      /\ p3 \in Int /\ p3 = Mod(p3)
  BY ModOfElement
<1>2. PICK i1 \in Int : i1 = p1 + p2
  BY <1>1
<1>3. p1 (+) p2 = Mod(i1) /\ i1 \in Int
  BY <1>1, <1>2, ModOps
<1>4. PICK i2 \in Int : i2 = i1 + p3
  BY <1>3, <1>1
<1>5. p1 (+) p2 (+) p3 = Mod(i2) /\ i2 \in Int
  BY <1>3, <1>1, <1>4, ModOps
<1>6. PICK i3 \in Int : i3 = p2 + p3
  BY <1>1
<1>7. p2 (+) p3 = Mod(i3) /\ i3 \in Int
  BY <1>1, <1>6, ModOps
<1>8. PICK i4 \in Int : i4 = i3 + p1
  BY <1>7, <1>1
<1>9. p2 (+) p3 (+) p1 = Mod(i4) /\ i4 \in Int
  BY <1>7, <1>1, <1>8, ModOps
<1>10. i2 = i4
  BY <1>1, <1>2, <1>4, <1>6, <1>8
<1> QED BY <1>5, <1>9, <1>10

LEMMA MiddleFirst ==
  \A q, r, l \in F :
     q (.) (r (.) l)
       = l (.) r (.) q
<1> TAKE q, r, l \in F
<1>1. /\ q \in Int /\ q = Mod(q)
      /\ r \in Int /\ r = Mod(r)
      /\ l \in Int /\ l = Mod(l)
  BY ModOfElement
<1>2. PICK i1 \in Int : i1 = r * l
  BY <1>1
<1>3. r (.) l = Mod(i1) /\ i1 \in Int
  BY <1>1, <1>2, ModOps
<1>4. PICK i2 \in Int : i2 = q * i1
  BY <1>1, <1>3
<1>5. q (.) (r (.) l) = Mod(i2) /\ i2 \in Int
  BY <1>1, <1>3, <1>4, ModOps
<1>6. PICK i3 \in Int : i3 = l * r
  BY <1>1
<1>7. l (.) r = Mod(i3) /\ i3 \in Int
  BY <1>1, <1>6, ModOps
<1>8. PICK i4 \in Int : i4 = i3 * q
  BY <1>7, <1>1
<1>9. l (.) r (.) q = Mod(i4) /\ i4 \in Int
  BY <1>7, <1>1, <1>8, ModOps
<1>10. i2 = i4
  BY <1>1, <1>2, <1>4, <1>6, <1>8
<1> QED BY <1>5, <1>9, <1>10

LEMMA MiddleLast ==
  \A q, r, l \in F :
     q (.) (r (.) l)
       = q (.) l (.) r
<1> TAKE q, r, l \in F
<1>1. /\ q \in Int /\ q = Mod(q)
      /\ r \in Int /\ r = Mod(r)
      /\ l \in Int /\ l = Mod(l)
  BY ModOfElement
<1>2. PICK i1 \in Int : i1 = r * l
  BY <1>1
<1>3. r (.) l = Mod(i1) /\ i1 \in Int
  BY <1>1, <1>2, ModOps
<1>4. PICK i2 \in Int : i2 = q * i1
  BY <1>1, <1>3
<1>5. q (.) (r (.) l) = Mod(i2) /\ i2 \in Int
  BY <1>1, <1>3, <1>4, ModOps
<1>6. PICK i3 \in Int : i3 = q * l
  BY <1>1
<1>7. q (.) l = Mod(i3) /\ i3 \in Int
  BY <1>1, <1>6, ModOps
<1>8. PICK i4 \in Int : i4 = i3 * r
  BY <1>7, <1>1
<1>9. q (.) l (.) r = Mod(i4) /\ i4 \in Int
  BY <1>7, <1>1, <1>8, ModOps
<1>10. i2 = i4
  BY <1>1, <1>2, <1>4, <1>6, <1>8
<1> QED BY <1>5, <1>9, <1>10

LEMMA PulledOut ==
  \A y, pin, qk, tt \in F :
     y (+) (pin (+) qk) (+) tt
       = (y (+) qk (+) tt) (+) pin
<1> TAKE y, pin, qk, tt \in F
<1>1. /\ y \in Int /\ y = Mod(y)
      /\ pin \in Int /\ pin = Mod(pin)
      /\ qk \in Int /\ qk = Mod(qk)
      /\ tt \in Int /\ tt = Mod(tt)
  BY ModOfElement
<1>2. PICK i1 \in Int : i1 = pin + qk
  BY <1>1
<1>3. pin (+) qk = Mod(i1) /\ i1 \in Int
  BY <1>1, <1>2, ModOps
<1>4. PICK i2 \in Int : i2 = y + i1
  BY <1>1, <1>3
<1>5. y (+) (pin (+) qk) = Mod(i2) /\ i2 \in Int
  BY <1>1, <1>3, <1>4, ModOps
<1>6. PICK i3 \in Int : i3 = i2 + tt
  BY <1>5, <1>1
<1>7. y (+) (pin (+) qk) (+) tt = Mod(i3) /\ i3 \in Int
  BY <1>5, <1>1, <1>6, ModOps
<1>8. PICK i4 \in Int : i4 = y + qk
  BY <1>1
<1>9. y (+) qk = Mod(i4) /\ i4 \in Int
  BY <1>1, <1>8, ModOps
<1>10. PICK i5 \in Int : i5 = i4 + tt
  BY <1>9, <1>1
<1>11. y (+) qk (+) tt = Mod(i5) /\ i5 \in Int
  BY <1>9, <1>1, <1>10, ModOps
<1>12. PICK i6 \in Int : i6 = i5 + pin
  BY <1>11, <1>1
<1>13. y (+) qk (+) tt (+) pin = Mod(i6) /\ i6 \in Int
  BY <1>11, <1>1, <1>12, ModOps
<1>14. i3 = i6
  BY <1>1, <1>2, <1>4, <1>6, <1>8, <1>10, <1>12
<1> QED BY <1>7, <1>13, <1>14

LEMMA ThreeSum ==
  \A a, o, g \in F :
     a (+) o (+) g
       = a (+) (o (+) g)
<1> TAKE a, o, g \in F
<1>1. /\ a \in Int /\ a = Mod(a)
      /\ o \in Int /\ o = Mod(o)
      /\ g \in Int /\ g = Mod(g)
  BY ModOfElement
<1>2. PICK i1 \in Int : i1 = a + o
  BY <1>1
<1>3. a (+) o = Mod(i1) /\ i1 \in Int
  BY <1>1, <1>2, ModOps
<1>4. PICK i2 \in Int : i2 = i1 + g
  BY <1>3, <1>1
<1>5. a (+) o (+) g = Mod(i2) /\ i2 \in Int
  BY <1>3, <1>1, <1>4, ModOps
<1>6. PICK i3 \in Int : i3 = o + g
  BY <1>1
<1>7. o (+) g = Mod(i3) /\ i3 \in Int
  BY <1>1, <1>6, ModOps
<1>8. PICK i4 \in Int : i4 = a + i3
  BY <1>1, <1>7
<1>9. a (+) (o (+) g) = Mod(i4) /\ i4 \in Int
  BY <1>1, <1>7, <1>8, ModOps
<1>10. i2 = i4
  BY <1>1, <1>2, <1>4, <1>6, <1>8
<1> QED BY <1>5, <1>9, <1>10

LEMMA IdThird ==
  \A zt, b, u \in F :
     zt (.) b (.) (u (.) u)
       = b (.) (zt (.) u (.) u)
<1> TAKE zt, b, u \in F
<1>1. /\ zt \in Int /\ zt = Mod(zt)
      /\ b \in Int /\ b = Mod(b)
      /\ u \in Int /\ u = Mod(u)
  BY ModOfElement
<1>2. PICK i1 \in Int : i1 = zt * b
  BY <1>1
<1>3. zt (.) b = Mod(i1) /\ i1 \in Int
  BY <1>1, <1>2, ModOps
<1>4. PICK i2 \in Int : i2 = u * u
  BY <1>1
<1>5. u (.) u = Mod(i2) /\ i2 \in Int
  BY <1>1, <1>4, ModOps
<1>6. PICK i3 \in Int : i3 = i1 * i2
  BY <1>3, <1>5
<1>7. zt (.) b (.) (u (.) u) = Mod(i3) /\ i3 \in Int
  BY <1>3, <1>5, <1>6, ModOps
<1>8. PICK i4 \in Int : i4 = zt * u
  BY <1>1
<1>9. zt (.) u = Mod(i4) /\ i4 \in Int
  BY <1>1, <1>8, ModOps
<1>10. PICK i5 \in Int : i5 = i4 * u
  BY <1>9, <1>1
<1>11. zt (.) u (.) u = Mod(i5) /\ i5 \in Int
  BY <1>9, <1>1, <1>10, ModOps
<1>12. PICK i6 \in Int : i6 = b * i5
  BY <1>1, <1>11
<1>13. b (.) (zt (.) u (.) u) = Mod(i6) /\ i6 \in Int
  BY <1>1, <1>11, <1>12, ModOps
<1>14. i3 = i6
  BY <1>1, <1>2, <1>4, <1>6, <1>8, <1>10, <1>12
<1> QED BY <1>7, <1>13, <1>14

LEMMA IdSecond ==
  \A zt, b, u \in F :
     zt (.) b (.) u
       = b (.) (zt (.) u)
<1> TAKE zt, b, u \in F
<1>1. /\ zt \in Int /\ zt = Mod(zt)
      /\ b \in Int /\ b = Mod(b)
      /\ u \in Int /\ u = Mod(u)
  BY ModOfElement
<1>2. PICK i1 \in Int : i1 = zt * b
  BY <1>1
<1>3. zt (.) b = Mod(i1) /\ i1 \in Int
  BY <1>1, <1>2, ModOps
<1>4. PICK i2 \in Int : i2 = i1 * u
  BY <1>3, <1>1
<1>5. zt (.) b (.) u = Mod(i2) /\ i2 \in Int
  BY <1>3, <1>1, <1>4, ModOps
<1>6. PICK i3 \in Int : i3 = zt * u
  BY <1>1
<1>7. zt (.) u = Mod(i3) /\ i3 \in Int
  BY <1>1, <1>6, ModOps
<1>8. PICK i4 \in Int : i4 = b * i3
  BY <1>1, <1>7
<1>9. b (.) (zt (.) u) = Mod(i4) /\ i4 \in Int
  BY <1>1, <1>7, <1>8, ModOps
<1>10. i2 = i4
  BY <1>1, <1>2, <1>4, <1>6, <1>8
<1> QED BY <1>5, <1>9, <1>10

LEMMA TurnedId ==
  \A zt, u \in F :
     zt (.) u (.) u
       = u (.) u (.) zt
<1> TAKE zt, u \in F
<1>1. /\ zt \in Int /\ zt = Mod(zt)
      /\ u \in Int /\ u = Mod(u)
  BY ModOfElement
<1>2. PICK i1 \in Int : i1 = zt * u
  BY <1>1
<1>3. zt (.) u = Mod(i1) /\ i1 \in Int
  BY <1>1, <1>2, ModOps
<1>4. PICK i2 \in Int : i2 = i1 * u
  BY <1>3, <1>1
<1>5. zt (.) u (.) u = Mod(i2) /\ i2 \in Int
  BY <1>3, <1>1, <1>4, ModOps
<1>6. PICK i3 \in Int : i3 = u * u
  BY <1>1
<1>7. u (.) u = Mod(i3) /\ i3 \in Int
  BY <1>1, <1>6, ModOps
<1>8. PICK i4 \in Int : i4 = i3 * zt
  BY <1>7, <1>1
<1>9. u (.) u (.) zt = Mod(i4) /\ i4 \in Int
  BY <1>7, <1>1, <1>8, ModOps
<1>10. i2 = i4
  BY <1>1, <1>2, <1>4, <1>6, <1>8
<1> QED BY <1>5, <1>9, <1>10

LEMMA DigestShapesRing ==
  \A zt, ck, ss, gs, lg, qq \in F :
     zt (.) (0 (-) ck) (+) ss (+) gs (+) (zt (.) lg (-) qq)
       = gs (+) ss (+) ((lg (-) ck) (.) zt (-) qq)
<1> TAKE zt, ck, ss, gs, lg, qq \in F
<1>1. /\ zt \in Int /\ zt = Mod(zt)
      /\ ck \in Int /\ ck = Mod(ck)
      /\ ss \in Int /\ ss = Mod(ss)
      /\ gs \in Int /\ gs = Mod(gs)
      /\ lg \in Int /\ lg = Mod(lg)
      /\ qq \in Int /\ qq = Mod(qq)
  BY ModOfElement
<1>2. 0 \in Int /\ 0 = Mod(0)
  BY ZeroOne, ModOfElement
<1>3. PICK i1 \in Int : i1 = 0 - ck
  BY <1>2, <1>1
<1>4. 0 (-) ck = Mod(i1) /\ i1 \in Int
  BY <1>2, <1>1, <1>3, ModOps
<1>5. PICK i2 \in Int : i2 = zt * i1
  BY <1>1, <1>4
<1>6. zt (.) (0 (-) ck) = Mod(i2) /\ i2 \in Int
  BY <1>1, <1>4, <1>5, ModOps
<1>7. PICK i3 \in Int : i3 = i2 + ss
  BY <1>6, <1>1
<1>8. zt (.) (0 (-) ck) (+) ss = Mod(i3) /\ i3 \in Int
  BY <1>6, <1>1, <1>7, ModOps
<1>9. PICK i4 \in Int : i4 = i3 + gs
  BY <1>8, <1>1
<1>10. zt (.) (0 (-) ck) (+) ss (+) gs = Mod(i4) /\ i4 \in Int
  BY <1>8, <1>1, <1>9, ModOps
<1>11. PICK i5 \in Int : i5 = zt * lg
  BY <1>1
<1>12. zt (.) lg = Mod(i5) /\ i5 \in Int
  BY <1>1, <1>11, ModOps
<1>13. PICK i6 \in Int : i6 = i5 - qq
  BY <1>12, <1>1
<1>14. zt (.) lg (-) qq = Mod(i6) /\ i6 \in Int
  BY <1>12, <1>1, <1>13, ModOps
<1>15. PICK i7 \in Int : i7 = i4 + i6
  BY <1>10, <1>14
<1>16. zt (.) (0 (-) ck) (+) ss (+) gs (+) zt (.) lg (-) qq = Mod(i7) /\ i7 \in Int
  BY <1>10, <1>14, <1>15, ModOps
<1>17. PICK i8 \in Int : i8 = gs + ss
  BY <1>1
<1>18. gs (+) ss = Mod(i8) /\ i8 \in Int
  BY <1>1, <1>17, ModOps
<1>19. PICK i9 \in Int : i9 = lg - ck
  BY <1>1
<1>20. lg (-) ck = Mod(i9) /\ i9 \in Int
  BY <1>1, <1>19, ModOps
<1>21. PICK i10 \in Int : i10 = i9 * zt
  BY <1>20, <1>1
<1>22. (lg (-) ck) (.) zt = Mod(i10) /\ i10 \in Int
  BY <1>20, <1>1, <1>21, ModOps
<1>23. PICK i11 \in Int : i11 = i10 - qq
  BY <1>22, <1>1
<1>24. (lg (-) ck) (.) zt (-) qq = Mod(i11) /\ i11 \in Int
  BY <1>22, <1>1, <1>23, ModOps
<1>25. PICK i12 \in Int : i12 = i8 + i11
  BY <1>18, <1>24
<1>26. gs (+) ss (+) (lg (-) ck) (.) zt (-) qq = Mod(i12) /\ i12 \in Int
  BY <1>18, <1>24, <1>25, ModOps
<1>27. i7 = i12
  BY <1>1, <1>3, <1>5, <1>7, <1>9, <1>11, <1>13, <1>15, <1>17, <1>19, <1>21, <1>23, <1>25
<1> QED BY <1>16, <1>26, <1>27

DigestShape(zt, ck, ss, gs, lg, qq) ==
  zt (.) (0 (-) ck) (+) ss (+) gs (+) (zt (.) lg (-) qq)
    = gs (+) ss (+) ((lg (-) ck) (.) zt (-) qq)

LEMMA DigestShapes == \A zt, ck, ss, gs, lg, qq \in F : DigestShape(zt, ck, ss, gs, lg, qq)
BY DigestShapesRing DEF DigestShape

LEMMA LeftShapesRing ==
  \A pp, b, s3, og, zu, al \in F :
     pp (.) (b (.) s3 (+) og) (.) zu (.) al
       = s3 (.) (pp (.) zu (.) b (.) al) (+) pp (.) og (.) al (.) zu
<1> TAKE pp, b, s3, og, zu, al \in F
<1>1. /\ pp \in Int /\ pp = Mod(pp)
      /\ b \in Int /\ b = Mod(b)
      /\ s3 \in Int /\ s3 = Mod(s3)
      /\ og \in Int /\ og = Mod(og)
      /\ zu \in Int /\ zu = Mod(zu)
      /\ al \in Int /\ al = Mod(al)
  BY ModOfElement
<1>2. PICK i1 \in Int : i1 = b * s3
  BY <1>1
<1>3. b (.) s3 = Mod(i1) /\ i1 \in Int
  BY <1>1, <1>2, ModOps
<1>4. PICK i2 \in Int : i2 = i1 + og
  BY <1>3, <1>1
<1>5. b (.) s3 (+) og = Mod(i2) /\ i2 \in Int
  BY <1>3, <1>1, <1>4, ModOps
<1>6. PICK i3 \in Int : i3 = pp * i2
  BY <1>1, <1>5
<1>7. pp (.) (b (.) s3 (+) og) = Mod(i3) /\ i3 \in Int
  BY <1>1, <1>5, <1>6, ModOps
<1>8. PICK i4 \in Int : i4 = i3 * zu
  BY <1>7, <1>1
<1>9. pp (.) (b (.) s3 (+) og) (.) zu = Mod(i4) /\ i4 \in Int
  BY <1>7, <1>1, <1>8, ModOps
<1>10. PICK i5 \in Int : i5 = i4 * al
  BY <1>9, <1>1
<1>11. pp (.) (b (.) s3 (+) og) (.) zu (.) al = Mod(i5) /\ i5 \in Int
  BY <1>9, <1>1, <1>10, ModOps
<1>12. PICK i6 \in Int : i6 = pp * zu
  BY <1>1
<1>13. pp (.) zu = Mod(i6) /\ i6 \in Int
  BY <1>1, <1>12, ModOps
<1>14. PICK i7 \in Int : i7 = i6 * b
  BY <1>13, <1>1
<1>15. pp (.) zu (.) b = Mod(i7) /\ i7 \in Int
  BY <1>13, <1>1, <1>14, ModOps
<1>16. PICK i8 \in Int : i8 = i7 * al
  BY <1>15, <1>1
<1>17. pp (.) zu (.) b (.) al = Mod(i8) /\ i8 \in Int
  BY <1>15, <1>1, <1>16, ModOps
<1>18. PICK i9 \in Int : i9 = s3 * i8
  BY <1>1, <1>17
<1>19. s3 (.) (pp (.) zu (.) b (.) al) = Mod(i9) /\ i9 \in Int
  BY <1>1, <1>17, <1>18, ModOps
<1>20. PICK i10 \in Int : i10 = pp * og
  BY <1>1
<1>21. pp (.) og = Mod(i10) /\ i10 \in Int
  BY <1>1, <1>20, ModOps
<1>22. PICK i11 \in Int : i11 = i10 * al
  BY <1>21, <1>1
<1>23. pp (.) og (.) al = Mod(i11) /\ i11 \in Int
  BY <1>21, <1>1, <1>22, ModOps
<1>24. PICK i12 \in Int : i12 = i11 * zu
  BY <1>23, <1>1
<1>25. pp (.) og (.) al (.) zu = Mod(i12) /\ i12 \in Int
  BY <1>23, <1>1, <1>24, ModOps
<1>26. PICK i13 \in Int : i13 = i9 + i12
  BY <1>19, <1>25
<1>27. s3 (.) (pp (.) zu (.) b (.) al) (+) pp (.) og (.) al (.) zu = Mod(i13) /\ i13 \in Int
  BY <1>19, <1>25, <1>26, ModOps
<1>28. i5 = i13
  BY <1>1, <1>2, <1>4, <1>6, <1>8, <1>10, <1>12, <1>14, <1>16, <1>18, <1>20, <1>22, <1>24, <1>26
<1> QED BY <1>11, <1>27, <1>28

LeftShape(pp, b, s3, og, zu, al) ==
  pp (.) (b (.) s3 (+) og) (.) zu (.) al
    = s3 (.) (pp (.) zu (.) b (.) al) (+) pp (.) og (.) al (.) zu

LEMMA LeftShapes == \A pp, b, s3, og, zu, al \in F : LeftShape(pp, b, s3, og, zu, al)
BY LeftShapesRing DEF LeftShape

LEMMA NumShapesRing ==
  \A zt, lone, al, lf, rg, gs \in F :
     ((zt (-) 1) (.) lone (.) al (+) (lf (-) rg)) (.) al (+) gs
       = (zt (.) (al (.) al (.) lone) (-) al (.) al (.) lone) (+) (lf (.) al (-) rg (.) al) (+) gs
<1> TAKE zt, lone, al, lf, rg, gs \in F
<1>1. /\ zt \in Int /\ zt = Mod(zt)
      /\ lone \in Int /\ lone = Mod(lone)
      /\ al \in Int /\ al = Mod(al)
      /\ lf \in Int /\ lf = Mod(lf)
      /\ rg \in Int /\ rg = Mod(rg)
      /\ gs \in Int /\ gs = Mod(gs)
  BY ModOfElement
<1>2. 1 \in Int /\ 1 = Mod(1)
  BY ZeroOne, ModOfElement
<1>3. PICK i1 \in Int : i1 = zt - 1
  BY <1>1, <1>2
<1>4. zt (-) 1 = Mod(i1) /\ i1 \in Int
  BY <1>1, <1>2, <1>3, ModOps
<1>5. PICK i2 \in Int : i2 = i1 * lone
  BY <1>4, <1>1
<1>6. (zt (-) 1) (.) lone = Mod(i2) /\ i2 \in Int
  BY <1>4, <1>1, <1>5, ModOps
<1>7. PICK i3 \in Int : i3 = i2 * al
  BY <1>6, <1>1
<1>8. (zt (-) 1) (.) lone (.) al = Mod(i3) /\ i3 \in Int
  BY <1>6, <1>1, <1>7, ModOps
<1>9. PICK i4 \in Int : i4 = lf - rg
  BY <1>1
<1>10. lf (-) rg = Mod(i4) /\ i4 \in Int
  BY <1>1, <1>9, ModOps
<1>11. PICK i5 \in Int : i5 = i3 + i4
  BY <1>8, <1>10
<1>12. (zt (-) 1) (.) lone (.) al (+) lf (-) rg = Mod(i5) /\ i5 \in Int
  BY <1>8, <1>10, <1>11, ModOps
<1>13. PICK i6 \in Int : i6 = i5 * al
  BY <1>12, <1>1
<1>14. ((zt (-) 1) (.) lone (.) al (+) lf (-) rg) (.) al = Mod(i6) /\ i6 \in Int
  BY <1>12, <1>1, <1>13, ModOps
<1>15. PICK i7 \in Int : i7 = i6 + gs
  BY <1>14, <1>1
<1>16. ((zt (-) 1) (.) lone (.) al (+) lf (-) rg) (.) al (+) gs = Mod(i7) /\ i7 \in Int
  BY <1>14, <1>1, <1>15, ModOps
<1>17. PICK i8 \in Int : i8 = al * al
  BY <1>1
<1>18. al (.) al = Mod(i8) /\ i8 \in Int
  BY <1>1, <1>17, ModOps
<1>19. PICK i9 \in Int : i9 = i8 * lone
  BY <1>18, <1>1
<1>20. al (.) al (.) lone = Mod(i9) /\ i9 \in Int
  BY <1>18, <1>1, <1>19, ModOps
<1>21. PICK i10 \in Int : i10 = zt * i9
  BY <1>1, <1>20
<1>22. zt (.) (al (.) al (.) lone) = Mod(i10) /\ i10 \in Int
  BY <1>1, <1>20, <1>21, ModOps
<1>23. PICK i11 \in Int : i11 = i10 - i9
  BY <1>22, <1>20
<1>24. zt (.) (al (.) al (.) lone) (-) al (.) al (.) lone = Mod(i11) /\ i11 \in Int
  BY <1>22, <1>20, <1>23, ModOps
<1>25. PICK i12 \in Int : i12 = lf * al
  BY <1>1
<1>26. lf (.) al = Mod(i12) /\ i12 \in Int
  BY <1>1, <1>25, ModOps
<1>27. PICK i13 \in Int : i13 = rg * al
  BY <1>1
<1>28. rg (.) al = Mod(i13) /\ i13 \in Int
  BY <1>1, <1>27, ModOps
<1>29. PICK i14 \in Int : i14 = i12 - i13
  BY <1>26, <1>28
<1>30. lf (.) al (-) rg (.) al = Mod(i14) /\ i14 \in Int
  BY <1>26, <1>28, <1>29, ModOps
<1>31. PICK i15 \in Int : i15 = i11 + i14
  BY <1>24, <1>30
<1>32. zt (.) (al (.) al (.) lone) (-) al (.) al (.) lone (+) lf (.) al (-) rg (.) al = Mod(i15) /\ i15 \in Int
  BY <1>24, <1>30, <1>31, ModOps
<1>33. PICK i16 \in Int : i16 = i15 + gs
  BY <1>32, <1>1
<1>34. zt (.) (al (.) al (.) lone) (-) al (.) al (.) lone (+) lf (.) al (-) rg (.) al (+) gs = Mod(i16) /\ i16 \in Int
  BY <1>32, <1>1, <1>33, ModOps
<1>35. i7 = i16
  BY <1>1, <1>3, <1>5, <1>7, <1>9, <1>11, <1>13, <1>15, <1>17, <1>19, <1>21, <1>23, <1>25, <1>27, <1>29, <1>31, <1>33
<1> QED BY <1>16, <1>34, <1>35

NumShape(zt, lone, al, lf, rg, gs) ==
  ((zt (-) 1) (.) lone (.) al (+) (lf (-) rg)) (.) al (+) gs
    = (zt (.) (al (.) al (.) lone) (-) al (.) al (.) lone) (+) (lf (.) al (-) rg (.) al) (+) gs

LEMMA NumShapes == \A zt, lone, al, lf, rg, gs \in F : NumShape(zt, lone, al, lf, rg, gs)
BY NumShapesRing DEF NumShape

LEMMA ClaimShapesRing ==
  \A zk, xx, gs, zl, lg, yy, pin \in F :
     (0 (-) zk) (+) xx (+) gs (+) (zl (-) ((zl (-) lg) (+) ((xx (+) yy) (-) zk) (+) (gs (+) pin)))
       = lg (-) pin (-) yy
<1> TAKE zk, xx, gs, zl, lg, yy, pin \in F
<1>1. /\ zk \in Int /\ zk = Mod(zk)
      /\ xx \in Int /\ xx = Mod(xx)
      /\ gs \in Int /\ gs = Mod(gs)
      /\ zl \in Int /\ zl = Mod(zl)
      /\ lg \in Int /\ lg = Mod(lg)
      /\ yy \in Int /\ yy = Mod(yy)
      /\ pin \in Int /\ pin = Mod(pin)
  BY ModOfElement
<1>2. 0 \in Int /\ 0 = Mod(0)
  BY ZeroOne, ModOfElement
<1>3. PICK i1 \in Int : i1 = 0 - zk
  BY <1>2, <1>1
<1>4. 0 (-) zk = Mod(i1) /\ i1 \in Int
  BY <1>2, <1>1, <1>3, ModOps
<1>5. PICK i2 \in Int : i2 = i1 + xx
  BY <1>4, <1>1
<1>6. 0 (-) zk (+) xx = Mod(i2) /\ i2 \in Int
  BY <1>4, <1>1, <1>5, ModOps
<1>7. PICK i3 \in Int : i3 = i2 + gs
  BY <1>6, <1>1
<1>8. 0 (-) zk (+) xx (+) gs = Mod(i3) /\ i3 \in Int
  BY <1>6, <1>1, <1>7, ModOps
<1>9. PICK i4 \in Int : i4 = zl - lg
  BY <1>1
<1>10. zl (-) lg = Mod(i4) /\ i4 \in Int
  BY <1>1, <1>9, ModOps
<1>11. PICK i5 \in Int : i5 = xx + yy
  BY <1>1
<1>12. xx (+) yy = Mod(i5) /\ i5 \in Int
  BY <1>1, <1>11, ModOps
<1>13. PICK i6 \in Int : i6 = i5 - zk
  BY <1>12, <1>1
<1>14. (xx (+) yy) (-) zk = Mod(i6) /\ i6 \in Int
  BY <1>12, <1>1, <1>13, ModOps
<1>15. PICK i7 \in Int : i7 = i4 + i6
  BY <1>10, <1>14
<1>16. zl (-) lg (+) (xx (+) yy) (-) zk = Mod(i7) /\ i7 \in Int
  BY <1>10, <1>14, <1>15, ModOps
<1>17. PICK i8 \in Int : i8 = gs + pin
  BY <1>1
<1>18. gs (+) pin = Mod(i8) /\ i8 \in Int
  BY <1>1, <1>17, ModOps
<1>19. PICK i9 \in Int : i9 = i7 + i8
  BY <1>16, <1>18
<1>20. zl (-) lg (+) (xx (+) yy) (-) zk (+) (gs (+) pin) = Mod(i9) /\ i9 \in Int
  BY <1>16, <1>18, <1>19, ModOps
<1>21. PICK i10 \in Int : i10 = zl - i9
  BY <1>1, <1>20
<1>22. zl (-) (zl (-) lg (+) (xx (+) yy) (-) zk (+) (gs (+) pin)) = Mod(i10) /\ i10 \in Int
  BY <1>1, <1>20, <1>21, ModOps
<1>23. PICK i11 \in Int : i11 = i3 + i10
  BY <1>8, <1>22
<1>24. 0 (-) zk (+) xx (+) gs (+) zl (-) (zl (-) lg (+) (xx (+) yy) (-) zk (+) (gs (+) pin)) = Mod(i11) /\ i11 \in Int
  BY <1>8, <1>22, <1>23, ModOps
<1>25. PICK i12 \in Int : i12 = lg - pin
  BY <1>1
<1>26. lg (-) pin = Mod(i12) /\ i12 \in Int
  BY <1>1, <1>25, ModOps
<1>27. PICK i13 \in Int : i13 = i12 - yy
  BY <1>26, <1>1
<1>28. lg (-) pin (-) yy = Mod(i13) /\ i13 \in Int
  BY <1>26, <1>1, <1>27, ModOps
<1>29. i11 = i13
  BY <1>1, <1>3, <1>5, <1>7, <1>9, <1>11, <1>13, <1>15, <1>17, <1>19, <1>21, <1>23, <1>25, <1>27
<1> QED BY <1>24, <1>28, <1>29

ClaimShape(zk, xx, gs, zl, lg, yy, pin) ==
  (0 (-) zk) (+) xx (+) gs
      (+) (zl (-) ((zl (-) lg) (+) ((xx (+) yy) (-) zk) (+) (gs (+) pin)))
    = lg (-) pin (-) yy

LEMMA ClaimShapes == \A zk, xx, gs, zl, lg, yy, pin \in F : ClaimShape(zk, xx, gs, zl, lg, yy, pin)
BY ClaimShapesRing DEF ClaimShape

LEMMA NegatedProduct ==
  \A zt, ck \in F :
     zt (.) (0 (-) ck)
       = 0 (-) zt (.) ck
<1> TAKE zt, ck \in F
<1>1. /\ zt \in Int /\ zt = Mod(zt)
      /\ ck \in Int /\ ck = Mod(ck)
  BY ModOfElement
<1>2. 0 \in Int /\ 0 = Mod(0)
  BY ZeroOne, ModOfElement
<1>3. PICK i1 \in Int : i1 = 0 - ck
  BY <1>2, <1>1
<1>4. 0 (-) ck = Mod(i1) /\ i1 \in Int
  BY <1>2, <1>1, <1>3, ModOps
<1>5. PICK i2 \in Int : i2 = zt * i1
  BY <1>1, <1>4
<1>6. zt (.) (0 (-) ck) = Mod(i2) /\ i2 \in Int
  BY <1>1, <1>4, <1>5, ModOps
<1>7. PICK i3 \in Int : i3 = zt * ck
  BY <1>1
<1>8. zt (.) ck = Mod(i3) /\ i3 \in Int
  BY <1>1, <1>7, ModOps
<1>9. PICK i4 \in Int : i4 = 0 - i3
  BY <1>2, <1>8
<1>10. 0 (-) zt (.) ck = Mod(i4) /\ i4 \in Int
  BY <1>2, <1>8, <1>9, ModOps
<1>11. i2 = i4
  BY <1>1, <1>3, <1>5, <1>7, <1>9
<1> QED BY <1>6, <1>10, <1>11

LEMMA ScaledRight ==
  \A cc, zt, al \in F :
     cc (.) zt (.) al
       = zt (.) (cc (.) al)
<1> TAKE cc, zt, al \in F
<1>1. /\ cc \in Int /\ cc = Mod(cc)
      /\ zt \in Int /\ zt = Mod(zt)
      /\ al \in Int /\ al = Mod(al)
  BY ModOfElement
<1>2. PICK i1 \in Int : i1 = cc * zt
  BY <1>1
<1>3. cc (.) zt = Mod(i1) /\ i1 \in Int
  BY <1>1, <1>2, ModOps
<1>4. PICK i2 \in Int : i2 = i1 * al
  BY <1>3, <1>1
<1>5. cc (.) zt (.) al = Mod(i2) /\ i2 \in Int
  BY <1>3, <1>1, <1>4, ModOps
<1>6. PICK i3 \in Int : i3 = cc * al
  BY <1>1
<1>7. cc (.) al = Mod(i3) /\ i3 \in Int
  BY <1>1, <1>6, ModOps
<1>8. PICK i4 \in Int : i4 = zt * i3
  BY <1>1, <1>7
<1>9. zt (.) (cc (.) al) = Mod(i4) /\ i4 \in Int
  BY <1>1, <1>7, <1>8, ModOps
<1>10. i2 = i4
  BY <1>1, <1>2, <1>4, <1>6, <1>8
<1> QED BY <1>5, <1>9, <1>10

-------------------------------------------------------------------------------
\* The first Lagrange polynomial, as the three places write it.
LEMMA LagrangeZero ==
  ASSUME Instance, NEW z \in F, Power(z, s.n) # 1, NEW a \in F
  PROVE  /\ LagrangeAt(0, z) \in F /\ Lone(z) = LagrangeAt(0, z)
         /\ (Power(z, s.n) (-) 1) (.) Inv(z (-) 1) (.) a (.) a (.) Inv(s.n) = a (.) a (.) LagrangeAt(0, z)
<1>1. Order(s.n) /\ s.n \in Nat /\ 0 \in Nat /\ 0 < s.n /\ s.n \in F \ {0}
  BY InstanceIs, OrderIs
<1>2. PICK zh, y, one : zh = Power(z, s.n) (-) 1 /\ y = z (-) 1 /\ one = 1
  OBVIOUS
<1>3. zh \in F /\ y \in F /\ one \in F
  BY <1>1, <1>2, PowerLaws, Closed, ZeroOne
<1>4. y # 0
  <2>1. z # 1
    BY <1>1, PowerOne
  <2> QED BY <1>2, <2>1, SubZero, ZeroOne
<1>5. Inv(s.n) \in F /\ Inv(y) \in F /\ Inv(s.n (.) y) = Inv(s.n) (.) Inv(y)
  BY <1>1, <1>3, <1>4, NonzeroProduct, InvType
<1>6. Power(Generator(s.n), 0) = one
  BY <1>1, <1>2, GeneratorIs, PowerLaws
<1>7. LagrangeAt(0, z) = Lagrange(s.n, 0, z)
  BY <1>1, LagrangeAtIs
<1>8. Lagrange(s.n, 0, z) = one (.) zh (.) (Inv(s.n) (.) Inv(y))
  BY <1>2, <1>5, <1>6 DEF Lagrange
<1>9. Lagrange(s.n, 0, z) \in F
  BY <1>3, <1>5, <1>8, Closed
<1>10. zh (.) Inv(y) (.) a (.) a (.) Inv(s.n) = a (.) a (.) (1 (.) zh (.) (Inv(s.n) (.) Inv(y)))
  BY <1>3, <1>5, LagrangeShape
<1> QED BY <1>2, <1>7, <1>8, <1>9, <1>10, LoneOutside

\* The power that separates the shards.
LEMMA PowerPlusTwo ==
  ASSUME NEW n \in Nat, NEW z \in F
  PROVE  /\ Power(z, n + 2) = Power(z, n) (.) z (.) z
         /\ Power(z, n + 2) \in F /\ Power(z, n) \in F
<1>1. n + 1 \in Nat /\ n + 2 \in Nat /\ n + 2 = (n + 1) + 1
  OBVIOUS
<1>2. Power(z, n + 1) = z (.) Power(z, n) /\ Power(z, n) \in F /\ Power(z, n + 1) \in F
  BY <1>1, PowerLaws
<1>3. Power(z, n + 2) = z (.) Power(z, n + 1) /\ Power(z, n + 2) \in F
  BY <1>1, PowerLaws
<1>4. z (.) Power(z, n) = Power(z, n) (.) z /\ Power(z, n) (.) z \in F
  BY <1>2, Commutes, Closed
<1>5. z (.) (Power(z, n) (.) z) = Power(z, n) (.) z (.) z
  BY <1>4, Commutes
<1> QED BY <1>2, <1>3, <1>4, <1>5

\* The verifier's two equations, of the linearised polynomial's value lin and
\* digest and of the other claims.
Plussed(a, b) == a (+) chal.beta (.) b (+) chal.gamma

Accepted(lin, digest, l, r, o, s1, s2) ==
    LET qcp == [m \in DOMAIN s.trace.Qcp |-> Eval(s.trace.Qcp[m], chal.zeta)]
    IN  /\ lin = chal.alpha (.) chal.alpha (.) LagrangeAt(0, chal.zeta)
                   (-) PublicInput(chal.zeta)
                   (-) Plussed(l, s1) (.) Plussed(r, s2) (.) (o (+) chal.gamma)
                         (.) chal.alpha (.) proof.zu
        /\ digest = VerifierDigest(l, r, o, s1, s2, qcp, proof.zu)

\* VerifierAccepts says that the opened polynomials are accepted.
LEMMA AcceptedIs ==
  VerifierAccepts <=>
    (pc = "done" => Accepted(Eval(opened[1], chal.zeta), Commit(opened[1]), Eval(opened[2], chal.zeta),
       Eval(opened[3], chal.zeta), Eval(opened[4], chal.zeta), Eval(opened[5], chal.zeta),
       Eval(opened[6], chal.zeta)))
BY DEF VerifierAccepts, Accepted, Plussed

\* What the stages before leave to computeLinearizedPolynomial.
Linearising(m) ==
  /\ Instance /\ Complete(x) /\ Blinders(bp) /\ Challenged /\ m \in Nat /\ Commits = Upto(m)
  /\ KeptBy(x) /\ val \in Values /\ SolvedBy(x, val) /\ h \in Vec(s.big) /\ blindedZ \in Vec(s.n + 3)
  /\ proof.zu \in F /\ proof.Z = Commit(blindedZ)
  /\ \A j \in Commits : proof.bsb[j] = Eval(x.Pi2[j], Tau)
  /\ Divided(h, chal.zeta, NumAt(x, bp, chal, Eval(blindedZ, chal.zeta), proof.zu, chal.zeta))

\* It follows from the invariants.
LEMMA LinearisingIs ==
  ASSUME IInv, Sound, pc = "linearise"
  PROVE  \E m \in Nat : Linearising(m)
<1>1. Typed /\ Matches
  BY DEF IInv
<1>2. /\ Instance /\ Blinders(bp) /\ h \in Vec(s.big) /\ blindedZ \in Vec(s.n + 3) /\ proof.zu \in F
      /\ Challenged /\ FieldsOK(x, pc, s.n, Commits)
  BY <1>1 DEF Typed, ChallengesOK, Late, Opening, Challenged
<1>3. Complete(x)
  <2>1. pc \in Stages \ {"solve", "ratio"}
    BY DEF Stages, Late
  <2> QED BY <1>2, <2>1, CompleteIs
<1>4. PICK m \in Nat : Commits = Upto(m)
  BY <1>2, CommitsAre
<1>5. Plain = x
  BY DEF Plain
<1>6. KeptBy(x) /\ val \in Values /\ SolvedBy(x, val)
  BY <1>5 DEF Sound
<1>7. Divided(h, chal.zeta, NumAt(x, bp, chal, Eval(blindedZ, chal.zeta), proof.zu, chal.zeta))
  BY DEF Sound
<1>8. proof.Z = Commit(blindedZ)
  BY <1>1 DEF Matches
<1>9. \A j \in Commits : proof.bsb[j] = Eval(x.Pi2[j], Tau)
  BY <1>1, Unscaled DEF Matches
<1> QED BY <1>2, <1>3, <1>4, <1>6, <1>7, <1>8, <1>9 DEF Linearising

\* The evaluations at t.
LEMMA ValuesAt ==
  ASSUME NEW m, Linearising(m), NEW t \in F
  PROVE  /\ Eval(x.Ql, t) \in F /\ Eval(x.Qr, t) \in F /\ Eval(x.Qm, t) \in F /\ Eval(x.Qo, t) \in F
         /\ Eval(x.S1, t) \in F /\ Eval(x.S2, t) \in F /\ Eval(x.S3, t) \in F
         /\ Eval(x.Qk, t) \in F /\ Eval(s.trace.Qk, t) \in F /\ Eval(blindedZ, t) \in F
         /\ \A j \in Upto(m) : Eval(x.Pi2[j], t) \in F /\ Eval(x.Qcp[j], t) \in F
<1>1. PICK n \in Nat, b \in Nat : n = s.n /\ b = s.n + 3 /\ Instance
  <2>1. Instance /\ s.n \in Nat
    BY InstanceIs DEF Linearising
  <2> QED BY <2>1
<1>2. /\ x.Ql \in Vec(n) /\ x.Qr \in Vec(n) /\ x.Qm \in Vec(n) /\ x.Qo \in Vec(n) /\ x.Qk \in Vec(n)
      /\ x.S1 \in Vec(n) /\ x.S2 \in Vec(n) /\ x.S3 \in Vec(n)
      /\ \A j \in Upto(m) : x.Pi2[j] \in Vec(n) /\ x.Qcp[j] \in Vec(n)
  BY <1>1 DEF Linearising, Complete, AllFields, Selectors, Vectors
<1>3. s.trace.Qk \in Vec(n) /\ blindedZ \in Vec(b)
  BY <1>1, InstanceIs, TraceType DEF Selectors, Linearising
<1> QED BY <1>1, <1>2, <1>3, EvalType

\* The scalars are field elements and the openings are what the claims are.
LEMMA ScalarsAre ==
  ASSUME NEW m, Linearising(m), NEW e, e = Openings, NEW sc, sc = Scalars(e.l, e.r, e.o, proof.zu)
  PROVE  /\ e.l \in F /\ e.r \in F /\ e.o \in F /\ e.qcp \in Vec(m) /\ Scaled(sc)
         /\ e.l = evaluateBlinded(x.L, bp.L, chal.zeta) /\ e.r = evaluateBlinded(x.R, bp.R, chal.zeta)
         /\ e.o = evaluateBlinded(x.O, bp.O, chal.zeta)
         /\ e.qcp = [j \in Upto(m) |-> Eval(x.Qcp[j], chal.zeta)]
<1>1. /\ Instance /\ Complete(x) /\ Blinders(bp) /\ Challenged /\ m \in Nat /\ Commits = Upto(m)
      /\ chal.zeta \in F /\ proof.zu \in F
  BY DEF Linearising, Challenged
<1>2. e.l \in F /\ e.r \in F /\ e.o \in F /\ e.qcp \in Vec(m)
  BY <1>1, OpeningsType
<1>3. Scaled(sc)
  BY <1>1, <1>2, ScalarsType
<1>4. DOMAIN x.Qcp = Upto(m)
  BY <1>1 DEF Complete, Vectors
<1> QED BY <1>2, <1>3, <1>4 DEF Openings

-------------------------------------------------------------------------------
\* The three wires' factors, in the prover's order and in the verifier's.
LEMMA IdFactors ==
  ASSUME Challenged, NEW l \in F, NEW r \in F, NEW o \in F
  PROVE  LET zeta == chal.zeta
             c1   == Plussed(l, zeta)
             c2   == Plussed(r, zeta (.) Root)
             c3   == Plussed(o, zeta (.) Root (.) Root)
         IN  /\ c1 \in F /\ c2 \in F /\ c3 \in F
             /\ Plussed(r, Root (.) zeta) = c2 /\ Plussed(o, Root (.) Root (.) zeta) = c3
             /\ (chal.gamma (+) l (+) zeta (.) chal.beta) = c1
             /\ (zeta (.) chal.beta (.) Root (+) r (+) chal.gamma) = c2
             /\ (zeta (.) chal.beta (.) (Root (.) Root) (+) o (+) chal.gamma) = c3
<1>1. PICK be, ga, ze, u \in F : be = chal.beta /\ ga = chal.gamma /\ ze = chal.zeta /\ u = Root
  BY RootIs DEF Challenged
<1>2. PICK zu \in F : zu = ze (.) u /\ zu = u (.) ze
  BY <1>1, Closed, Commutes
<1>3. PICK zuu \in F : zuu = ze (.) u (.) u /\ zuu = zu (.) u
  BY <1>2, <1>1, Closed
<1>4. u (.) u (.) ze = zuu
  BY <1>1, <1>3, TurnedId
<1>5. /\ Plussed(l, ze) = l (+) be (.) ze (+) ga /\ Plussed(r, zu) = r (+) be (.) zu (+) ga
      /\ Plussed(o, zuu) = o (+) be (.) zuu (+) ga
  BY <1>1 DEF Plussed
<1>6. /\ l (+) be (.) ze (+) ga \in F /\ r (+) be (.) zu (+) ga \in F /\ o (+) be (.) zuu (+) ga \in F
      /\ be (.) zu \in F /\ be (.) zuu \in F
  BY <1>1, <1>2, <1>3, Closed
<1>7. ga (+) l (+) ze (.) be = l (+) be (.) ze (+) ga
  <2>1. be \in F /\ ga \in F /\ ze \in F
    BY <1>1
  <2> QED BY ONLY <2>1, l \in F, FactorFirst
<1>8. ze (.) be (.) u = be (.) zu
  <2>1. be \in F /\ ze \in F /\ u \in F
    BY <1>1
  <2>2. ze (.) be (.) u = be (.) (ze (.) u)
    BY ONLY <2>1, IdSecond
  <2> QED BY <1>2, <2>2
<1>9. ze (.) be (.) (u (.) u) = be (.) zuu
  <2>1. be \in F /\ ze \in F /\ u \in F
    BY <1>1
  <2>2. ze (.) be (.) (u (.) u) = be (.) (ze (.) u (.) u)
    BY ONLY <2>1, IdThird
  <2> QED BY <1>3, <2>2
<1>10. \A a, b \in F : a (+) b (+) ga = b (+) a (+) ga
  BY Commutes
<1>11. ze (.) be (.) u (+) r (+) ga = r (+) be (.) zu (+) ga
  BY <1>6, <1>8, <1>10
<1>12. ze (.) be (.) (u (.) u) (+) o (+) ga = o (+) be (.) zuu (+) ga
  BY <1>6, <1>9, <1>10
<1> QED BY <1>1, <1>2, <1>3, <1>4, <1>5, <1>6, <1>7, <1>11, <1>12

\* What Scalars gives.
LEMMA ScalarsValue ==
  ASSUME NEW m, Linearising(m), NEW e, e = Openings, NEW sc, sc = Scalars(e.l, e.r, e.o, proof.zu)
  PROVE  LET al == chal.alpha
             pp == Plussed(e.l, Eval(x.S1, chal.zeta)) (.) Plussed(e.r, Eval(x.S2, chal.zeta))
             cc == Plussed(e.l, chal.zeta) (.) Plussed(e.r, chal.zeta (.) Root)
                     (.) Plussed(e.o, chal.zeta (.) Root (.) Root)
         IN  /\ pp \in F /\ cc \in F /\ cc (.) al \in F
             /\ sc.s1 = pp (.) proof.zu (.) chal.beta (.) al
             /\ sc.s2 = 0 (-) cc (.) al
             /\ sc.rl = e.r (.) e.l /\ sc.l = e.l /\ sc.r = e.r /\ sc.o = e.o
             /\ sc.alpha2Lag = al (.) al (.) LagrangeAt(0, chal.zeta)
             /\ sc.zhZeta = Power(chal.zeta, s.n) (-) 1
             /\ sc.zetaNPlusTwo = Power(chal.zeta, s.n + 2)
             /\ LagrangeAt(0, chal.zeta) \in F /\ Lone(chal.zeta) = LagrangeAt(0, chal.zeta)
<1>1. /\ Instance /\ Challenged /\ chal.zeta \in F /\ chal.alpha \in F /\ chal.beta \in F
      /\ chal.gamma \in F /\ Power(chal.zeta, s.n) # 1
  BY DEF Linearising, Divided, Challenged
<1>2. e.l \in F /\ e.r \in F /\ e.o \in F
  BY ScalarsAre
<1>3. Eval(x.S1, chal.zeta) \in F /\ Eval(x.S2, chal.zeta) \in F
  BY <1>1, ValuesAt
<1>4. Plussed(e.l, Eval(x.S1, chal.zeta)) \in F /\ Plussed(e.r, Eval(x.S2, chal.zeta)) \in F
  BY <1>1, <1>2, <1>3, Closed DEF Plussed
<1>5. /\ Plussed(e.l, chal.zeta) \in F /\ Plussed(e.r, chal.zeta (.) Root) \in F
      /\ Plussed(e.o, chal.zeta (.) Root (.) Root) \in F
  BY <1>1, <1>2, IdFactors
<1>6. /\ LagrangeAt(0, chal.zeta) \in F /\ Lone(chal.zeta) = LagrangeAt(0, chal.zeta)
      /\ (Power(chal.zeta, s.n) (-) 1) (.) Inv(chal.zeta (-) 1) (.) chal.alpha (.) chal.alpha (.) Inv(s.n)
           = chal.alpha (.) chal.alpha (.) LagrangeAt(0, chal.zeta)
  BY <1>1, LagrangeZero
<1>7. Power(chal.zeta, s.n + 2) = Power(chal.zeta, s.n) (.) chal.zeta (.) chal.zeta
  BY <1>1, InstanceIs, PowerPlusTwo
<1>8. PICK pp, cc \in F :
        /\ pp = Plussed(e.l, Eval(x.S1, chal.zeta)) (.) Plussed(e.r, Eval(x.S2, chal.zeta))
        /\ cc = Plussed(e.l, chal.zeta) (.) Plussed(e.r, chal.zeta (.) Root)
                     (.) Plussed(e.o, chal.zeta (.) Root (.) Root)
  BY <1>4, <1>5, Closed
<1>9. cc (.) chal.alpha \in F
  BY <1>1, <1>8, Closed
<1>10. /\ sc.s1 = pp (.) proof.zu (.) chal.beta (.) chal.alpha
       /\ sc.rl = e.r (.) e.l /\ sc.l = e.l /\ sc.r = e.r /\ sc.o = e.o
       /\ sc.zhZeta = Power(chal.zeta, s.n) (-) 1
  BY <1>8 DEF Scalars, Plussed
<1>11. sc.s2 = 0 (-) cc (.) chal.alpha
  <2>1. sc.s2 = 0 (-) Plussed(e.l, chal.zeta) (.) Plussed(e.r, chal.zeta (.) Root)
                  (.) Plussed(e.o, chal.zeta (.) Root (.) Root) (.) chal.alpha
    BY DEF Scalars, Plussed
  <2> QED BY <1>8, <2>1
<1>12. sc.alpha2Lag = chal.alpha (.) chal.alpha (.) LagrangeAt(0, chal.zeta)
  <2>1. sc.alpha2Lag = (Power(chal.zeta, s.n) (-) 1) (.) Inv(chal.zeta (-) 1)
                         (.) chal.alpha (.) chal.alpha (.) Inv(s.n)
    BY DEF Scalars
  <2> QED BY <1>6, <2>1
<1>13. sc.zetaNPlusTwo = Power(chal.zeta, s.n + 2)
  BY <1>7 DEF Scalars
<1> QED BY <1>6, <1>8, <1>9, <1>10, <1>11, <1>12, <1>13

\* The gates' terms at t in the verifier's order.
LEMMA GatesValue ==
  ASSUME NEW m, Linearising(m), NEW e, e = Openings, NEW sc, sc = Scalars(e.l, e.r, e.o, proof.zu),
         NEW t \in F
  PROVE  LET tt == Total([j \in Upto(m) |-> e.qcp[j] (.) Eval(x.Pi2[j], t)])
         IN  /\ tt \in F /\ GatesAt(sc, e.qcp, t) \in F
             /\ GatesAt(sc, e.qcp, t)
                  = e.l (.) Eval(x.Ql, t) (+) e.r (.) Eval(x.Qr, t) (+) e.l (.) e.r (.) Eval(x.Qm, t)
                      (+) e.o (.) Eval(x.Qo, t) (+) Eval(s.trace.Qk, t) (+) tt
             /\ GatesAt(sc, e.qcp, t)
                  = Eval(x.Ql, t) (.) e.l (+) Eval(x.Qr, t) (.) e.r (+) Eval(x.Qm, t) (.) e.l (.) e.r
                      (+) Eval(x.Qo, t) (.) e.o (+) Eval(s.trace.Qk, t) (+) tt
<1>1. PICK ql, qr, qm, qo, qk \in F : /\ ql = Eval(x.Ql, t) /\ qr = Eval(x.Qr, t) /\ qm = Eval(x.Qm, t)
                                      /\ qo = Eval(x.Qo, t) /\ qk = Eval(s.trace.Qk, t)
  BY ValuesAt
<1>2. PICK l, r, o \in F : l = e.l /\ r = e.r /\ o = e.o
  BY ScalarsAre
<1>3. m \in Nat /\ Commits = Upto(m) /\ e.qcp \in Vec(m) /\ \A j \in Upto(m) : Eval(x.Pi2[j], t) \in F
  BY ScalarsAre, ValuesAt DEF Linearising
<1>4. PICK w : w = [j \in Upto(m) |-> e.qcp[j] (.) Eval(x.Pi2[j], t)]
  OBVIOUS
<1>5. \A j \in Upto(m) : e.qcp[j] \in F
  BY <1>3 DEF Vec
<1>6. w \in Vec(m) /\ Total(w) \in F
  <2>1. w \in Vec(m)
    BY <1>3, <1>4, <1>5, Closed DEF Vec
  <2> QED BY <1>3, <2>1, TotalType
<1>7. w = [j \in Commits |-> Eval(x.Pi2[j], t) (.) e.qcp[j]]
  BY <1>3, <1>4, <1>5, Commutes
<1>8. sc.rl = r (.) l /\ sc.l = l /\ sc.r = r /\ sc.o = o
  BY <1>2, ScalarsValue
<1>9. PICK p1, p2, p3, p4, y \in F : /\ p1 = qm (.) (r (.) l) /\ p2 = ql (.) l /\ p3 = qr (.) r /\ p4 = qo (.) o
                                     /\ y = p1 (+) p2 (+) p3 
  BY <1>1, <1>2, Closed
<1>10. GatesAt(sc, e.qcp, t) = p1 (+) p2 (+) p3 (+) p4 (+) qk (+) Total(w)
  BY <1>1, <1>7, <1>8, <1>9 DEF GatesAt
<1>11. p1 (+) p2 (+) p3 = p2 (+) p3 (+) p1
  BY <1>9, Rotated
<1>12. p1 = l (.) r (.) qm /\ p1 = qm (.) l (.) r
  BY <1>1, <1>2, <1>9, MiddleFirst, MiddleLast
<1>13. p2 = l (.) ql /\ p3 = r (.) qr /\ p4 = o (.) qo
  BY <1>1, <1>2, <1>9, Commutes
<1>14. GatesAt(sc, e.qcp, t) = p2 (+) p3 (+) p1 (+) p4 (+) qk (+) Total(w)
  BY <1>10, <1>11
<1>15. GatesAt(sc, e.qcp, t) \in F
  BY <1>1, <1>6, <1>9, <1>14, Closed
<1> QED BY <1>1, <1>2, <1>4, <1>6, <1>9, <1>12, <1>13, <1>14, <1>15

\* The commitment of the linearised polynomial is the verifier's digest.
LEMMA DigestAccepted ==
  ASSUME NEW m, Linearising(m), NEW e, e = Openings, NEW sc, sc = Scalars(e.l, e.r, e.o, proof.zu)
  PROVE  LinearizedAt(sc, e.qcp, blindedZ, Tau)
           = VerifierDigest(e.l, e.r, e.o, Eval(x.S1, chal.zeta), Eval(x.S2, chal.zeta),
                            [j \in DOMAIN s.trace.Qcp |-> Eval(s.trace.Qcp[j], chal.zeta)], proof.zu)
<1>1. /\ Instance /\ Challenged /\ Tau \in F /\ m \in Nat /\ Commits = Upto(m) /\ KeptBy(x)
      /\ chal.zeta \in F /\ chal.alpha \in F /\ chal.beta \in F /\ proof.zu \in F
      /\ x.Qcp \in [Upto(m) -> Vec(s.n)] /\ h \in Vec(s.big) /\ Blinders(bp)
  BY TauIs DEF Linearising, Challenged, Complete, Vectors
<1>2. /\ x.Ql = s.trace.Ql /\ x.Qr = s.trace.Qr /\ x.Qm = s.trace.Qm /\ x.Qo = s.trace.Qo
      /\ x.S3 = s.trace.S3 /\ x.Qcp = s.trace.Qcp
  BY <1>1 DEF KeptBy, Selectors
<1>3. PICK qz : qz = [j \in DOMAIN s.trace.Qcp |-> Eval(s.trace.Qcp[j], chal.zeta)]
  OBVIOUS
<1>4. DOMAIN s.trace.Qcp = Upto(m)
  BY <1>1, <1>2
<1>5. qz = e.qcp /\ e.qcp \in Vec(m)
  BY <1>2, <1>3, <1>4, ScalarsAre
<1>6. [j \in DOMAIN qz |-> qz[j] (.) proof.bsb[j]] = [j \in Upto(m) |-> e.qcp[j] (.) Eval(x.Pi2[j], Tau)]
  BY <1>1, <1>3, <1>4, <1>5 DEF Linearising
<1>7. PICK tt \in F : tt = Total([j \in Upto(m) |-> e.qcp[j] (.) Eval(x.Pi2[j], Tau)])
  BY <1>1, GatesValue
<1>8. PICK gs \in F : gs = GatesAt(sc, e.qcp, Tau)
  BY <1>1, GatesValue
<1>9. gs = e.l (.) Commit(s.trace.Ql) (+) e.r (.) Commit(s.trace.Qr) (+) e.l (.) e.r (.) Commit(s.trace.Qm)
             (+) e.o (.) Commit(s.trace.Qo) (+) Commit(s.trace.Qk) (+) tt
  BY <1>1, <1>2, <1>7, <1>8, GatesValue DEF Commit
<1>10. PICK w \in F, zh \in F : w = Power(chal.zeta, s.n + 2) /\ zh = Power(chal.zeta, s.n) (-) 1
  BY <1>1, InstanceIs, PowerPlusTwo, Closed, ZeroOne
<1>11. proof.H[1] = Commit(h1(h)) /\ proof.H[2] = Commit(h2(h)) /\ proof.H[3] = Commit(h3(h))
  BY DEF Linearising, Divided, commitToQuotient
<1>12. PICK d1, d2, d3 \in F : d1 = proof.H[1] /\ d2 = proof.H[2] /\ d3 = proof.H[3]
  <2>1. PICK b \in Nat, c \in Nat : b = s.n + 2 /\ c = s.n + 3
    <3>1. s.n \in Nat
      BY <1>1, InstanceIs
    <3> QED BY <3>1
  <2>2. h3(h) \in Vec(b) /\ h1(h) \in Vec(IF s.zk THEN c ELSE b) /\ h2(h) \in Vec(IF s.zk THEN c ELSE b)
    BY <1>1, <2>1, ShardsAre
  <2>3. Commit(h1(h)) \in F /\ Commit(h2(h)) \in F /\ Commit(h3(h)) \in F
    <3>1. CASE s.zk
      BY <1>1, <2>2, <3>1, EvalType DEF Commit
    <3>2. CASE ~s.zk
      BY <1>1, <2>2, <3>2, EvalType DEF Commit
    <3> QED BY <3>1, <3>2
  <2> QED BY <1>11, <2>3
<1>13. PICK qq \in F : qq = (d1 (+) w (.) d2 (+) w (.) w (.) d3) (.) zh
  BY <1>10, <1>12, Closed
<1>14. FoldAt(w, Tau) (.) zh = qq
  <2>1. FoldAt(w, Tau) = (d3 (.) w (+) d2) (.) w (+) d1
    BY <1>11, <1>12 DEF FoldAt, Commit
  <2>2. (d3 (.) w (+) d2) (.) w (+) d1 = d1 (+) w (.) d2 (+) w (.) w (.) d3
    <3>1. d1 \in F /\ d2 \in F /\ d3 \in F /\ w \in F
      BY <1>10, <1>12
    <3> QED BY ONLY <3>1, ThreeFolded
  <2> QED BY <1>13, <2>1, <2>2
<1>15. PICK zt \in F, s3 \in F : zt = proof.Z /\ zt = Eval(blindedZ, Tau) /\ s3 = Eval(x.S3, Tau)
  BY <1>1, ValuesAt DEF Linearising, Commit
<1>16. PICK pp, cc \in F :
        /\ pp = Plussed(e.l, Eval(x.S1, chal.zeta)) (.) Plussed(e.r, Eval(x.S2, chal.zeta))
        /\ cc = Plussed(e.l, chal.zeta) (.) Plussed(e.r, chal.zeta (.) Root)
                     (.) Plussed(e.o, chal.zeta (.) Root (.) Root)
  BY ScalarsValue
<1>17. PICK ck, lg, ss \in F : /\ ck = cc (.) chal.alpha
                               /\ lg = chal.alpha (.) chal.alpha (.) LagrangeAt(0, chal.zeta)
                               /\ ss = s3 (.) (pp (.) proof.zu (.) chal.beta (.) chal.alpha)
                               /\ ss = pp (.) proof.zu (.) chal.beta (.) chal.alpha (.) s3
  <2>1. LagrangeAt(0, chal.zeta) \in F
    BY ScalarsValue
  <2>2. PICK pz \in F : pz = pp (.) proof.zu (.) chal.beta (.) chal.alpha
    BY <1>1, <1>16, Closed
  <2>3. s3 (.) pz = pz (.) s3 /\ s3 (.) pz \in F
    BY <1>15, <2>2, Commutes, Closed
  <2>4. cc (.) chal.alpha \in F /\ chal.alpha (.) chal.alpha (.) LagrangeAt(0, chal.zeta) \in F
    BY <1>1, <1>16, <2>1, Closed
  <2> QED BY <2>2, <2>3, <2>4
<1>18. sc.s2 = 0 (-) ck /\ sc.alpha2Lag = lg /\ sc.zhZeta = zh /\ sc.zetaNPlusTwo = w
       /\ s3 (.) sc.s1 = ss
  BY <1>10, <1>16, <1>17, ScalarsValue
<1>19. LinearizedAt(sc, e.qcp, blindedZ, Tau) = zt (.) (0 (-) ck) (+) ss (+) gs (+) (zt (.) lg (-) qq)
  BY <1>8, <1>14, <1>15, <1>18 DEF LinearizedAt
<1>20. DigestShape(zt, ck, ss, gs, lg, qq)
  BY ONLY <1>8, <1>13, <1>15, <1>17, DigestShapes, zt \in F, ck \in F, ss \in F, gs \in F, lg \in F, qq \in F
<1>21. VerifierDigest(e.l, e.r, e.o, Eval(x.S1, chal.zeta), Eval(x.S2, chal.zeta), qz, proof.zu)
         = gs (+) ss (+) ((lg (-) ck) (.) zt (-) qq)
  <2>1. /\ Plussed(e.r, Root (.) chal.zeta) = Plussed(e.r, chal.zeta (.) Root)
        /\ Plussed(e.o, Root (.) Root (.) chal.zeta) = Plussed(e.o, chal.zeta (.) Root (.) Root)
    <3>1. PICK l, r, o \in F : l = e.l /\ r = e.r /\ o = e.o
      BY ScalarsAre
    <3>2. /\ Plussed(r, Root (.) chal.zeta) = Plussed(r, chal.zeta (.) Root)
          /\ Plussed(o, Root (.) Root (.) chal.zeta) = Plussed(o, chal.zeta (.) Root (.) Root)
      BY <1>1, <3>1, IdFactors
    <3> QED BY <3>1, <3>2
  <2>2. ck = Plussed(e.l, chal.zeta) (.) Plussed(e.r, Root (.) chal.zeta)
               (.) Plussed(e.o, Root (.) Root (.) chal.zeta) (.) chal.alpha
    BY <1>16, <1>17, <2>1
  <2>3. ss = Plussed(e.l, Eval(x.S1, chal.zeta)) (.) Plussed(e.r, Eval(x.S2, chal.zeta)) (.) proof.zu
               (.) chal.beta (.) chal.alpha (.) Commit(s.trace.S3)
    BY <1>2, <1>15, <1>16, <1>17 DEF Commit
  <2>4. qq = (proof.H[1] (+) w (.) proof.H[2] (+) w (.) w (.) proof.H[3]) (.) zh
    BY <1>12, <1>13
  <2>5. VerifierDigest(e.l, e.r, e.o, Eval(x.S1, chal.zeta), Eval(x.S2, chal.zeta), qz, proof.zu)
          = e.l (.) Commit(s.trace.Ql) (+) e.r (.) Commit(s.trace.Qr) (+) e.l (.) e.r (.) Commit(s.trace.Qm)
              (+) e.o (.) Commit(s.trace.Qo) (+) Commit(s.trace.Qk)
              (+) Total([j \in DOMAIN qz |-> qz[j] (.) proof.bsb[j]]) (+) ss
              (+) ((lg (-) ck) (.) proof.Z (-) qq)
    BY <1>10, <1>17, <2>2, <2>3, <2>4 DEF VerifierDigest, Plussed
  <2> QED BY <1>6, <1>7, <1>9, <1>15, <2>5
<1> QED BY <1>3, <1>19, <1>20, <1>21 DEF DigestShape

-------------------------------------------------------------------------------
\* The ordering constraint at zeta, in the verifier's factors.
LEMMA OrderingValue ==
  ASSUME NEW m, Linearising(m), NEW e, e = Openings, NEW sc, sc = Scalars(e.l, e.r, e.o, proof.zu),
         NEW pt, pt = Point(x, bp, Eval(blindedZ, chal.zeta), proof.zu, chal.beta, chal.zeta)
  PROVE  LET pp == Plussed(e.l, Eval(x.S1, chal.zeta)) (.) Plussed(e.r, Eval(x.S2, chal.zeta))
             cc == Plussed(e.l, chal.zeta) (.) Plussed(e.r, chal.zeta (.) Root)
                     (.) Plussed(e.o, chal.zeta (.) Root (.) Root)
         IN  orderingConstraint(pt, chal.zeta (.) chal.beta, chal.gamma, Root, Root (.) Root)
               = pp (.) (chal.beta (.) Eval(x.S3, chal.zeta) (+) (e.o (+) chal.gamma)) (.) proof.zu
                   (-) cc (.) Eval(blindedZ, chal.zeta)
<1>1. /\ Challenged /\ chal.zeta \in F /\ chal.beta \in F /\ chal.gamma \in F
  BY DEF Linearising, Challenged
<1>2. PICK l, r, o \in F : l = e.l /\ r = e.r /\ o = e.o
  BY ScalarsAre
<1>3. /\ pt.L = l /\ pt.R = r /\ pt.O = o /\ pt.Z = Eval(blindedZ, chal.zeta) /\ pt.ZS = proof.zu
      /\ pt.S1 = chal.beta (.) Eval(x.S1, chal.zeta) /\ pt.S2 = chal.beta (.) Eval(x.S2, chal.zeta)
      /\ pt.S3 = chal.beta (.) Eval(x.S3, chal.zeta)
  BY <1>2, ScalarsAre DEF Point
<1>4. PICK b1, b2, b3, ga \in F : /\ b1 = chal.beta (.) Eval(x.S1, chal.zeta)
                                  /\ b2 = chal.beta (.) Eval(x.S2, chal.zeta)
                                  /\ b3 = chal.beta (.) Eval(x.S3, chal.zeta) /\ ga = chal.gamma
  BY <1>1, ValuesAt, Closed
<1>5. /\ b1 (+) l (+) ga = Plussed(l, Eval(x.S1, chal.zeta))
      /\ b2 (+) r (+) ga = Plussed(r, Eval(x.S2, chal.zeta))
  <2>1. b1 (+) l = l (+) b1 /\ b2 (+) r = r (+) b2
    BY <1>2, <1>4, Commutes
  <2> QED BY <1>4, <2>1 DEF Plussed
<1>6. b3 (+) o (+) ga = b3 (+) (o (+) ga)
  <2>1. b3 \in F /\ o \in F /\ ga \in F
    BY <1>2, <1>4
  <2> QED BY ONLY <2>1, ThreeSum
<1>7. /\ ga (+) l (+) chal.zeta (.) chal.beta = Plussed(l, chal.zeta)
      /\ chal.zeta (.) chal.beta (.) Root (+) r (+) ga = Plussed(r, chal.zeta (.) Root)
      /\ chal.zeta (.) chal.beta (.) (Root (.) Root) (+) o (+) ga = Plussed(o, chal.zeta (.) Root (.) Root)
  BY <1>1, <1>2, <1>4, IdFactors
<1>8. orderingConstraint(pt, chal.zeta (.) chal.beta, ga, Root, Root (.) Root)
        = (b1 (+) l (+) ga) (.) (b2 (+) r (+) ga) (.) (b3 (+) o (+) ga) (.) proof.zu
            (-) (ga (+) l (+) chal.zeta (.) chal.beta) (.) (chal.zeta (.) chal.beta (.) Root (+) r (+) ga)
                  (.) (chal.zeta (.) chal.beta (.) (Root (.) Root) (+) o (+) ga)
                  (.) Eval(blindedZ, chal.zeta)
  BY <1>3, <1>4 DEF orderingConstraint
<1> QED BY <1>2, <1>4, <1>5, <1>6, <1>7, <1>8

\* The gate constraint at zeta is the verifier's gates and public inputs.
LEMMA GateValue ==
  ASSUME NEW m, Linearising(m), NEW e, e = Openings, NEW sc, sc = Scalars(e.l, e.r, e.o, proof.zu),
         NEW pt, pt = Point(x, bp, Eval(blindedZ, chal.zeta), proof.zu, chal.beta, chal.zeta)
  PROVE  /\ PublicInput(chal.zeta) \in F
         /\ gateConstraint(pt) = GatesAt(sc, e.qcp, chal.zeta) (+) PublicInput(chal.zeta)
<1>1. /\ Instance /\ chal.zeta \in F /\ val \in Values /\ Power(chal.zeta, s.n) # 1
      /\ m \in Nat /\ Commits = Upto(m) /\ x.Qk = Poly(QkOf(val))
  BY DEF Linearising, Challenged, Divided, SolvedBy
<1>2. PICK l, r, o \in F : l = e.l /\ r = e.r /\ o = e.o
  BY ScalarsAre
<1>3. PICK tt \in F : tt = Total([j \in Upto(m) |-> e.qcp[j] (.) Eval(x.Pi2[j], chal.zeta)])
  BY <1>1, GatesValue
<1>4. PICK y, qk, pin \in F :
        /\ y = Eval(x.Ql, chal.zeta) (.) l (+) Eval(x.Qr, chal.zeta) (.) r
                 (+) Eval(x.Qm, chal.zeta) (.) l (.) r (+) Eval(x.Qo, chal.zeta) (.) o
        /\ qk = Eval(s.trace.Qk, chal.zeta) /\ pin = PublicInput(chal.zeta)
  BY <1>1, <1>2, ValuesAt, Closed, PublicInputIs
<1>5. Eval(x.Qk, chal.zeta) = pin (+) qk
  BY <1>1, <1>4, PublicInputIs
<1>6. [j \in DOMAIN pt.Qcp |-> pt.Qcp[j] (.) pt.Pi2[j]]
        = [j \in Upto(m) |-> e.qcp[j] (.) Eval(x.Pi2[j], chal.zeta)]
  BY <1>1, ScalarsAre DEF Point
<1>7. /\ pt.L = l /\ pt.R = r /\ pt.O = o /\ pt.Ql = Eval(x.Ql, chal.zeta)
      /\ pt.Qr = Eval(x.Qr, chal.zeta) /\ pt.Qm = Eval(x.Qm, chal.zeta)
      /\ pt.Qo = Eval(x.Qo, chal.zeta) /\ pt.Qk = pin (+) qk
  BY <1>2, <1>5, ScalarsAre DEF Point
<1>8. gateConstraint(pt) = y (+) (pin (+) qk) (+) tt
  BY <1>3, <1>4, <1>6, <1>7 DEF gateConstraint
<1>9. y (+) (pin (+) qk) (+) tt = (y (+) qk (+) tt) (+) pin
  <2>1. y \in F /\ pin \in F /\ qk \in F /\ tt \in F
    BY <1>3, <1>4
  <2> QED BY ONLY <2>1, PulledOut
<1>10. GatesAt(sc, e.qcp, chal.zeta) = y (+) qk (+) tt
  BY <1>1, <1>2, <1>3, <1>4, GatesValue
<1> QED BY <1>4, <1>8, <1>9, <1>10

\* The value of the linearised polynomial at zeta is the verifier's claim.
LEMMA ValueAccepted ==
  ASSUME NEW m, Linearising(m), NEW e, e = Openings, NEW sc, sc = Scalars(e.l, e.r, e.o, proof.zu)
  PROVE  LinearizedAt(sc, e.qcp, blindedZ, chal.zeta)
           = chal.alpha (.) chal.alpha (.) LagrangeAt(0, chal.zeta) (-) PublicInput(chal.zeta)
               (-) Plussed(e.l, Eval(x.S1, chal.zeta)) (.) Plussed(e.r, Eval(x.S2, chal.zeta))
                     (.) (e.o (+) chal.gamma) (.) chal.alpha (.) proof.zu
<1>1. /\ Instance /\ chal.zeta \in F /\ proof.zu \in F /\ h \in Vec(s.big) /\ m \in Nat
      /\ chal.alpha \in F /\ chal.beta \in F /\ chal.gamma \in F
      /\ Divided(h, chal.zeta, NumAt(x, bp, chal, Eval(blindedZ, chal.zeta), proof.zu, chal.zeta))
  BY DEF Linearising, Challenged
<1>2. PICK pt : pt = Point(x, bp, Eval(blindedZ, chal.zeta), proof.zu, chal.beta, chal.zeta)
  OBVIOUS
<1>3. PICK al, be, zu, zh, lone \in F :
        /\ al = chal.alpha /\ be = chal.beta /\ zu = proof.zu
        /\ zh = Power(chal.zeta, s.n) (-) 1 /\ lone = LagrangeAt(0, chal.zeta)
  BY <1>1, InstanceIs, PowerLaws, Closed, ZeroOne, ScalarsValue
<1>4. PICK pp, cc \in F :
        /\ pp = Plussed(e.l, Eval(x.S1, chal.zeta)) (.) Plussed(e.r, Eval(x.S2, chal.zeta))
        /\ cc = Plussed(e.l, chal.zeta) (.) Plussed(e.r, chal.zeta (.) Root)
                     (.) Plussed(e.o, chal.zeta (.) Root (.) Root)
  BY ScalarsValue
<1>5. PICK zt, s3, gs, pin, og \in F :
        /\ zt = Eval(blindedZ, chal.zeta) /\ s3 = Eval(x.S3, chal.zeta)
        /\ gs = GatesAt(sc, e.qcp, chal.zeta) /\ pin = PublicInput(chal.zeta)
        /\ og = e.o (+) chal.gamma
  <2>1. PICK o \in F : o = e.o
    BY ScalarsAre
  <2>2. GatesAt(sc, e.qcp, chal.zeta) \in F
    BY <1>1, GatesValue
  <2>3. PublicInput(chal.zeta) \in F
    BY <1>2, GateValue
  <2>4. Eval(blindedZ, chal.zeta) \in F /\ Eval(x.S3, chal.zeta) \in F
    BY <1>1, ValuesAt
  <2>5. o (+) chal.gamma \in F
    BY <1>1, <2>1, Closed
  <2> QED BY <2>1, <2>2, <2>3, <2>4, <2>5
<1>6. PICK ck, lg, pz, lf, rg \in F :
        /\ ck = cc (.) al /\ lg = al (.) al (.) lone /\ pz = pp (.) zu (.) be (.) al
        /\ lf = pp (.) (be (.) s3 (+) og) (.) zu /\ rg = cc (.) zt
  <2>1. /\ cc (.) al \in F /\ al (.) al (.) lone \in F /\ pp (.) zu (.) be (.) al \in F
        /\ pp (.) (be (.) s3 (+) og) (.) zu \in F /\ cc (.) zt \in F
    BY <1>3, <1>4, <1>5, Closed
  <2> QED BY <2>1
<1>7. PICK zk, xx, zl, yy \in F : /\ zk = zt (.) ck /\ xx = s3 (.) pz /\ zl = zt (.) lg
                                  /\ yy = pp (.) og (.) al (.) zu
  <2>1. zt (.) ck \in F /\ s3 (.) pz \in F /\ zt (.) lg \in F /\ pp (.) og (.) al (.) zu \in F
    BY <1>3, <1>4, <1>5, <1>6, Closed
  <2> QED BY <2>1
<1>8. /\ sc.s1 = pz /\ sc.s2 = 0 (-) ck /\ sc.alpha2Lag = lg /\ sc.zhZeta = zh
      /\ sc.zetaNPlusTwo = Power(chal.zeta, s.n + 2) /\ Lone(chal.zeta) = lone
  BY <1>3, <1>4, <1>6, ScalarsValue
<1>9. FoldAt(sc.zetaNPlusTwo, chal.zeta) = Eval(h, chal.zeta)
  BY <1>1, <1>8, FoldIs DEF Divided
<1>10. FoldAt(sc.zetaNPlusTwo, chal.zeta) (.) zh
         = NumAt(x, bp, chal, Eval(blindedZ, chal.zeta), proof.zu, chal.zeta)
  BY <1>1, <1>3, <1>9 DEF Divided
<1>11. gateConstraint(pt) = gs (+) pin
  BY <1>2, <1>5, GateValue
<1>12. orderingConstraint(pt, chal.zeta (.) chal.beta, chal.gamma, Root, Root (.) Root) = lf (-) rg
  BY <1>2, <1>3, <1>4, <1>5, <1>6, OrderingValue
<1>13. pt.Z = zt
  BY <1>2, <1>5 DEF Point
<1>14. NumAt(x, bp, chal, Eval(blindedZ, chal.zeta), proof.zu, chal.zeta)
         = ((zt (-) 1) (.) lone (.) al (+) (lf (-) rg)) (.) al (+) (gs (+) pin)
  BY <1>2, <1>3, <1>8, <1>11, <1>12, <1>13 DEF NumAt, Combined, localConstraint
<1>15. ((zt (-) 1) (.) lone (.) al (+) (lf (-) rg)) (.) al (+) (gs (+) pin)
         = (zl (-) lg) (+) ((xx (+) yy) (-) zk) (+) (gs (+) pin)
  <2>1. PICK gp \in F : gp = gs (+) pin
    BY <1>5, Closed
  <2>2. NumShape(zt, lone, al, lf, rg, gp)
    <3>1. zt \in F /\ lone \in F /\ al \in F /\ lf \in F /\ rg \in F /\ gp \in F
      BY <1>3, <1>5, <1>6, <2>1
    <3> QED BY ONLY <3>1, NumShapes
  <2>3. LeftShape(pp, be, s3, og, zu, al)
    <3>1. pp \in F /\ be \in F /\ s3 \in F /\ og \in F /\ zu \in F /\ al \in F
      BY <1>3, <1>4, <1>5
    <3> QED BY ONLY <3>1, LeftShapes
  <2>4. lf (.) al = xx (+) yy
    BY <1>6, <1>7, <2>3 DEF LeftShape
  <2>5. rg (.) al = zk
    <3>1. cc \in F /\ zt \in F /\ al \in F
      BY <1>3, <1>4, <1>5
    <3>2. cc (.) zt (.) al = zt (.) (cc (.) al)
      BY ONLY <3>1, ScaledRight
    <3> QED BY <1>6, <1>7, <3>2
  <2>6. zt (.) (al (.) al (.) lone) = zl /\ al (.) al (.) lone = lg
    BY <1>6, <1>7
  <2> QED BY <2>1, <2>2, <2>4, <2>5, <2>6 DEF NumShape
<1>16. zt (.) sc.s2 = 0 (-) zk
  <2>1. zt \in F /\ ck \in F
    BY <1>5, <1>6
  <2>2. zt (.) (0 (-) ck) = 0 (-) zt (.) ck
    BY ONLY <2>1, NegatedProduct
  <2> QED BY <1>7, <1>8, <2>2
<1>17. LinearizedAt(sc, e.qcp, blindedZ, chal.zeta)
         = (0 (-) zk) (+) xx (+) gs
             (+) (zl (-) ((zl (-) lg) (+) ((xx (+) yy) (-) zk) (+) (gs (+) pin)))
  <2>1. LinearizedAt(sc, e.qcp, blindedZ, chal.zeta)
          = zt (.) sc.s2 (+) s3 (.) sc.s1 (+) gs
              (+) (zt (.) sc.alpha2Lag (-) FoldAt(sc.zetaNPlusTwo, chal.zeta) (.) sc.zhZeta)
    BY <1>5 DEF LinearizedAt
  <2>2. s3 (.) sc.s1 = xx /\ zt (.) sc.alpha2Lag = zl
    BY <1>7, <1>8
  <2>3. FoldAt(sc.zetaNPlusTwo, chal.zeta) (.) sc.zhZeta
          = (zl (-) lg) (+) ((xx (+) yy) (-) zk) (+) (gs (+) pin)
    BY <1>8, <1>10, <1>14, <1>15
  <2> QED BY <1>16, <2>1, <2>2, <2>3
<1>18. ClaimShape(zk, xx, gs, zl, lg, yy, pin)
  <2>1. zk \in F /\ xx \in F /\ gs \in F /\ zl \in F /\ lg \in F /\ yy \in F /\ pin \in F
    BY <1>5, <1>6, <1>7
  <2> QED BY ONLY <2>1, ClaimShapes
<1>19. LinearizedAt(sc, e.qcp, blindedZ, chal.zeta) = lg (-) pin (-) yy
  BY <1>17, <1>18 DEF ClaimShape
<1> QED BY <1>3, <1>4, <1>5, <1>6, <1>7, <1>19

-------------------------------------------------------------------------------
\* What computeLinearizedPolynomial leaves to batchOpening: the polynomial it
\* wrote over the blinded Z satisfies both equations of the verifier with the
\* values that are about to be opened.
Claimed ==
    /\ pc = "open" =>
         LET e == Openings
         IN  Accepted(Eval(blindedZ, chal.zeta), Commit(blindedZ), e.l, e.r, e.o,
                      Eval(s.trace.S1, chal.zeta), Eval(s.trace.S2, chal.zeta))
    /\ VerifierAccepts

\* No step but the last two changes what the equations are about.
LEMMA AcceptedFrame ==
  ASSUME s' = s, chal' = chal, proof' = proof, val' = val,
         NEW lin, NEW digest, NEW l, NEW r, NEW o, NEW s1, NEW s2
  PROVE  Accepted(lin, digest, l, r, o, s1, s2)' <=> Accepted(lin, digest, l, r, o, s1, s2)
<1>1. \A k, z : LagrangeAt(k, z)' = LagrangeAt(k, z)
  BY DEF LagrangeAt, twiddles0
<1>2. \A z : PublicInput(z)' = PublicInput(z)
  BY <1>1 DEF PublicInput
<1>3. \A a, b : Plussed(a, b)' = Plussed(a, b)
  BY DEF Plussed
<1>4. \A qcp, zu : VerifierDigest(l, r, o, s1, s2, qcp, zu)' = VerifierDigest(l, r, o, s1, s2, qcp, zu)
  BY <1>1 DEF VerifierDigest
<1> QED BY <1>1, <1>2, <1>3, <1>4 DEF Accepted

\* Nothing is claimed yet.
LEMMA InitClaimed == Init => Claimed
BY DEF Init, Claimed, VerifierAccepts

\* The linearised polynomial is accepted with the values about to be opened.
LEMMA LinearizeClaimed ==
  ASSUME IInv, Sound, computeLinearizedPolynomial
  PROVE  Claimed'
<1>1. /\ pc = "linearise" /\ pc' = "open" /\ s' = s /\ chal' = chal /\ val' = val /\ proof' = proof
      /\ bp' = bp /\ x' = Overwritten(x, "Z", blindedZ')
  BY DEF computeLinearizedPolynomial
<1>2. PICK m : Linearising(m)
  BY <1>1, LinearisingIs
<1>3. PICK e, sc : e = Openings /\ sc = Scalars(e.l, e.r, e.o, proof.zu)
  OBVIOUS
<1>4. PICK b, Q : b = blindedZ' /\ Q = x'
  OBVIOUS
<1>5. b = innerComputeLinearizedPoly(sc, e.qcp, blindedZ)
  BY <1>3, <1>4 DEF computeLinearizedPolynomial
<1>6. /\ Instance /\ Complete(x) /\ m \in Nat /\ Commits = Upto(m) /\ h \in Vec(s.big)
      /\ blindedZ \in Vec(s.n + 3) /\ KeptBy(x) /\ chal.zeta \in F /\ Tau \in F
  BY <1>2, TauIs DEF Linearising, Challenged
<1>7. /\ Scaled(sc) /\ e.qcp \in Vec(m)
      /\ e.qcp = [j \in Upto(m) |-> Eval(x.Qcp[j], chal.zeta)]
  BY <1>2, <1>3, ScalarsAre
<1>8. PICK ze, ta \in F : ze = chal.zeta /\ ta = Tau
  BY <1>6
<1>9. /\ Eval(b, ze) = LinearizedAt(sc, e.qcp, blindedZ, ze)
      /\ Eval(b, ta) = LinearizedAt(sc, e.qcp, blindedZ, ta)
  BY <1>5, <1>6, <1>7, EvalLinearized
<1>10. x.S1 = s.trace.S1 /\ x.S2 = s.trace.S2
  BY <1>6 DEF KeptBy, Selectors
<1>11. Eval(b, ze) = chal.alpha (.) chal.alpha (.) LagrangeAt(0, chal.zeta) (-) PublicInput(chal.zeta)
               (-) Plussed(e.l, Eval(x.S1, chal.zeta)) (.) Plussed(e.r, Eval(x.S2, chal.zeta))
                     (.) (e.o (+) chal.gamma) (.) chal.alpha (.) proof.zu
  BY <1>2, <1>3, <1>8, <1>9, ValueAccepted
<1>12. Commit(b) = VerifierDigest(e.l, e.r, e.o, Eval(x.S1, chal.zeta), Eval(x.S2, chal.zeta),
                     [j \in DOMAIN s.trace.Qcp |-> Eval(s.trace.Qcp[j], chal.zeta)], proof.zu)
  BY <1>2, <1>3, <1>8, <1>9, DigestAccepted DEF Commit
<1>13. PICK l, r, o, s1, s2, lin, dig :
         /\ l = e.l /\ r = e.r /\ o = e.o /\ s1 = Eval(s.trace.S1, chal.zeta)
         /\ s2 = Eval(s.trace.S2, chal.zeta) /\ lin = Eval(b, ze) /\ dig = Commit(b)
  OBVIOUS
<1>14. Accepted(lin, dig, l, r, o, s1, s2)
  BY <1>10, <1>11, <1>12, <1>13 DEF Accepted
<1>15. Accepted(lin, dig, l, r, o, s1, s2)'
  BY <1>1, <1>14, AcceptedFrame
<1>16. b \in Vec(s.n + 3)
  <2>1. IInv'
    BY LinearizeStep
  <2> QED BY <1>1, <1>4, <2>1 DEF IInv, Typed, Opening
<1>17. Keeps(Q, x, "Z")
  <2>1. DOMAIN x = AllFields \cup {"Qcp", "Pi2"}
    BY <1>1, CompleteIs DEF IInv, Typed, Stages
  <2> QED BY <1>1, <1>4, <1>6, <1>16, <2>1, OverwrittenIs
<1>18. Q.L = x.L /\ Q.R = x.R /\ Q.O = x.O
  BY <1>17 DEF Keeps, AllFields
<1>19. Openings'.l = l /\ Openings'.r = r /\ Openings'.o = o
  BY <1>1, <1>3, <1>4, <1>13, <1>18 DEF Openings, evaluateBlinded
<1>20. /\ Eval(blindedZ', chal'.zeta) = lin /\ Commit(blindedZ') = dig
       /\ Eval(s'.trace.S1, chal'.zeta) = s1 /\ Eval(s'.trace.S2, chal'.zeta) = s2
  BY <1>1, <1>4, <1>8, <1>13
<1>21. VerifierAccepts'
  BY <1>1 DEF VerifierAccepts
<1> QED BY <1>15, <1>19, <1>20, <1>21 DEF Claimed

\* batchOpening opens these values.
LEMMA OpeningClaimed ==
  ASSUME IInv, Sound, Claimed, batchOpening
  PROVE  Claimed'
<1>1. /\ pc = "open" /\ pc' = "done" /\ s' = s /\ chal' = chal /\ val' = val /\ proof' = proof
      /\ opened' = <<blindedZ, getBlindedCoefficients(x.L, bp.L), getBlindedCoefficients(x.R, bp.R),
                     getBlindedCoefficients(x.O, bp.O), x.S1, x.S2>>
  BY DEF batchOpening
<1>2. /\ Instance /\ Complete(x) /\ Blinders(bp) /\ KeptBy(x) /\ chal.zeta \in F
  <2>1. pc \in Stages \ {"solve", "ratio"} /\ Plain = x
    BY <1>1 DEF Stages, Late, Plain
  <2>2. /\ Instance /\ Blinders(bp) /\ chal.zeta \in F /\ FieldsOK(x, pc, s.n, Commits)
    BY <1>1 DEF IInv, Typed, ChallengesOK, Late, Opening
  <2>3. Complete(x)
    BY <2>1, <2>2, CompleteIs
  <2>4. KeptBy(x)
    BY <1>1, <2>1 DEF Sound
  <2> QED BY <2>2, <2>3, <2>4
<1>3. x.S1 = s.trace.S1 /\ x.S2 = s.trace.S2
  BY <1>2 DEF KeptBy, Selectors
<1>4. PICK n \in Nat, two \in Nat : n = s.n /\ two = 2
  BY <1>2, InstanceIs
<1>5. /\ x.L \in Vec(n) /\ x.R \in Vec(n) /\ x.O \in Vec(n)
      /\ bp.L \in Vec(two) /\ bp.R \in Vec(two) /\ bp.O \in Vec(two)
  BY <1>2, <1>4 DEF Complete, Blinders, AllFields
<1>6. \A p \in Vec(n), b \in Vec(two) :
        Eval(getBlindedCoefficients(p, b), chal.zeta) = evaluateBlinded(p, b, chal.zeta)
  BY <1>2, <1>4, EvalBlinded DEF evaluateBlinded
<1>7. PICK e : e = Openings
  OBVIOUS
<1>8. /\ Eval(opened'[2], chal.zeta) = e.l /\ Eval(opened'[3], chal.zeta) = e.r
      /\ Eval(opened'[4], chal.zeta) = e.o /\ opened'[1] = blindedZ
      /\ opened'[5] = s.trace.S1 /\ opened'[6] = s.trace.S2
  BY <1>1, <1>3, <1>5, <1>6, <1>7 DEF Openings
<1>9. PICK l, r, o, s1, s2, lin, dig :
         /\ l = e.l /\ r = e.r /\ o = e.o /\ s1 = Eval(s.trace.S1, chal.zeta)
         /\ s2 = Eval(s.trace.S2, chal.zeta) /\ lin = Eval(blindedZ, chal.zeta) /\ dig = Commit(blindedZ)
  OBVIOUS
<1>10. Accepted(lin, dig, l, r, o, s1, s2)
  BY <1>1, <1>7, <1>9 DEF Claimed
<1>11. Accepted(lin, dig, l, r, o, s1, s2)'
  BY <1>1, <1>10, AcceptedFrame
<1>12. PICK p1, p2, p3, p4, p5, p6 :
         /\ p1 = opened'[1] /\ p2 = opened'[2] /\ p3 = opened'[3]
         /\ p4 = opened'[4] /\ p5 = opened'[5] /\ p6 = opened'[6]
  OBVIOUS
<1>13. /\ Eval(p1, chal'.zeta) = lin /\ Commit(p1) = dig /\ Eval(p2, chal'.zeta) = l
       /\ Eval(p3, chal'.zeta) = r /\ Eval(p4, chal'.zeta) = o
       /\ Eval(p5, chal'.zeta) = s1 /\ Eval(p6, chal'.zeta) = s2
  BY <1>1, <1>8, <1>9, <1>12
<1>14. VerifierAccepts'
  <2>1. VerifierAccepts' <=>
          (pc' = "done" => Accepted(Eval(opened[1], chal.zeta), Commit(opened[1]), Eval(opened[2], chal.zeta),
             Eval(opened[3], chal.zeta), Eval(opened[4], chal.zeta), Eval(opened[5], chal.zeta),
             Eval(opened[6], chal.zeta))')
    BY DEF VerifierAccepts, Accepted, Plussed
  <2> QED BY <1>11, <1>12, <1>13, <2>1
<1> QED BY <1>1, <1>14 DEF Claimed

\* The strengthening is inductive.
LEMMA NextClaimed == IInv /\ Sound /\ Claimed /\ [Next]_vars => Claimed'
<1> SUFFICES ASSUME IInv, Sound, Claimed, [Next]_vars PROVE Claimed'
  OBVIOUS
<1>1. CASE Solve
  BY <1>1 DEF Solve, Claimed, VerifierAccepts
<1>2. CASE BuildRatio
  BY <1>2 DEF BuildRatio, Claimed, VerifierAccepts
<1>3. CASE StartQuotient
  BY <1>3 DEF StartQuotient, Claimed, VerifierAccepts
<1>4. CASE Coset
  <2>1. pc' \notin {"open", "done"}
    BY <1>4 DEF Coset
  <2> QED BY <2>1 DEF Claimed, VerifierAccepts
<1>5. CASE FinishQuotient
  <2>1. pc' = "openZ"
    BY <1>5 DEF FinishQuotient
  <2> QED BY <2>1 DEF Claimed, VerifierAccepts
<1>6. CASE openZ
  <2>1. pc' = "linearise"
    BY <1>6 DEF openZ
  <2> QED BY <2>1 DEF Claimed, VerifierAccepts
<1>7. CASE computeLinearizedPolynomial
  BY <1>7, LinearizeClaimed
<1>8. CASE batchOpening
  BY <1>8, OpeningClaimed
<1>9. CASE UNCHANGED vars
  <2>1. /\ pc' = pc /\ s' = s /\ x' = x /\ bp' = bp /\ val' = val /\ chal' = chal /\ proof' = proof
        /\ blindedZ' = blindedZ /\ opened' = opened
    BY <1>9 DEF vars
  <2>2. PICK e, lin, dig, s1, s2 :
          /\ e = Openings /\ lin = Eval(blindedZ, chal.zeta) /\ dig = Commit(blindedZ)
          /\ s1 = Eval(s.trace.S1, chal.zeta) /\ s2 = Eval(s.trace.S2, chal.zeta)
    OBVIOUS
  <2>3. Openings' = e
    BY <2>1, <2>2 DEF Openings, evaluateBlinded
  <2>4. ASSUME pc' = "open"
        PROVE  Accepted(lin, dig, e.l, e.r, e.o, s1, s2)'
    <3>1. Accepted(lin, dig, e.l, e.r, e.o, s1, s2)
      BY <2>1, <2>2, <2>4 DEF Claimed
    <3> QED BY <2>1, <3>1, AcceptedFrame
  <2>5. VerifierAccepts'
    <3>1. /\ \A k, z : LagrangeAt(k, z)' = LagrangeAt(k, z)
          /\ \A z : PublicInput(z)' = PublicInput(z)
      BY <2>1 DEF LagrangeAt, twiddles0, PublicInput
    <3> QED BY <2>1, <3>1 DEF Claimed, VerifierAccepts, VerifierDigest
  <2> QED BY <2>1, <2>2, <2>3, <2>4, <2>5 DEF Claimed
<1> QED BY <1>1, <1>2, <1>3, <1>4, <1>5, <1>6, <1>7, <1>8, <1>9 DEF Next

\* For every such circuit, witness, blinding, randomizer and challenge: the six
\* openings of the proof satisfy the two equations of gnark's verifier, whichever
\* loop computed the numerator and whatever append left of the slices it wrote over.
THEOREM VerifierAcceptsThm == Spec => []VerifierAccepts
<1>1. Init => IInv /\ Sound /\ Claimed
  BY InitIInv, InitSound, InitClaimed
<1>2. (IInv /\ Sound /\ Claimed) /\ [Next]_vars => (IInv /\ Sound /\ Claimed)'
  BY NextIInv, NextSound, NextClaimed
<1>3. IInv /\ Sound /\ Claimed => VerifierAccepts
  BY DEF Claimed
<1> QED BY <1>1, <1>2, <1>3, PTL DEF Spec
=============================================================================
