-------------------------- MODULE PlonkAlgebraProofs --------------------------
(***************************************************************************)
(* For every prime field, circuit, witness, blinding and challenge that    *)
(* the assumptions of PlonkAlgebra allow: the polynomials of a proof keep  *)
(* their lengths, the digests are those of the polynomials that are opened *)
(* and the shim's kernels compute what the stages do.                      *)
(*                                                                         *)
(* The first half is about the operators: sums, powers, rescaling, the     *)
(* inverse transform (EvalPoly, that Poly(v) has at z the value the        *)
(* Lagrange polynomials give; LagrangeUnity, that these add up to 1), the  *)
(* domain sizes, bit reversal, what each stage's function returns, the     *)
(* polynomial functions of bounded degree and their division by X^n - 1    *)
(* (Division), products in any order (PartialChange), and the copy         *)
(* constraints, which permute the cells (ProductsAgree).                   *)
(* The second is the induction.  IInv = Typed /\ Matches /\ Product says   *)
(* what the fields of s.x, s.bp and the proof are at each stage, with the  *)
(* digests taken at Tau divided by what is left of the coset's shift.      *)
(***************************************************************************)
EXTENDS PlonkAlgebra, DeviceKernelsProofs

-------------------------------------------------------------------------------
(* Sums.                                                                   *)

LEMMA VecIs ==
  ASSUME NEW n \in Nat
  PROVE  \A v \in Vec(n) : /\ DOMAIN v = Upto(n) /\ Size(v) = n /\ v = [k \in Upto(n) |-> v[k]]
                           /\ \A k \in Nat : k < n => v[k] \in F
<1> TAKE v \in Vec(n)
<1>1. DOMAIN v = Upto(n) /\ v = [k \in Upto(n) |-> v[k]] /\ \A k \in Upto(n) : v[k] \in F
  BY DEF Vec
<1>2. Size(v) = n
  BY <1>1, SizeIs
<1> QED BY <1>1, <1>2, UptoIs

LEMMA VecOf ==
  ASSUME NEW n \in Nat, NEW v, v = [k \in Upto(n) |-> v[k]], \A k \in Nat : k < n => v[k] \in F
  PROVE  v \in Vec(n)
BY UptoIs DEF Vec

LEMMA PowerOne == \A e \in Nat : Power(1, e) = 1
<1> DEFINE P == {e \in Nat : Power(1, e) = 1}
<1>1. 0 \in P
  BY PowerLaws, ZeroOne
<1>2. ASSUME NEW e \in Nat, e \in P PROVE e + 1 \in P
  BY <1>2, PowerLaws, ZeroOne, Neutral
<1>3. Nat \subseteq P
  <2> HIDE DEF P
  <2> QED BY <1>1, <1>2, Induction
<1> QED BY <1>3

LEMMA TotalSplit ==
  ASSUME NEW n \in Nat, NEW v \in Vec(n), NEW m \in Nat, m <= n
  PROVE  /\ [k \in Upto(m) |-> v[k]] \in Vec(m) /\ [k \in Upto(n - m) |-> v[m + k]] \in Vec(n - m)
         /\ Total(v) = Total([k \in Upto(m) |-> v[k]]) (+) Total([k \in Upto(n - m) |-> v[m + k]])
<1>0. 1 \in F
  BY ZeroOne
<1>1. PICK hn : IsHorner(hn, n, v, 1)
  BY <1>0, HornerExists
<1>2. hn \in [0 .. n -> F] /\ hn[n] = 0 /\ hn[m] \in F /\ Eval(v, 1) = hn[0]
  <2>1. m \in 0 .. n
    OBVIOUS
  <2> QED BY <1>0, <1>1, <2>1, EvalIs DEF IsHorner
<1>3. PICK d \in Nat : d = n - m
  OBVIOUS
<1>4. Slice(v, 0, m) = [k \in Upto(m) |-> v[k]] /\ Slice(v, 0, m) \in Vec(m)
  <2>1. m - 0 = m /\ \A k \in Upto(m) : 0 + k = k /\ k \in Upto(n)
    BY DEF Upto
  <2>2. Slice(v, 0, m) = [k \in Upto(m) |-> v[k]]
    BY <2>1 DEF Slice
  <2> QED BY <2>1, <2>2 DEF Vec
<1>5. Slice(v, m, n) = [k \in Upto(d) |-> v[m + k]] /\ Slice(v, m, n) \in Vec(d)
  <2>1. \A k \in Upto(d) : m + k \in Upto(n)
    BY <1>3 DEF Upto
  <2> QED BY <1>3, <2>1 DEF Slice, Vec
<1>6. hn[0] = Eval(Slice(v, 0, m), 1) (+) (Power(1, m - 0) (.) hn[m])
  BY <1>0, <1>1, SliceEval
<1>7. hn[m] = Eval(Slice(v, m, n), 1) (+) (Power(1, n - m) (.) hn[n])
  <2>1. n <= n
    OBVIOUS
  <2> QED BY <1>0, <1>1, <2>1, SliceEval
<1>8. Power(1, m - 0) = 1 /\ Power(1, n - m) = 1
  <2>1. m - 0 \in Nat /\ n - m \in Nat
    OBVIOUS
  <2> QED BY <2>1, PowerOne
<1>9. Eval(Slice(v, m, n), 1) \in F
  BY <1>0, <1>5, EvalType
<1>10. hn[m] = Eval(Slice(v, m, n), 1) /\ hn[0] = Eval(Slice(v, 0, m), 1) (+) hn[m]
  BY <1>0, <1>2, <1>6, <1>7, <1>8, <1>9, Neutral
<1> QED BY <1>2, <1>3, <1>4, <1>5, <1>10 DEF Total

LEMMA TotalEmpty == \A v \in Vec(0) : Total(v) = 0
<1> TAKE v \in Vec(0)
<1>1. PICK hn : IsHorner(hn, 0, v, 1)
  BY ZeroOne, HornerExists
<1>2. Eval(v, 1) = hn[0] /\ hn[0] = 0
  <2>1. 0 \in Nat /\ 1 \in F
    BY ZeroOne
  <2>2. Eval(v, 1) = hn[0]
    BY <1>1, <2>1, EvalIs
  <2> QED BY <1>1, <2>2 DEF IsHorner
<1> QED BY <1>2 DEF Total

LEMMA TotalType == \A n \in Nat : \A v \in Vec(n) : Total(v) \in F
BY ZeroOne, EvalType DEF Total

LEMMA TotalSnoc ==
  ASSUME NEW n \in Nat, NEW v \in Vec(n + 1)
  PROVE  /\ [k \in Upto(n) |-> v[k]] \in Vec(n) /\ v[n] \in F
         /\ Total(v) = Total([k \in Upto(n) |-> v[k]]) (+) v[n]
<1>1. n + 1 \in Nat /\ n <= n + 1 /\ (n + 1) - n = 1 /\ n < n + 1 /\ n \in Upto(n + 1)
  BY DEF Upto
<1> DEFINE last == [k \in Upto(1) |-> v[n + k]]
<1>2. /\ [k \in Upto(n) |-> v[k]] \in Vec(n) /\ last \in Vec(1)
      /\ Total(v) = Total([k \in Upto(n) |-> v[k]]) (+) Total(last)
  <2> HIDE DEF last
  <2>1. last = [k \in Upto((n + 1) - n) |-> v[n + k]]
    BY <1>1 DEF last
  <2> QED BY <1>1, <2>1, TotalSplit
<1>3. v[n] \in F
  BY <1>1 DEF Vec
<1>4. last[0] = v[n]
  <2>1. 0 \in Upto(1) /\ n + 0 = n
    BY DEF Upto
  <2> QED BY <2>1
<1> HIDE DEF last
<1>5. Total(last) = v[n]
  <2>1. PICK hn : IsHorner(hn, 1, last, 1)
    BY <1>2, ZeroOne, HornerExists
  <2>2. hn[1] = 0 /\ hn[0] = last[0] (+) (1 (.) hn[0 + 1])
    BY <2>1 DEF IsHorner
  <2>3. 0 + 1 = 1 /\ 1 (.) 0 = 0
    BY ZeroOne, Neutral
  <2>4. hn[0] = last[0] (+) 0
    BY <2>2, <2>3
  <2>5. hn[0] = v[n]
    BY <1>3, <1>4, <2>4, Neutral
  <2> QED BY <1>2, <2>1, <2>5, ZeroOne, EvalIs DEF Total
<1> QED BY <1>2, <1>3, <1>5

LEMMA AddSwap ==
  \A p, q, r, t \in F : (p (+) q) (+) (r (+) t) = (p (+) r) (+) (q (+) t)
<1> TAKE p, q, r, t \in F
<1>1. p (+) q \in F /\ r (+) t \in F /\ q (+) t \in F /\ p (+) r \in F /\ q (+) r \in F
  BY Closed
<1>2. (p (+) q) (+) (r (+) t) = p (+) (q (+) (r (+) t))
  BY <1>1, Associates
<1>3. q (+) (r (+) t) = r (+) (q (+) t)
  BY Associates, Commutes
<1>4. p (+) (r (+) (q (+) t)) = (p (+) r) (+) (q (+) t)
  BY <1>1, Associates
<1> QED BY <1>2, <1>3, <1>4

LEMMA TotalAdd ==
  \A n \in Nat : \A a, b \in Vec(n) : Total([k \in Upto(n) |-> a[k] (+) b[k]]) = Total(a) (+) Total(b)
<1> DEFINE P == {n \in Nat : \A a, b \in Vec(n) :
                   Total([k \in Upto(n) |-> a[k] (+) b[k]]) = Total(a) (+) Total(b)}
<1>1. 0 \in P
  <2> SUFFICES ASSUME NEW a \in Vec(0), NEW b \in Vec(0)
               PROVE  Total([k \in Upto(0) |-> a[k] (+) b[k]]) = Total(a) (+) Total(b)
    OBVIOUS
  <2>1. [k \in Upto(0) |-> a[k] (+) b[k]] \in Vec(0)
    BY DEF Upto, Vec
  <2> QED BY <2>1, TotalEmpty, ZeroOne, Neutral
<1>2. ASSUME NEW n \in Nat, n \in P PROVE n + 1 \in P
  <2> SUFFICES ASSUME NEW a \in Vec(n + 1), NEW b \in Vec(n + 1)
               PROVE  Total([k \in Upto(n + 1) |-> a[k] (+) b[k]]) = Total(a) (+) Total(b)
    BY <1>2
  <2> DEFINE c  == [k \in Upto(n + 1) |-> a[k] (+) b[k]]
             a0 == [k \in Upto(n) |-> a[k]]
             b0 == [k \in Upto(n) |-> b[k]]
             c0 == [k \in Upto(n) |-> c[k]]
  <2>1. /\ a0 \in Vec(n) /\ a[n] \in F /\ Total(a) = Total(a0) (+) a[n]
        /\ b0 \in Vec(n) /\ b[n] \in F /\ Total(b) = Total(b0) (+) b[n]
    BY TotalSnoc
  <2>2. c \in Vec(n + 1)
    BY Closed DEF Vec
  <2>3. c0 \in Vec(n) /\ Total(c) = Total(c0) (+) c[n]
    <3> HIDE DEF c
    <3> QED BY <2>2, TotalSnoc
  <2>4. c0 = [k \in Upto(n) |-> a0[k] (+) b0[k]] /\ c[n] = a[n] (+) b[n]
    <3>1. n \in Upto(n + 1) /\ \A k \in Upto(n) : k \in Upto(n + 1)
      BY DEF Upto
    <3> QED BY <3>1
  <2>5. Total(c0) = Total(a0) (+) Total(b0)
    <3> HIDE DEF a0, b0, c0, c
    <3> QED BY <1>2, <2>1, <2>4
  <2>6. Total(a0) \in F /\ Total(b0) \in F
    BY <2>1, TotalType
  <2> DEFINE p == Total(a0)
             q == Total(b0)
             r == a[n]
             t == b[n]
  <2>7. (p (+) q) (+) (r (+) t) = (p (+) r) (+) (q (+) t)
    <3>1. p \in F /\ q \in F /\ r \in F /\ t \in F
      BY <2>1, <2>6
    <3> HIDE DEF p, q, r, t
    <3> QED BY <3>1, AddSwap
  <2> HIDE DEF c
  <2>8. Total(c) = Total(a) (+) Total(b)
    BY <2>1, <2>3, <2>4, <2>5, <2>7
  <2> QED BY <2>8 DEF c
<1>3. Nat \subseteq P
  <2> HIDE DEF P
  <2> QED BY <1>1, <1>2, Induction
<1> QED BY <1>3

LEMMA TotalScale ==
  \A n \in Nat : \A a \in Vec(n), c \in F : Total([k \in Upto(n) |-> c (.) a[k]]) = c (.) Total(a)
<1> DEFINE P == {n \in Nat : \A a \in Vec(n), c \in F :
                   Total([k \in Upto(n) |-> c (.) a[k]]) = c (.) Total(a)}
<1>1. 0 \in P
  <2> SUFFICES ASSUME NEW a \in Vec(0), NEW c \in F
               PROVE  Total([k \in Upto(0) |-> c (.) a[k]]) = c (.) Total(a)
    OBVIOUS
  <2>1. [k \in Upto(0) |-> c (.) a[k]] \in Vec(0)
    BY DEF Upto, Vec
  <2> QED BY <2>1, TotalEmpty, ZeroOne, Neutral
<1>2. ASSUME NEW n \in Nat, n \in P PROVE n + 1 \in P
  <2> SUFFICES ASSUME NEW a \in Vec(n + 1), NEW c \in F
               PROVE  Total([k \in Upto(n + 1) |-> c (.) a[k]]) = c (.) Total(a)
    BY <1>2
  <2> DEFINE b  == [k \in Upto(n + 1) |-> c (.) a[k]]
             a0 == [k \in Upto(n) |-> a[k]]
             b0 == [k \in Upto(n) |-> b[k]]
  <2>1. a0 \in Vec(n) /\ a[n] \in F /\ Total(a) = Total(a0) (+) a[n]
    BY TotalSnoc
  <2>2. b \in Vec(n + 1)
    BY Closed DEF Vec
  <2>3. b0 \in Vec(n) /\ Total(b) = Total(b0) (+) b[n]
    <3> HIDE DEF b
    <3> QED BY <2>2, TotalSnoc
  <2>4. b0 = [k \in Upto(n) |-> c (.) a0[k]] /\ b[n] = c (.) a[n]
    <3>1. n \in Upto(n + 1) /\ \A k \in Upto(n) : k \in Upto(n + 1)
      BY DEF Upto
    <3> QED BY <3>1
  <2>5. Total(b0) = c (.) Total(a0)
    <3> HIDE DEF a0, b0, b
    <3> QED BY <1>2, <2>1, <2>4
  <2>6. Total(a0) \in F
    BY <2>1, TotalType
  <2>7. c (.) (Total(a0) (+) a[n]) = (c (.) Total(a0)) (+) (c (.) a[n])
    BY <2>1, <2>6, Distributes
  <2> HIDE DEF b
  <2>8. Total(b) = c (.) Total(a)
    BY <2>1, <2>3, <2>4, <2>5, <2>7
  <2> QED BY <2>8 DEF b
<1>3. Nat \subseteq P
  <2> HIDE DEF P
  <2> QED BY <1>1, <1>2, Induction
<1> QED BY <1>3

LEMMA TotalZero == \A n \in Nat : Total([k \in Upto(n) |-> 0]) = 0
<1> TAKE n \in Nat
<1> DEFINE v == [k \in Upto(n) |-> 0]
<1>1. v \in Vec(n) /\ v = [k \in Upto(n) |-> 0 (.) v[k]]
  BY ZeroOne, Neutral DEF Vec
<1>2. Total(v) = 0 (.) Total(v) /\ Total(v) \in F
  <2> HIDE DEF v
  <2> QED BY <1>1, ZeroOne, TotalScale, TotalType
<1> QED BY <1>2, Neutral

\* The order of a double sum.
LEMMA TotalSwap ==
  ASSUME NEW m \in Nat, NEW n \in Nat, NEW a \in [Upto(m) \X Upto(n) -> F]
  PROVE  Total([j \in Upto(m) |-> Total([k \in Upto(n) |-> a[<<j, k>>]])])
           = Total([k \in Upto(n) |-> Total([j \in Upto(m) |-> a[<<j, k>>]])])
<1> DEFINE Row0(j)    == [k \in Upto(n) |-> a[<<j, k>>]]
           Column(e, k) == [j \in Upto(e) |-> a[<<j, k>>]]
           Rows(e)    == [j \in Upto(e) |-> Total(Row0(j))]
           Columns(e) == [k \in Upto(n) |-> Total(Column(e, k))]
           P == {e \in Nat : e <= m => Total(Rows(e)) = Total(Columns(e))}
<1>1. \A j \in Nat : j < m => Row0(j) \in Vec(n) /\ Total(Row0(j)) \in F
  <2>1. ASSUME NEW j \in Nat, j < m PROVE Row0(j) \in Vec(n)
    <3>1. j \in Upto(m)
      BY <2>1, UptoIs
    <3> QED BY <3>1 DEF Vec
  <2> QED BY <2>1, TotalType
<1>2. ASSUME NEW e \in Nat, e <= m
      PROVE  Rows(e) \in Vec(e) /\ Columns(e) \in Vec(n) /\ \A k \in Upto(n) : Column(e, k) \in Vec(e)
  <2>1. \A j \in Upto(e) : j \in Upto(m) /\ j \in Nat /\ j < m
    BY <1>2 DEF Upto
  <2>2. \A k \in Upto(n) : Column(e, k) \in Vec(e)
    BY <2>1 DEF Vec
  <2>3. \A k \in Upto(n) : Total(Column(e, k)) \in F
    <3> HIDE DEF Column
    <3> QED BY <2>2, TotalType
  <2> QED BY <1>1, <2>1, <2>2, <2>3 DEF Vec
<1>3. 0 \in P
  <2>1. 0 <= m
    OBVIOUS
  <2>2. Total(Rows(0)) = 0
    BY <1>2, <2>1, TotalEmpty
  <2>3. \A k \in Upto(n) : Total(Column(0, k)) = 0
    <3> HIDE DEF Column
    <3> QED BY <1>2, <2>1, TotalEmpty
  <2>4. Columns(0) = [k \in Upto(n) |-> 0]
    BY <2>3
  <2> QED BY <2>2, <2>4, TotalZero
<1>4. ASSUME NEW e \in Nat, e \in P PROVE e + 1 \in P
  <2> SUFFICES ASSUME e + 1 <= m PROVE Total(Rows(e + 1)) = Total(Columns(e + 1))
    OBVIOUS
  <2>1. e < m /\ e <= m /\ e + 1 \in Nat /\ e \in Upto(e + 1) /\ \A j \in Upto(e) : j \in Upto(e + 1)
    BY DEF Upto
  <2>2. Total(Rows(e + 1)) = Total(Rows(e)) (+) Total(Row0(e))
    <3>1. Rows(e + 1)[e] = Total(Row0(e)) /\ Rows(e) = [j \in Upto(e) |-> Rows(e + 1)[j]]
      BY <2>1
    <3>2. Rows(e + 1) \in Vec(e + 1)
      BY <1>2, <2>1
    <3> HIDE DEF Rows
    <3> QED BY <3>1, <3>2, TotalSnoc
  <2>3. \A k \in Upto(n) : Total(Column(e + 1, k)) = Total(Column(e, k)) (+) a[<<e, k>>]
    <3> TAKE k \in Upto(n)
    <3>1. Column(e + 1, k)[e] = a[<<e, k>>] /\ Column(e, k) = [j \in Upto(e) |-> Column(e + 1, k)[j]]
      BY <2>1
    <3>2. Column(e + 1, k) \in Vec(e + 1)
      BY <1>2, <2>1
    <3> HIDE DEF Column
    <3> QED BY <3>1, <3>2, TotalSnoc
  <2>4. Columns(e + 1) = [k \in Upto(n) |-> Columns(e)[k] (+) Row0(e)[k]]
    BY <2>3
  <2>5. Columns(e) \in Vec(n) /\ Row0(e) \in Vec(n)
    BY <1>1, <1>2, <2>1
  <2>6. Total(Columns(e + 1)) = Total(Columns(e)) (+) Total(Row0(e))
    <3> HIDE DEF Columns, Row0
    <3> QED BY <2>4, <2>5, TotalAdd
  <2>7. Total(Rows(e)) = Total(Columns(e))
    BY <1>4, <2>1
  <2> HIDE DEF Rows, Columns, Row0
  <2> QED BY <2>2, <2>6, <2>7
<1>5. m \in P
  <2>1. Nat \subseteq P
    <3> HIDE DEF P
    <3> QED BY <1>3, <1>4, Induction
  <2> QED BY <2>1
<1>6. Total(Rows(m)) = Total(Columns(m))
  <2>1. m <= m
    OBVIOUS
  <2> HIDE DEF Rows, Columns
  <2> QED BY <1>5, <2>1
<1> QED BY <1>6

-------------------------------------------------------------------------------
(* Powers, and polynomials as sums of powers.                              *)

LEMMA PowerProduct ==
  \A a, b \in F : \A e \in Nat : Power(a (.) b, e) = Power(a, e) (.) Power(b, e)
<1> TAKE a, b \in F
<1> DEFINE P == {e \in Nat : Power(a (.) b, e) = Power(a, e) (.) Power(b, e)}
<1>0. a (.) b \in F
  BY Closed
<1>1. 0 \in P
  BY <1>0, PowerLaws, ZeroOne, Neutral
<1>2. ASSUME NEW e \in Nat, e \in P PROVE e + 1 \in P
  <2>1. /\ Power(a (.) b, e + 1) = (a (.) b) (.) Power(a (.) b, e)
        /\ Power(a, e + 1) = a (.) Power(a, e) /\ Power(b, e + 1) = b (.) Power(b, e)
        /\ Power(a, e) \in F /\ Power(b, e) \in F
    BY <1>0, PowerLaws
  <2> DEFINE p == Power(a, e)
             q == Power(b, e)
  <2>2. (a (.) b) (.) (p (.) q) = (a (.) p) (.) (b (.) q)
    <3>1. p \in F /\ q \in F
      BY <2>1
    <3> HIDE DEF p, q
    <3>2. (a (.) b) (.) (p (.) q) = a (.) (b (.) (p (.) q))
      BY <3>1, Associates, Closed
    <3>3. b (.) (p (.) q) = p (.) (b (.) q)
      BY <3>1, Associates, Commutes
    <3>4. a (.) (p (.) (b (.) q)) = (a (.) p) (.) (b (.) q)
      BY <3>1, Associates, Closed
    <3> QED BY <3>2, <3>3, <3>4
  <2> QED BY <1>2, <2>1, <2>2
<1>3. Nat \subseteq P
  <2> HIDE DEF P
  <2> QED BY <1>1, <1>2, Induction
<1> QED BY <1>3

LEMMA PowerPower ==
  \A a \in F : \A j, k \in Nat : Power(Power(a, j), k) = Power(a, j * k)
<1> TAKE a \in F
<1> TAKE j \in Nat
<1> DEFINE P == {k \in Nat : Power(Power(a, j), k) = Power(a, j * k)}
<1>0. Power(a, j) \in F
  BY PowerLaws
<1>1. 0 \in P
  <2>1. j * 0 = 0
    OBVIOUS
  <2> QED BY <1>0, <2>1, PowerLaws
<1>2. ASSUME NEW k \in Nat, k \in P PROVE k + 1 \in P
  <2>1. PICK jk \in Nat : jk = j * k
    OBVIOUS
  <2>2. j * (k + 1) = j + jk
    BY <2>1
  <2>3. Power(Power(a, j), k + 1) = Power(a, j) (.) Power(a, jk)
    BY <1>0, <1>2, <2>1, PowerLaws
  <2>4. Power(a, j + jk) = Power(a, j) (.) Power(a, jk)
    BY PowerLaws
  <2> QED BY <2>2, <2>3, <2>4
<1>3. Nat \subseteq P
  <2> HIDE DEF P
  <2> QED BY <1>1, <1>2, Induction
<1> QED BY <1>3

LEMMA PowerFirst == \A a \in F : Power(a, 1) = a
<1> TAKE a \in F
<1>1. Power(a, 0 + 1) = a (.) Power(a, 0) /\ Power(a, 0) = 1
  BY PowerLaws
<1>2. 0 + 1 = 1
  OBVIOUS
<1> QED BY <1>1, <1>2, Neutral

LEMMA EvalTotal ==
  ASSUME NEW n \in Nat, NEW p \in Vec(n), NEW z \in F
  PROVE  /\ [k \in Upto(n) |-> p[k] (.) Power(z, k)] \in Vec(n)
         /\ Eval(p, z) = Total([k \in Upto(n) |-> p[k] (.) Power(z, k)])
<1> DEFINE T(m) == [k \in Upto(m) |-> p[k] (.) Power(z, k)]
<1>1. PICK hn : IsHorner(hn, n, p, z)
  BY HornerExists
<1>2. /\ hn \in [0 .. n -> F] /\ hn[n] = 0 /\ Eval(p, z) = hn[0]
      /\ \A m \in Nat : m < n => hn[m] = p[m] (+) (z (.) hn[m + 1])
  <2>1. Eval(p, z) = hn[0]
    BY <1>1, EvalIs
  <2> QED BY <1>1, <2>1 DEF IsHorner
<1>3. \A m \in Nat : m <= n => T(m) \in Vec(m)
  <2> SUFFICES ASSUME NEW m \in Nat, m <= n PROVE T(m) \in Vec(m)
    OBVIOUS
  <2>1. \A k \in Upto(m) : k \in Nat /\ k < n
    BY UptoIs
  <2>2. \A k \in Upto(m) : p[k] \in F /\ Power(z, k) \in F
    BY <2>1, VecIs, PowerLaws
  <2> QED BY <2>2, Closed DEF Vec
<1> DEFINE P == {m \in Nat : m <= n => hn[0] = Total(T(m)) (+) (Power(z, m) (.) hn[m])}
<1>4. 0 \in P
  <2>1. Total(T(0)) = 0
    BY <1>3, TotalEmpty
  <2>2. hn[0] \in F /\ Power(z, 0) = 1
    BY <1>2, PowerLaws
  <2> HIDE DEF T
  <2> QED BY <2>1, <2>2, Neutral
<1>5. ASSUME NEW m \in Nat, m \in P PROVE m + 1 \in P
  <2> SUFFICES ASSUME m + 1 <= n
               PROVE  hn[0] = Total(T(m + 1)) (+) (Power(z, m + 1) (.) hn[m + 1])
    OBVIOUS
  <2>1. m < n /\ m <= n /\ m + 1 \in Nat /\ m + 1 \in 0 .. n /\ m \in Upto(m + 1)
        /\ \A k \in Upto(m) : k \in Upto(m + 1)
    BY DEF Upto
  <2>2. T(m + 1)[m] = p[m] (.) Power(z, m) /\ T(m) = [k \in Upto(m) |-> T(m + 1)[k]]
    BY <2>1
  <2>3. T(m + 1) \in Vec(m + 1) /\ T(m) \in Vec(m)
    BY <1>3, <2>1
  <2> HIDE DEF T
  <2>4. Total(T(m + 1)) = Total(T(m)) (+) (p[m] (.) Power(z, m)) /\ Total(T(m)) \in F
    BY <2>2, <2>3, TotalSnoc, TotalType
  <2>5. hn[m] = p[m] (+) (z (.) hn[m + 1]) /\ hn[m + 1] \in F /\ p[m] \in F
    BY <1>2, <2>1, VecIs
  <2>6. Power(z, m) \in F /\ Power(z, m + 1) = z (.) Power(z, m)
    BY PowerLaws
  <2> DEFINE t == Total(T(m))
             a == p[m]
             w == Power(z, m)
             b == hn[m + 1]
  <2>7. t \in F /\ a \in F /\ w \in F /\ b \in F
    BY <2>4, <2>5, <2>6
  <2>8. hn[0] = t (+) (w (.) (a (+) (z (.) b)))
    BY <1>5, <2>1, <2>5
  <2>9. t (+) (w (.) (a (+) (z (.) b))) = (t (+) (a (.) w)) (+) ((z (.) w) (.) b)
    <3> HIDE DEF t, a, w, b
    <3>1. z (.) b \in F /\ w (.) a \in F /\ w (.) (z (.) b) \in F
      BY <2>7, Closed
    <3>2. w (.) (a (+) (z (.) b)) = (w (.) a) (+) (w (.) (z (.) b))
      BY <2>7, <3>1, Distributes
    <3>3. w (.) (z (.) b) = (z (.) w) (.) b /\ w (.) a = a (.) w
      BY <2>7, Associates, Commutes
    <3>4. t (+) ((w (.) a) (+) (w (.) (z (.) b))) = (t (+) (w (.) a)) (+) (w (.) (z (.) b))
      BY <2>7, <3>1, Associates
    <3> QED BY <3>2, <3>3, <3>4
  <2> QED BY <2>4, <2>6, <2>8, <2>9
<1>6. n \in P
  <2>1. Nat \subseteq P
    <3> HIDE DEF P
    <3> QED BY <1>4, <1>5, Induction
  <2> QED BY <2>1
<1>7. hn[0] = Total(T(n)) (+) (Power(z, n) (.) hn[n]) /\ T(n) \in Vec(n)
  <2>1. n <= n
    OBVIOUS
  <2> HIDE DEF T
  <2> QED BY <1>3, <1>6, <2>1
<1>8. Power(z, n) (.) hn[n] = 0 /\ Total(T(n)) \in F
  <2>1. Power(z, n) \in F
    BY PowerLaws
  <2> HIDE DEF T
  <2> QED BY <1>2, <1>7, <2>1, Neutral, TotalType
<1>9. Eval(p, z) = Total(T(n))
  <2> HIDE DEF T
  <2> QED BY <1>2, <1>7, <1>8, Neutral
<1> QED BY <1>7, <1>9

LEMMA RescaleIs ==
  ASSUME NEW n \in Nat, NEW p \in Vec(n), NEW c \in F
  PROVE  /\ Rescale(p, c) = [k \in Upto(n) |-> p[k] (.) Power(c, k)]
         /\ Rescale(p, c) \in Vec(n)
<1>1. Rescale(p, c) = [k \in Upto(n) |-> p[k] (.) Power(c, k)]
  BY DEF Rescale, Vec
<1> QED BY <1>1, EvalTotal

LEMMA EvalRescale ==
  ASSUME NEW n \in Nat, NEW p \in Vec(n), NEW c \in F, NEW z \in F
  PROVE  Eval(Rescale(p, c), z) = Eval(p, c (.) z)
<1>1. Rescale(p, c) \in Vec(n) /\ Rescale(p, c) = [k \in Upto(n) |-> p[k] (.) Power(c, k)]
  BY RescaleIs
<1>2. c (.) z \in F
  BY Closed
<1>3. \A k \in Upto(n) : Rescale(p, c)[k] (.) Power(z, k) = p[k] (.) Power(c (.) z, k)
  <2> TAKE k \in Upto(n)
  <2>1. k \in Nat /\ p[k] \in F
    BY UptoIs DEF Vec
  <2>2. Power(c, k) \in F /\ Power(z, k) \in F
    BY <2>1, PowerLaws
  <2> QED BY <1>1, <2>1, <2>2, PowerProduct, Associates
<1>4. [k \in Upto(n) |-> Rescale(p, c)[k] (.) Power(z, k)] = [k \in Upto(n) |-> p[k] (.) Power(c (.) z, k)]
  BY <1>3
<1>5. Eval(Rescale(p, c), z) = Total([k \in Upto(n) |-> Rescale(p, c)[k] (.) Power(z, k)])
  BY <1>1, EvalTotal
<1>6. Eval(p, c (.) z) = Total([k \in Upto(n) |-> p[k] (.) Power(c (.) z, k)])
  BY <1>2, EvalTotal
<1> QED BY <1>4, <1>5, <1>6

LEMMA RescaleTwice ==
  ASSUME NEW n \in Nat, NEW p \in Vec(n), NEW c \in F, NEW d \in F
  PROVE  Rescale(Rescale(p, c), d) = Rescale(p, c (.) d)
<1>1. c (.) d \in F /\ Rescale(p, c) \in Vec(n)
  BY Closed, RescaleIs
<1>2. \A k \in Upto(n) : Rescale(p, c)[k] (.) Power(d, k) = p[k] (.) Power(c (.) d, k)
  <2> TAKE k \in Upto(n)
  <2>1. k \in Nat /\ p[k] \in F
    BY UptoIs DEF Vec
  <2>2. Power(c, k) \in F /\ Power(d, k) \in F /\ Rescale(p, c)[k] = p[k] (.) Power(c, k)
    BY <2>1, PowerLaws, RescaleIs
  <2> QED BY <2>1, <2>2, PowerProduct, Associates
<1> QED BY <1>1, <1>2, RescaleIs

LEMMA RescaleOne ==
  ASSUME NEW n \in Nat, NEW p \in Vec(n)
  PROVE  Rescale(p, 1) = p
<1>1. \A k \in Upto(n) : p[k] (.) Power(1, k) = p[k]
  <2> TAKE k \in Upto(n)
  <2>1. k \in Nat /\ p[k] \in F
    BY UptoIs DEF Vec
  <2> QED BY <2>1, PowerOne, Neutral
<1> QED BY <1>1, ZeroOne, RescaleIs, VecIs

LEMMA Geometric ==
  \A u \in F : \A n \in Nat :
     /\ [k \in Upto(n) |-> Power(u, k)] \in Vec(n)
     /\ (u (-) 1) (.) Total([k \in Upto(n) |-> Power(u, k)]) = Power(u, n) (-) 1
<1> TAKE u \in F
<1> DEFINE T(n) == [k \in Upto(n) |-> Power(u, k)]
           P == {n \in Nat : (u (-) 1) (.) Total(T(n)) = Power(u, n) (-) 1}
<1>1. \A n \in Nat : T(n) \in Vec(n)
  BY UptoIs, PowerLaws DEF Vec
<1>2. u (-) 1 \in F
  BY ZeroOne, Closed
<1>3. 0 \in P
  <2>1. Total(T(0)) = 0
    BY <1>1, TotalEmpty
  <2> HIDE DEF T
  <2> QED BY <1>2, <2>1, PowerLaws, Neutral, ZeroOne
<1>4. ASSUME NEW n \in Nat, n \in P PROVE n + 1 \in P
  <2>1. n \in Upto(n + 1) /\ n + 1 \in Nat /\ \A k \in Upto(n) : k \in Upto(n + 1)
    BY DEF Upto
  <2>2. T(n + 1)[n] = Power(u, n) /\ T(n) = [k \in Upto(n) |-> T(n + 1)[k]]
    BY <2>1
  <2>3. T(n + 1) \in Vec(n + 1) /\ T(n) \in Vec(n)
    BY <1>1, <2>1
  <2> HIDE DEF T
  <2>4. Total(T(n + 1)) = Total(T(n)) (+) Power(u, n) /\ Total(T(n)) \in F
    BY <2>2, <2>3, TotalSnoc, TotalType
  <2>5. Power(u, n) \in F /\ Power(u, n + 1) = u (.) Power(u, n)
    BY PowerLaws
  <2> DEFINE t == Total(T(n))
             w == Power(u, n)
  <2>6. (u (-) 1) (.) (t (+) w) = ((u (-) 1) (.) t) (+) ((u (-) 1) (.) w)
    BY <1>2, <2>4, <2>5, Distributes
  <2>7. (u (-) 1) (.) t = w (-) 1
    BY <1>4
  <2>8. (u (-) 1) (.) w = (u (.) w) (-) w
    BY <2>5, ZeroOne, Distributes, Neutral
  <2>9. (w (-) 1) (+) ((u (.) w) (-) w) = (u (.) w) (-) 1
    <3>1. w \in F /\ u (.) w \in F /\ 1 \in F
      BY <2>5, Closed, ZeroOne
    <3> HIDE DEF w
    <3>2. PICK y \in F : y = u (.) w
      BY <3>1
    <3>3. (w (-) 1) (+) (y (-) w) = y (-) 1
      <4>1. w (-) 1 = Mod(w - 1) /\ y (-) w = Mod(y - w) /\ y (-) 1 = Mod(y - 1)
            /\ w \in Int /\ y \in Int
        BY <3>1, ElementOps
      <4>2. Mod(w - 1) (+) Mod(y - w) = Mod((w - 1) + (y - w))
        BY <4>1, ModOps
      <4>3. (w - 1) + (y - w) = y - 1
        BY <4>1
      <4> QED BY <4>1, <4>2, <4>3
    <3> QED BY <3>2, <3>3
  <2> QED BY <2>4, <2>5, <2>6, <2>7, <2>8, <2>9
<1>5. Nat \subseteq P
  <2> HIDE DEF P
  <2> QED BY <1>3, <1>4, Induction
<1> QED BY <1>1, <1>5

LEMMA EvalConcat ==
  ASSUME NEW m \in Nat, NEW n \in Nat, NEW p \in Vec(m), NEW q \in Vec(n)
  PROVE  /\ Concat(p, q) \in Vec(m + n)
         /\ Concat(p, q) = [k \in Upto(m + n) |-> IF k < m THEN p[k] ELSE q[k - m]]
         /\ \A z \in F : Eval(Concat(p, q), z) = Eval(p, z) (+) (Power(z, m) (.) Eval(q, z))
<1>1. Concat(p, q) = [k \in Upto(m + n) |-> IF k < m THEN p[k] ELSE q[k - m]]
  BY VecIs DEF Concat
<1>2. Concat(p, q) \in Vec(m + n)
  <2>1. ASSUME NEW k \in Upto(m + n) PROVE (IF k < m THEN p[k] ELSE q[k - m]) \in F
    <3>1. k \in Nat /\ k < m + n
      BY <2>1 DEF Upto
    <3>2. CASE k < m
      BY <3>1, <3>2, VecIs
    <3>3. CASE ~(k < m)
      <4>1. PICK d \in Nat : d = k - m /\ d < n
        BY <3>1, <3>3
      <4> QED BY <3>3, <4>1, VecIs
    <3> QED BY <3>2, <3>3
  <2> QED BY <1>1, <2>1 DEF Vec
<1> DEFINE c == Concat(p, q)
<1>3. ASSUME NEW z \in F PROVE Eval(c, z) = Eval(p, z) (+) (Power(z, m) (.) Eval(q, z))
  <2>0. PICK e \in Nat : e = m + n /\ m <= e /\ e - m = n
    OBVIOUS
  <2>1. Slice(c, 0, m) = p
    <3>1. m - 0 = m /\ \A k \in Upto(m) : k \in Upto(m + n) /\ 0 + k = k /\ k < m
      BY DEF Upto
    <3>2. Slice(c, 0, m) = [k \in Upto(m) |-> p[k]]
      BY <1>1, <3>1 DEF Slice
    <3> QED BY <3>2, VecIs
  <2>2. Slice(c, m, e) = q
    <3>1. \A k \in Upto(n) : m + k \in Upto(m + n) /\ ~(m + k < m) /\ (m + k) - m = k
      BY DEF Upto
    <3>2. Slice(c, m, e) = [k \in Upto(n) |-> q[k]]
      BY <1>1, <2>0, <3>1 DEF Slice
    <3> QED BY <3>2, VecIs
  <2> HIDE DEF c
  <2>3. c \in Vec(e)
    BY <1>2, <2>0 DEF c
  <2>4. PICK hn : IsHorner(hn, e, c, z)
    BY <2>3, HornerExists
  <2>5. hn[0] = Eval(c, z) /\ hn[e] = 0
    BY <2>3, <2>4, EvalIs DEF IsHorner
  <2>6. hn[0] = Eval(p, z) (+) (Power(z, m) (.) hn[m])
    <3>1. m - 0 = m /\ 0 <= m
      OBVIOUS
    <3>2. hn[0] = Eval(Slice(c, 0, m), z) (+) (Power(z, m - 0) (.) hn[m])
      BY <2>0, <2>3, <2>4, <3>1, SliceEval
    <3> QED BY <2>1, <3>1, <3>2
  <2>7. hn[m] = Eval(q, z) (+) (Power(z, n) (.) hn[e])
    <3>1. e <= e
      OBVIOUS
    <3>2. hn[m] = Eval(Slice(c, m, e), z) (+) (Power(z, e - m) (.) hn[e])
      BY <2>0, <2>3, <2>4, <3>1, SliceEval
    <3> QED BY <2>0, <2>2, <3>2
  <2>8. Power(z, n) \in F /\ Eval(q, z) \in F
    BY PowerLaws, EvalType
  <2>9. hn[m] = Eval(q, z)
    BY <2>5, <2>7, <2>8, Neutral
  <2> QED BY <2>5, <2>6, <2>9
<1> QED BY <1>1, <1>2, <1>3

LEMMA EvalSub ==
  ASSUME NEW n \in Nat, NEW p \in Vec(n), NEW q \in Vec(n), NEW z \in F
  PROVE  /\ [k \in Upto(n) |-> p[k] (-) q[k]] \in Vec(n)
         /\ Eval([k \in Upto(n) |-> p[k] (-) q[k]], z) = Eval(p, z) (-) Eval(q, z)
<1> DEFINE d == [k \in Upto(n) |-> p[k] (-) q[k]]
           T(v) == [k \in Upto(n) |-> v[k] (.) Power(z, k)]
<1>1. d \in Vec(n)
  BY Closed DEF Vec
<1>2. \A v \in Vec(n) : T(v) \in Vec(n) /\ Eval(v, z) = Total(T(v)) /\ Total(T(v)) \in F
  <2> SUFFICES ASSUME NEW v \in Vec(n)
               PROVE  T(v) \in Vec(n) /\ Eval(v, z) = Total(T(v)) /\ Total(T(v)) \in F
    OBVIOUS
  <2>1. T(v) \in Vec(n) /\ Eval(v, z) = Total(T(v))
    BY EvalTotal
  <2> HIDE DEF T
  <2> QED BY <2>1, TotalType
<1>3. \A k \in Upto(n) : T(p)[k] = T(d)[k] (+) T(q)[k]
  <2> TAKE k \in Upto(n)
  <2>1. k \in Nat /\ p[k] \in F /\ q[k] \in F /\ p[k] (-) q[k] \in F
    BY UptoIs, Closed DEF Vec
  <2>2. Power(z, k) \in F
    BY <2>1, PowerLaws
  <2>3. (p[k] (-) q[k]) (+) q[k] = p[k]
    BY <2>1, Subtracts
  <2> QED BY <2>1, <2>2, <2>3, Distributes
<1>4. T(p) = [k \in Upto(n) |-> T(d)[k] (+) T(q)[k]]
  BY <1>3
<1> HIDE DEF T, d
<1>5. Total(T(p)) = Total(T(d)) (+) Total(T(q))
  BY <1>1, <1>2, <1>4, TotalAdd
<1>6. Eval(p, z) = Eval(d, z) (+) Eval(q, z) /\ Eval(d, z) \in F /\ Eval(q, z) \in F
  BY <1>1, <1>2, <1>5
<1>7. Eval(d, z) = Eval(p, z) (-) Eval(q, z)
  BY <1>6, Subtracts
<1> QED BY <1>1, <1>7 DEF d

LEMMA EvalZero == \A n \in Nat : \A z \in F : Eval([k \in Upto(n) |-> 0], z) = 0
<1> TAKE n \in Nat
<1> TAKE z \in F
<1> DEFINE v == [k \in Upto(n) |-> 0]
<1>1. v \in Vec(n)
  BY ZeroOne DEF Vec
<1>2. [k \in Upto(n) |-> v[k] (.) Power(z, k)] = [k \in Upto(n) |-> 0]
  BY UptoIs, PowerLaws, Neutral
<1>3. Eval(v, z) = Total([k \in Upto(n) |-> v[k] (.) Power(z, k)])
  <2> HIDE DEF v
  <2> QED BY <1>1, EvalTotal
<1> QED BY <1>2, <1>3, TotalZero

\* A blinded polynomial is p + b (X^n - 1).
LEMMA EvalBlinded ==
  ASSUME NEW n \in Nat, NEW m \in Nat, NEW p \in Vec(n), NEW b \in Vec(m)
  PROVE  /\ getBlindedCoefficients(p, b) \in Vec(n + m)
         /\ \A z \in F : Eval(getBlindedCoefficients(p, b), z)
                           = Eval(p, z) (+) (Eval(b, z) (.) (Power(z, n) (-) 1))
<1> DEFINE zeros == [k \in Upto(n) |-> 0]
           pad == Concat(b, zeros)
           con == Concat(p, b)
<1>0. PICK e \in Nat : e = n + m /\ e = m + n
  OBVIOUS
<1>1. zeros \in Vec(n)
  BY ZeroOne DEF Vec
<1>2. /\ pad \in Vec(e) /\ pad = [k \in Upto(e) |-> IF k < m THEN b[k] ELSE zeros[k - m]]
      /\ \A z \in F : Eval(pad, z) = Eval(b, z) (+) (Power(z, m) (.) Eval(zeros, z))
  <2> HIDE DEF zeros
  <2> QED BY <1>0, <1>1, EvalConcat
<1>3. /\ con \in Vec(e)
      /\ \A z \in F : Eval(con, z) = Eval(p, z) (+) (Power(z, n) (.) Eval(b, z))
  BY <1>0, EvalConcat
<1>4. pad = [k \in Upto(e) |-> IF k < Size(b) THEN b[k] ELSE 0]
  <2>1. \A k \in Upto(e) : ~(k < m) => k - m \in Upto(n)
    BY <1>0 DEF Upto
  <2>2. Size(b) = m
    BY VecIs
  <2> HIDE DEF pad
  <2> QED BY <1>2, <2>1, <2>2
<1>5. getBlindedCoefficients(p, b) = [k \in Upto(e) |-> con[k] (-) pad[k]]
  <2>1. DOMAIN con = Upto(e)
    BY <1>3 DEF Vec
  <2>2. \A k \in Upto(e) : pad[k] = IF k < Size(b) THEN b[k] ELSE 0
    <3> HIDE DEF pad
    <3> QED BY <1>4
  <2> HIDE DEF pad
  <2> QED BY <2>1, <2>2 DEF getBlindedCoefficients
<1>6. ASSUME NEW z \in F
      PROVE  Eval(getBlindedCoefficients(p, b), z)
               = Eval(p, z) (+) (Eval(b, z) (.) (Power(z, n) (-) 1))
  <2>1. Eval(getBlindedCoefficients(p, b), z) = Eval(con, z) (-) Eval(pad, z)
    <3> HIDE DEF con, pad
    <3> QED BY <1>2, <1>3, <1>5, EvalSub
  <2>2. Eval(zeros, z) = 0
    BY EvalZero
  <2>3. Power(z, m) \in F /\ Power(z, n) \in F /\ Eval(b, z) \in F /\ Eval(p, z) \in F
    BY PowerLaws, EvalType
  <2>4. Eval(pad, z) = Eval(b, z)
    BY <1>2, <2>2, <2>3, Neutral
  <2>5. Eval(con, z) = Eval(p, z) (+) (Power(z, n) (.) Eval(b, z))
    BY <1>3
  <2> DEFINE a == Eval(p, z)
             y == Eval(b, z)
             w == Power(z, n)
  <2>6. (a (+) (w (.) y)) (-) y = a (+) (y (.) (w (-) 1))
    <3>1. a \in F /\ y \in F /\ w \in F /\ 1 \in F
      BY <2>3, ZeroOne
    <3> HIDE DEF a, y, w
    <3>2. y (.) (w (-) 1) = (y (.) w) (-) y
      BY <3>1, Distributes, Neutral
    <3>3. PICK t \in F : t = w (.) y /\ t = y (.) w
      BY <3>1, Closed, Commutes
    <3>4. (a (+) t) (-) y = a (+) (t (-) y)
      <4>1. /\ a (+) t = Mod(a + t) /\ t (-) y = Mod(t - y)
            /\ Mod(a) = a /\ Mod(y) = y /\ a \in Int /\ y \in Int /\ t \in Int
        BY <3>1, ElementOps, ModOfElement
      <4>2. Mod(a + t) (-) Mod(y) = Mod((a + t) - y)
        BY <4>1, ModOps
      <4>3. Mod(a) (+) Mod(t - y) = Mod(a + (t - y))
        BY <4>1, ModOps
      <4>4. (a + t) - y = a + (t - y)
        BY <4>1
      <4> QED BY <4>1, <4>2, <4>3, <4>4
    <3> QED BY <3>2, <3>3, <3>4
  <2> QED BY <2>1, <2>4, <2>5, <2>6
<1>7. getBlindedCoefficients(p, b) \in Vec(n + m)
  <2> HIDE DEF con, pad
  <2> QED BY <1>0, <1>2, <1>3, <1>5, ZeroOne, EvalSub
<1> QED BY <1>6, <1>7

-------------------------------------------------------------------------------
(* The subgroups, and interpolation on them.                               *)

\* n is the order of a subgroup smaller than the field's group.
Order(n) == n \in Nat \ {0} /\ n < Prime - 1 /\ (Prime - 1) % n = 0

LEMMA OrderIs ==
  ASSUME NEW n, Order(n)
  PROVE  /\ n \in F \ {0} /\ n \in Nat
         /\ \E q \in Nat : q * n = Prime - 1 /\ q >= 2 /\ Generator(n) = Power(Root, q)
<1>1. Prime \in Nat /\ n \in Nat \ {0} /\ n < Prime - 1 /\ (Prime - 1) % n = 0
  BY PrimeAssumption DEF Order
<1>2. PICK m \in Nat : m = Prime - 1
  BY <1>1
<1>3. PICK q \in Int : q = m \div n /\ m = n * q + (m % n)
  <2>1. n \in Nat /\ n # 0 /\ m \in Int
    BY <1>1, <1>2
  <2>2. m \div n \in Int /\ m = n * (m \div n) + (m % n)
    BY ONLY <2>1, ModRange
  <2> QED BY <2>2
<1>4. m = n * q /\ n < m
  BY <1>1, <1>2, <1>3
<1>5. q >= 2
  <2>1. CASE q <= 0
    BY <1>1, <1>2, <1>4, <2>1
  <2>2. CASE q = 1
    BY <1>1, <1>2, <1>4, <2>2
  <2> QED BY <2>1, <2>2
<1>6. q * n = Prime - 1 /\ Generator(n) = Power(Root, q)
  BY <1>1, <1>2, <1>3, <1>4 DEF Generator
<1>7. n \in F \ {0}
  BY <1>1 DEF F
<1> QED BY <1>1, <1>5, <1>6, <1>7

LEMMA RootIs ==
  /\ Root \in F \ {0} /\ Power(Root, Prime - 1) = 1
  /\ \A e \in Nat : 0 < e /\ e < Prime - 1 => Power(Root, e) # 1
<1>1. Root \in F \ {0} /\ Power(Root, Prime - 1) = 1
      /\ \A e \in 1 .. Prime - 2 : Power(Root, e) # 1
  BY RootAssumption
<1>2. Prime \in Nat
  BY PrimeAssumption
<1>3. \A e \in Nat : 0 < e /\ e < Prime - 1 => e \in 1 .. Prime - 2
  BY <1>2
<1> QED BY <1>1, <1>3

LEMMA GeneratorIs ==
  ASSUME NEW n, Order(n)
  PROVE  /\ Generator(n) \in F \ {0} /\ Power(Generator(n), n) = 1
         /\ \A j \in Nat : 0 < j /\ j < n => Power(Generator(n), j) # 1
<1>1. n \in Nat /\ n \in F \ {0}
  BY OrderIs
<1>2. PICK q \in Nat : q * n = Prime - 1 /\ q >= 2 /\ Generator(n) = Power(Root, q)
  BY OrderIs
<1>3. Root \in F \ {0}
  BY RootIs
<1>4. Generator(n) \in F \ {0}
  BY <1>2, <1>3, PowersInvert
<1>5. \A j \in Nat : Power(Generator(n), j) = Power(Root, q * j)
  BY <1>2, <1>3, PowerPower
<1>6. Power(Generator(n), n) = 1
  BY <1>1, <1>2, <1>5, RootIs
<1>7. ASSUME NEW j \in Nat, 0 < j, j < n PROVE Power(Generator(n), j) # 1
  <2>1. PICK e \in Nat : e = q * j
    OBVIOUS
  <2>2. 0 < e
    BY <1>2, <1>7, <2>1
  <2>3. e < q * n
    BY <1>1, <1>2, <1>7, <2>1
  <2> QED BY <1>2, <1>5, <2>1, <2>2, <2>3, RootIs
<1> QED BY <1>4, <1>6, <1>7

LEMMA PowersOfInverse ==
  ASSUME NEW a \in F \ {0}, NEW n \in Nat, Power(a, n) = 1
  PROVE  Power(Inv(a), n) = 1
<1>1. Power(Inv(a), n) = Inv(1)
  BY PowersInvert
<1>2. Inv(1) = 1
  BY ZeroOne, Neutral, OnlyInverse
<1> QED BY <1>1, <1>2

LEMMA InvOne == Inv(1) = 1
BY ZeroOne, Neutral, OnlyInverse

LEMMA SizePositive == \A n : Order(n) => n \in Nat /\ n > 0
BY DEF Order

LEMMA InterpolateIs ==
  ASSUME NEW n, Order(n), NEW v \in Vec(n), NEW g \in F
  PROVE  LET w == Inv(Generator(n))
         IN  /\ w \in F \ {0}
             /\ [k \in Upto(n) |-> Inv(n) (.) Eval(v, Power(w, k))] \in Vec(n)
             /\ Interpolate(v, g)
                  = Rescale([k \in Upto(n) |-> Inv(n) (.) Eval(v, Power(w, k))], Inv(g))
             /\ Interpolate(v, g) \in Vec(n)
<1> DEFINE w == Inv(Generator(n))
           c == [k \in Upto(n) |-> Inv(n) (.) Eval(v, Power(w, k))]
<1>1. n \in Nat /\ n \in F \ {0}
  BY OrderIs
<1>2. w \in F \ {0} /\ Inv(n) \in F
  BY <1>1, GeneratorIs, InverseIs
<1>3. c \in Vec(n)
  <2> SUFFICES ASSUME NEW k \in Upto(n) PROVE Inv(n) (.) Eval(v, Power(w, k)) \in F
    BY DEF Vec
  <2>1. k \in Nat
    BY <1>1, UptoIs
  <2>2. Power(w, k) \in F
    BY <1>2, <2>1, PowerLaws
  <2>3. Eval(v, Power(w, k)) \in F
    BY <1>1, <2>2, EvalType
  <2> QED BY <1>2, <2>3, Closed
<1>4. Interpolate(v, g) = Rescale(c, Inv(g))
  <2>1. Size(v) = n
    BY <1>1, VecIs
  <2> QED BY <2>1 DEF Interpolate
<1>5. Inv(g) \in F
  <2>1. CASE g = 0
    BY <2>1, ZeroOne DEF Inv, InvTable
  <2>2. CASE g # 0
    BY <2>2, InverseIs
  <2> QED BY <2>1, <2>2
<1>6. Rescale(c, Inv(g)) \in Vec(n)
  <2> HIDE DEF c
  <2> QED BY <1>1, <1>3, <1>5, RescaleIs
<1> QED BY <1>2, <1>3, <1>4, <1>6

LEMMA PolyIs ==
  ASSUME NEW n, Order(n), NEW v \in Vec(n)
  PROVE  LET w == Inv(Generator(n))
         IN  /\ Poly(v) = [k \in Upto(n) |-> Inv(n) (.) Eval(v, Power(w, k))]
             /\ Poly(v) \in Vec(n)
<1> DEFINE w == Inv(Generator(n))
           c == [k \in Upto(n) |-> Inv(n) (.) Eval(v, Power(w, k))]
<1>1. n \in Nat
  BY OrderIs
<1>2. c \in Vec(n) /\ Interpolate(v, 1) = Rescale(c, Inv(1))
  BY ZeroOne, InterpolateIs
<1>3. Rescale(c, 1) = c
  <2> HIDE DEF c
  <2> QED BY <1>1, <1>2, RescaleOne
<1> QED BY <1>2, <1>3, InvOne DEF Poly

Lagrange(n, k, z) ==
    LET pt == Power(Generator(n), k)
    IN  pt (.) (Power(z, n) (-) 1) (.) Inv(n (.) (z (-) pt))

LEMMA SubZero == \A a, b \in F : a (-) b = 0 => a = b
<1> TAKE a, b \in F
<1>1. (a (-) b) (+) b = a
  BY Subtracts
<1> QED BY <1>1, Neutral

\* The geometric sum behind the k-th Lagrange polynomial.
LEMMA LagrangeIs ==
  ASSUME NEW n, Order(n), NEW k \in Nat, NEW z \in F, Power(z, n) # 1
  PROVE  LET u == Power(Inv(Generator(n)), k) (.) z
         IN  /\ u \in F /\ Lagrange(n, k, z) \in F
             /\ Inv(n) (.) Total([j \in Upto(n) |-> Power(u, j)]) = Lagrange(n, k, z)
<1> DEFINE w  == Generator(n)
           y  == Inv(w)
           a  == Power(w, k)
           b  == Power(y, k)
           u  == b (.) z
           zn == Power(z, n)
           t  == Total([j \in Upto(n) |-> Power(u, j)])
           e  == Inv(n)
<1>1. n \in Nat /\ n \in F \ {0} /\ e \in F \ {0}
  BY OrderIs, InverseIs
<1>2. w \in F \ {0} /\ y \in F \ {0} /\ Power(w, n) = 1 /\ Power(y, n) = 1
  BY <1>1, GeneratorIs, InverseIs, PowersOfInverse
<1>3. a \in F \ {0} /\ b \in F \ {0} /\ b = Inv(a) /\ a (.) b = 1 /\ b (.) a = 1
  BY <1>2, PowersInvert, InverseIs
<1>4. u \in F /\ zn \in F /\ 1 \in F
  BY <1>1, <1>3, Closed, PowerLaws, ZeroOne
<1>5. t \in F /\ (u (-) 1) (.) t = Power(u, n) (-) 1
  <2>1. [j \in Upto(n) |-> Power(u, j)] \in Vec(n)
    BY <1>1, <1>4, Geometric
  <2>2. t \in F
    BY <1>1, <2>1, TotalType
  <2>3. (u (-) 1) (.) t = Power(u, n) (-) 1
    BY <1>1, <1>4, Geometric
  <2> QED BY <2>2, <2>3
<1>6. Power(u, n) = zn
  <2>1. Power(u, n) = Power(b, n) (.) zn
    BY <1>1, <1>3, PowerProduct
  <2>2. Power(b, n) = Power(y, k * n) /\ Power(Power(y, n), k) = Power(y, n * k)
    BY <1>1, <1>2, PowerPower
  <2>3. k * n = n * k
    BY <1>1
  <2>4. Power(b, n) = 1
    BY <1>2, <2>2, <2>3, PowerOne
  <2> QED BY <1>4, <2>1, <2>4, Neutral
<1>7. u (-) 1 \in F \ {0}
  <2>1. u (-) 1 \in F
    BY <1>4, Closed
  <2>2. ASSUME u (-) 1 = 0 PROVE FALSE
    <3>1. u = 1
      BY <1>4, <2>2, SubZero
    <3>2. Power(u, n) = 1
      BY <1>1, <3>1, PowerOne
    <3> QED BY <1>6, <3>2
  <2> QED BY <2>1, <2>2
<1>8. z (-) a = a (.) (u (-) 1)
  <2>1. a (.) (u (-) 1) = (a (.) u) (-) a
    BY <1>3, <1>4, Distributes, Neutral
  <2>2. a (.) u = z
    <3>1. a (.) (b (.) z) = (a (.) b) (.) z
      BY <1>3, Associates
    <3> QED BY <1>3, <3>1, Neutral
  <2> QED BY <2>1, <2>2
<1> DEFINE d == u (-) 1
           f == zn (-) 1
<1>9. Lagrange(n, k, z) = (a (.) f) (.) Inv(n (.) (a (.) d))
  BY <1>8 DEF Lagrange
<1>10. d \in F \ {0} /\ Inv(d) \in F \ {0} /\ Inv(d) (.) d = 1 /\ f \in F /\ d (.) t = f
  BY <1>4, <1>5, <1>6, <1>7, Closed, InverseIs
<1>11. Inv(n (.) (a (.) d)) = e (.) (b (.) Inv(d))
  <2> HIDE DEF a, b, d, e
  <2>1. a (.) d \in F \ {0} /\ Inv(a (.) d) = b (.) Inv(d)
    BY <1>3, <1>10, NonzeroProduct
  <2>2. Inv(n (.) (a (.) d)) = Inv(n) (.) Inv(a (.) d)
    BY <1>1, <2>1, NonzeroProduct
  <2> QED BY <2>1, <2>2 DEF e
<1>12. t = Inv(d) (.) f
  <2> HIDE DEF d, t, f
  <2>1. Inv(d) (.) (d (.) t) = (Inv(d) (.) d) (.) t
    BY <1>5, <1>10, Associates
  <2> QED BY <1>5, <1>10, <2>1, Neutral
<1>13. PICK g \in F : g = Inv(d)
  BY <1>10
<1>14. (a (.) f) (.) (e (.) (b (.) g)) = e (.) (g (.) f)
  <2> HIDE DEF a, b, d, e, f
  <2>1. /\ a \in F /\ b \in F /\ e \in F /\ f \in F /\ b (.) g \in F /\ a (.) f \in F /\ g (.) f \in F
        /\ e (.) (b (.) g) \in F
    BY <1>1, <1>3, <1>10, Closed
  <2>2. (a (.) f) (.) (e (.) (b (.) g)) = e (.) ((a (.) f) (.) (b (.) g))
    BY <2>1, Associates, Commutes
  <2>3. (a (.) f) (.) (b (.) g) = (f (.) a) (.) (b (.) g)
    BY <2>1, Commutes
  <2>4. (f (.) a) (.) (b (.) g) = f (.) (a (.) (b (.) g))
    BY <2>1, Associates
  <2>5. a (.) (b (.) g) = (a (.) b) (.) g
    BY <2>1, Associates
  <2>6. (a (.) b) (.) g = g
    BY <1>3, Neutral
  <2>7. f (.) g = g (.) f
    BY <2>1, Commutes
  <2> QED BY <2>2, <2>3, <2>4, <2>5, <2>6, <2>7
<1>15. e (.) t = Lagrange(n, k, z)
  <2> HIDE DEF a, b, d, e, f, t
  <2> QED BY <1>9, <1>11, <1>12, <1>13, <1>14
<1>16. Lagrange(n, k, z) \in F
  <2> HIDE DEF e, t
  <2> QED BY <1>1, <1>5, <1>15, Closed
<1> QED BY <1>4, <1>15, <1>16

\* A polynomial from its values on the subgroup is the sum of the values times
\* the Lagrange polynomials.
LEMMA EvalPoly ==
  ASSUME NEW n, Order(n), NEW v \in Vec(n), NEW z \in F, Power(z, n) # 1
  PROVE  /\ [k \in Upto(n) |-> v[k] (.) Lagrange(n, k, z)] \in Vec(n)
         /\ Eval(Poly(v), z) = Total([k \in Upto(n) |-> v[k] (.) Lagrange(n, k, z)])
<1> DEFINE w  == Inv(Generator(n))
           e  == Inv(n)
           wp(j) == Power(w, j)
           a  == [jk \in Upto(n) \X Upto(n) |->
                    (e (.) v[jk[2]]) (.) Power(wp(jk[2]) (.) z, jk[1])]
           P  == Poly(v)
<1>1. n \in Nat /\ e \in F
  BY OrderIs, InverseIs
<1>2. w \in F /\ P \in Vec(n) /\ P = [j \in Upto(n) |-> e (.) Eval(v, wp(j))]
  BY PolyIs, GeneratorIs, InverseIs
<1>3. \A k \in Upto(n) : k \in Nat /\ v[k] \in F /\ wp(k) \in F /\ wp(k) (.) z \in F
        /\ e (.) v[k] \in F
  <2> TAKE k \in Upto(n)
  <2>1. k \in Nat /\ v[k] \in F
    BY <1>1, UptoIs DEF Vec
  <2>2. wp(k) \in F
    BY <1>2, <2>1, PowerLaws
  <2> QED BY <1>1, <2>1, <2>2, Closed
<1>4. a \in [Upto(n) \X Upto(n) -> F]
  <2> SUFFICES ASSUME NEW j \in Upto(n), NEW k \in Upto(n)
               PROVE  (e (.) v[k]) (.) Power(wp(k) (.) z, j) \in F
    OBVIOUS
  <2>1. Power(wp(k) (.) z, j) \in F
    BY <1>3, PowerLaws
  <2> QED BY <1>3, <2>1, Closed
<1>5. ASSUME NEW j \in Upto(n)
      PROVE  P[j] (.) Power(z, j) = Total([k \in Upto(n) |-> a[<<j, k>>]])
  <2>0. j \in Nat /\ wp(j) \in F /\ Power(z, j) \in F
    BY <1>3, PowerLaws
  <2> DEFINE r == [k \in Upto(n) |-> v[k] (.) Power(wp(j), k)]
             c == e (.) Power(z, j)
  <2>1. r \in Vec(n) /\ Eval(v, wp(j)) = Total(r)
    BY <1>1, <2>0, EvalTotal
  <2>2. Total(r) \in F /\ c \in F
    <3>1. Total(r) \in F
      <4> HIDE DEF r
      <4> QED BY <1>1, <2>1, TotalType
    <3> QED BY <1>1, <2>0, <3>1, Closed
  <2>3. P[j] (.) Power(z, j) = c (.) Total(r)
    <3>1. P[j] = e (.) Total(r)
      <4> HIDE DEF P, r
      <4> QED BY <1>2, <2>1
    <3> HIDE DEF P, r, e
    <3>2. (e (.) Total(r)) (.) Power(z, j) = (e (.) Power(z, j)) (.) Total(r)
      BY <1>1, <2>0, <2>2, Associates, Commutes
    <3> QED BY <3>1, <3>2 DEF e
  <2>4. \A k \in Upto(n) : c (.) r[k] = a[<<j, k>>]
    <3> TAKE k \in Upto(n)
    <3>1. k \in Nat /\ v[k] \in F /\ wp(k) \in F /\ wp(k) (.) z \in F /\ e (.) v[k] \in F
      BY <1>3
    <3>2. Power(wp(j), k) = Power(wp(k), j)
      <4>1. Power(wp(j), k) = Power(w, j * k) /\ Power(wp(k), j) = Power(w, k * j)
        BY <1>2, <2>0, <3>1, PowerPower
      <4>2. j * k = k * j
        BY <2>0, <3>1
      <4> QED BY <4>1, <4>2
    <3> DEFINE q == Power(wp(k), j)
               y == Power(z, j)
               t == v[k]
    <3>3. q \in F /\ y \in F /\ t \in F
      BY <2>0, <3>1, PowerLaws
    <3>4. Power(wp(k) (.) z, j) = q (.) y
      BY <2>0, <3>1, PowerProduct
    <3>5. a[<<j, k>>] = (e (.) t) (.) (q (.) y)
      BY <3>4
    <3>6. c (.) r[k] = (e (.) y) (.) (t (.) q)
      BY <3>2
    <3>7. (e (.) y) (.) (t (.) q) = (e (.) t) (.) (q (.) y)
      <4> HIDE DEF e, y, t, q
      <4>1. t (.) q \in F /\ q (.) y \in F
        BY <3>3, Closed
      <4>2. (e (.) y) (.) (t (.) q) = e (.) (y (.) (t (.) q))
        BY <1>1, <3>3, <4>1, Associates
      <4>3. y (.) (t (.) q) = t (.) (q (.) y)
        BY <3>3, <4>1, Associates, Commutes
      <4>4. e (.) (t (.) (q (.) y)) = (e (.) t) (.) (q (.) y)
        BY <1>1, <3>3, <4>1, Associates
      <4> QED BY <4>2, <4>3, <4>4
    <3> QED BY <3>5, <3>6, <3>7
  <2>5. [k \in Upto(n) |-> c (.) r[k]] = [k \in Upto(n) |-> a[<<j, k>>]]
    BY <2>4
  <2>6. Total([k \in Upto(n) |-> c (.) r[k]]) = c (.) Total(r)
    <3> HIDE DEF r, c
    <3> QED BY <1>1, <2>1, <2>2, TotalScale
  <2> QED BY <2>3, <2>5, <2>6
<1>6. ASSUME NEW k \in Upto(n)
      PROVE  /\ Total([j \in Upto(n) |-> a[<<j, k>>]]) = v[k] (.) Lagrange(n, k, z)
             /\ v[k] (.) Lagrange(n, k, z) \in F
  <2> DEFINE u == wp(k) (.) z
             g == [j \in Upto(n) |-> Power(u, j)]
             c == e (.) v[k]
  <2>1. u \in F /\ c \in F /\ v[k] \in F /\ k \in Nat
    BY <1>3
  <2>2. g \in Vec(n)
    BY <1>1, <2>1, Geometric
  <2>3. [j \in Upto(n) |-> a[<<j, k>>]] = [j \in Upto(n) |-> c (.) g[j]]
    OBVIOUS
  <2>4. Total([j \in Upto(n) |-> c (.) g[j]]) = c (.) Total(g)
    <3> HIDE DEF g, c
    <3> QED BY <1>1, <2>1, <2>2, TotalScale
  <2>5. e (.) Total(g) = Lagrange(n, k, z) /\ Lagrange(n, k, z) \in F
    BY <2>1, LagrangeIs
  <2>6. Total(g) \in F
    <3> HIDE DEF g
    <3> QED BY <1>1, <2>2, TotalType
  <2>7. (e (.) v[k]) (.) Total(g) = v[k] (.) (e (.) Total(g))
    <3> HIDE DEF g, e
    <3>1. e \in F
      BY <1>1
    <3> QED BY <2>1, <2>6, <3>1, Associates, Commutes
  <2> QED BY <2>1, <2>3, <2>4, <2>5, <2>7, Closed
<1>7. Eval(P, z) = Total([j \in Upto(n) |-> P[j] (.) Power(z, j)])
  <2> HIDE DEF P
  <2> QED BY <1>1, <1>2, EvalTotal
<1>8. [j \in Upto(n) |-> P[j] (.) Power(z, j)]
        = [j \in Upto(n) |-> Total([k \in Upto(n) |-> a[<<j, k>>]])]
  <2> HIDE DEF P, a
  <2> QED BY <1>5
<1>9. [k \in Upto(n) |-> Total([j \in Upto(n) |-> a[<<j, k>>]])]
        = [k \in Upto(n) |-> v[k] (.) Lagrange(n, k, z)]
  <2> HIDE DEF P, a
  <2> QED BY <1>6
<1>10. Total([j \in Upto(n) |-> Total([k \in Upto(n) |-> a[<<j, k>>]])])
         = Total([k \in Upto(n) |-> Total([j \in Upto(n) |-> a[<<j, k>>]])])
  <2> HIDE DEF a
  <2> QED BY <1>1, <1>4, TotalSwap
<1>11. [k \in Upto(n) |-> v[k] (.) Lagrange(n, k, z)] \in Vec(n)
  BY <1>6 DEF Vec
<1> QED BY <1>7, <1>8, <1>9, <1>10, <1>11

LEMMA TotalOnes == \A n \in Nat : n < Prime => Total([k \in Upto(n) |-> 1]) = n
<1> DEFINE ones(n) == [k \in Upto(n) |-> 1]
           P == {n \in Nat : n < Prime => Total(ones(n)) = n}
<1>0. Prime \in Nat
  BY PrimeAssumption
<1>1. \A n \in Nat : ones(n) \in Vec(n)
  BY ZeroOne DEF Vec
<1>2. 0 \in P
  <2>1. Total(ones(0)) = 0
    <3> HIDE DEF ones
    <3> QED BY <1>1, TotalEmpty
  <2> QED BY <2>1
<1>3. ASSUME NEW n \in Nat, n \in P PROVE n + 1 \in P
  <2> SUFFICES ASSUME n + 1 < Prime PROVE Total(ones(n + 1)) = n + 1
    OBVIOUS
  <2>1. n \in Upto(n + 1) /\ n + 1 \in Nat /\ \A k \in Upto(n) : k \in Upto(n + 1)
    BY DEF Upto
  <2>2. ones(n + 1)[n] = 1 /\ ones(n) = [k \in Upto(n) |-> ones(n + 1)[k]]
    BY <2>1
  <2>3. ones(n + 1) \in Vec(n + 1)
    BY <1>1, <2>1
  <2> HIDE DEF ones
  <2>4. Total(ones(n + 1)) = Total(ones(n)) (+) 1
    BY <2>2, <2>3, TotalSnoc
  <2>5. n < Prime /\ n \in F /\ n + 1 \in F
    BY <1>0 DEF F
  <2>6. Total(ones(n)) = n
    BY <1>3, <2>5
  <2>7. n (+) 1 = Mod(n + 1) /\ Mod(n + 1) = n + 1
    BY <2>5, ZeroOne, ElementOps, ModOfElement
  <2> QED BY <2>4, <2>6, <2>7
<1>4. Nat \subseteq P
  <2> HIDE DEF P
  <2> QED BY <1>2, <1>3, Induction
<1> QED BY <1>4

\* The Lagrange polynomials add up to 1.
LEMMA LagrangeUnity ==
  ASSUME NEW n, Order(n), NEW z \in F, Power(z, n) # 1
  PROVE  /\ [k \in Upto(n) |-> Lagrange(n, k, z)] \in Vec(n)
         /\ Total([k \in Upto(n) |-> Lagrange(n, k, z)]) = 1
<1> DEFINE g    == Generator(n)
           w    == Inv(g)
           ones == [k \in Upto(n) |-> 1]
           P    == Poly(ones)
<1>1. n \in Nat /\ n \in F \ {0} /\ n > 0 /\ Prime \in Nat /\ n < Prime
  BY OrderIs, PrimeAssumption DEF Order, F
<1>2. g \in F \ {0} /\ w \in F \ {0} /\ Power(g, n) = 1 /\ Power(w, n) = 1
  BY <1>1, GeneratorIs, InverseIs, PowersOfInverse
<1>3. ones \in Vec(n)
  BY ZeroOne DEF Vec
<1>4. P \in Vec(n) /\ P = [j \in Upto(n) |-> Inv(n) (.) Eval(ones, Power(w, j))]
  <2> HIDE DEF ones
  <2> QED BY <1>3, PolyIs
<1>5. \A u \in F : Eval(ones, u) = Total([k \in Upto(n) |-> Power(u, k)])
  <2> TAKE u \in F
  <2>1. [k \in Upto(n) |-> ones[k] (.) Power(u, k)] = [k \in Upto(n) |-> Power(u, k)]
    BY <1>1, UptoIs, PowerLaws, Neutral
  <2>2. Eval(ones, u) = Total([k \in Upto(n) |-> ones[k] (.) Power(u, k)])
    <3> HIDE DEF ones
    <3> QED BY <1>1, <1>3, EvalTotal
  <2> QED BY <2>1, <2>2
<1>6. P[0] = 1
  <2>1. Power(w, 0) = 1 /\ 0 \in Upto(n)
    <3>1. 0 \in Upto(n)
      BY <1>1, UptoIs
    <3> QED BY <1>2, <3>1, PowerLaws
  <2>2. [k \in Upto(n) |-> Power(1, k)] = ones
    BY <1>1, UptoIs, PowerOne
  <2>3. Total(ones) = n
    BY <1>1, TotalOnes
  <2>4. Eval(ones, 1) = n
    <3>1. Eval(ones, 1) = Total([k \in Upto(n) |-> Power(1, k)])
      BY <1>5, ZeroOne
    <3> HIDE DEF ones
    <3> QED BY <2>2, <2>3, <3>1
  <2>5. P[0] = Inv(n) (.) Eval(ones, Power(w, 0))
    <3> HIDE DEF P, ones
    <3> QED BY <1>4, <2>1
  <2> HIDE DEF P, ones
  <2>6. Inv(n) (.) n = 1
    BY <1>1, InverseIs
  <2> QED BY <2>1, <2>4, <2>5, <2>6
<1>7. ASSUME NEW j \in Upto(n), j # 0 PROVE P[j] = 0
  <2>0. j \in Nat /\ 0 < j /\ j < n
    BY <1>1, <1>7 DEF Upto
  <2> DEFINE u == Power(w, j)
             t == Total([k \in Upto(n) |-> Power(u, k)])
  <2>1. u \in F \ {0} /\ u = Inv(Power(g, j)) /\ Power(g, j) \in F \ {0} /\ Power(g, j) # 1
    BY <1>2, <2>0, PowersInvert, GeneratorIs
  <2>2. u # 1
    <3>1. Power(g, j) (.) u = 1
      BY <2>1, InverseIs
    <3> QED BY <2>1, <3>1, Neutral
  <2>3. u (-) 1 \in F \ {0}
    BY <2>1, <2>2, ZeroOne, Closed, SubZero
  <2>4. Power(u, n) = 1
    <3>1. Power(u, n) = Power(w, j * n) /\ Power(Power(w, n), j) = Power(w, n * j)
      BY <1>1, <1>2, <2>0, PowerPower
    <3>2. j * n = n * j
      BY <1>1, <2>0
    <3> QED BY <1>2, <2>0, <3>1, <3>2, PowerOne
  <2>5. t \in F /\ (u (-) 1) (.) t = 0
    <3>1. [k \in Upto(n) |-> Power(u, k)] \in Vec(n)
      BY <1>1, <2>1, Geometric
    <3>2. t \in F
      BY <1>1, <3>1, TotalType
    <3>3. (u (-) 1) (.) t = Power(u, n) (-) 1
      BY <1>1, <2>1, Geometric
    <3> QED BY <2>4, <3>2, <3>3, ZeroOne, Neutral
  <2>6. t = 0
    BY <2>3, <2>5, NonzeroProduct
  <2>7. P[j] = Inv(n) (.) Eval(ones, u)
    <3> HIDE DEF P, ones
    <3> QED BY <1>4
  <2>8. Eval(ones, u) = t
    BY <1>5, <2>1
  <2>9. Inv(n) \in F
    BY <1>1, InverseIs
  <2> HIDE DEF P, ones, u, t
  <2> QED BY <2>6, <2>7, <2>8, <2>9, Neutral
<1> DEFINE T == [k \in Upto(n) |-> P[k] (.) Power(z, k)]
<1>8. T = [k \in Upto(n) |-> IF k = 0 THEN 1 ELSE 0]
  <2> SUFFICES ASSUME NEW k \in Upto(n)
               PROVE  P[k] (.) Power(z, k) = IF k = 0 THEN 1 ELSE 0
    OBVIOUS
  <2>1. k \in Nat
    BY <1>1, UptoIs
  <2>2. Power(z, k) \in F /\ Power(z, 0) = 1
    BY <2>1, PowerLaws
  <2> HIDE DEF P
  <2>3. CASE k = 0
    BY <1>6, <2>2, <2>3, ZeroOne, Neutral
  <2>4. CASE k # 0
    BY <1>7, <2>2, <2>4, Neutral
  <2> QED BY <2>3, <2>4
<1>9. Eval(P, z) = Total(T) /\ T \in Vec(n)
  <2> HIDE DEF P
  <2> QED BY <1>1, <1>4, EvalTotal
<1>10. Total(T) = 1
  <2> DEFINE a == [k \in Upto(1) |-> T[k]]
             b == [k \in Upto(n - 1) |-> T[1 + k]]
  <2>1. a \in Vec(1) /\ b \in Vec(n - 1) /\ Total(T) = Total(a) (+) Total(b)
    <3>1. 1 \in Nat /\ 1 <= n
      BY <1>1
    <3> HIDE DEF T
    <3> QED BY <1>1, <1>9, <3>1, TotalSplit
  <2>2. b = [k \in Upto(n - 1) |-> 0]
    <3>1. \A k \in Upto(n - 1) : 1 + k \in Upto(n) /\ 1 + k # 0
      BY <1>1 DEF Upto
    <3> HIDE DEF T
    <3> QED BY <1>8, <3>1
  <2>3. Total(b) = 0
    <3>1. n - 1 \in Nat
      BY <1>1
    <3> HIDE DEF b
    <3> QED BY <2>2, <3>1, TotalZero
  <2>4. Total(a) = 1
    <3>1. a[0] = 1
      <4>1. 0 \in Upto(1) /\ 0 \in Upto(n)
        BY <1>1 DEF Upto
      <4> HIDE DEF T
      <4> QED BY <1>8, <4>1
    <3> HIDE DEF a
    <3>2. [k \in Upto(0) |-> a[k]] \in Vec(0) /\ Total(a) = Total([k \in Upto(0) |-> a[k]]) (+) a[0]
      <4>1. 0 \in Nat /\ 0 + 1 = 1
        OBVIOUS
      <4> QED BY <2>1, <4>1, TotalSnoc
    <3>3. Total([k \in Upto(0) |-> a[k]]) = 0
      BY <3>2, TotalEmpty
    <3> QED BY <3>1, <3>2, <3>3, ZeroOne, Neutral
  <2> HIDE DEF T, a, b
  <2> QED BY <2>1, <2>3, <2>4, ZeroOne, Neutral
<1>11. \A k \in Upto(n) : Lagrange(n, k, z) \in F
  <2> TAKE k \in Upto(n)
  <2>1. k \in Nat
    BY <1>1, UptoIs
  <2> QED BY <2>1, LagrangeIs
<1>12. [k \in Upto(n) |-> ones[k] (.) Lagrange(n, k, z)] = [k \in Upto(n) |-> Lagrange(n, k, z)]
  BY <1>11, Neutral
<1>13. Eval(P, z) = Total([k \in Upto(n) |-> ones[k] (.) Lagrange(n, k, z)])
  <2> HIDE DEF ones
  <2> QED BY <1>3, EvalPoly
<1>14. [k \in Upto(n) |-> Lagrange(n, k, z)] \in Vec(n)
  BY <1>11 DEF Vec
<1> HIDE DEF T, P, ones
<1> QED BY <1>9, <1>10, <1>12, <1>13, <1>14

\* A sum whose terms are 0 outside lo .. hi-1.
LEMMA TotalWindow ==
  ASSUME NEW n \in Nat, NEW v \in Vec(n), NEW lo \in Nat, NEW hi \in Nat, lo <= hi, hi <= n,
         \A k \in Upto(n) : (k < lo \/ k >= hi) => v[k] = 0
  PROVE  /\ [k \in Upto(hi - lo) |-> v[lo + k]] \in Vec(hi - lo)
         /\ Total([k \in Upto(hi - lo) |-> v[lo + k]]) = Total(v)
<1> DEFINE a == [k \in Upto(hi) |-> v[k]]
           b == [k \in Upto(n - hi) |-> v[hi + k]]
           c == [k \in Upto(lo) |-> a[k]]
           d == [k \in Upto(hi - lo) |-> a[lo + k]]
<1>1. a \in Vec(hi) /\ b \in Vec(n - hi) /\ Total(v) = Total(a) (+) Total(b)
  BY TotalSplit
<1>2. c \in Vec(lo) /\ d \in Vec(hi - lo) /\ Total(a) = Total(c) (+) Total(d)
  <2> HIDE DEF a
  <2> QED BY <1>1, TotalSplit
<1>3. Total(b) = 0
  <2>1. \A k \in Upto(n - hi) : hi + k \in Upto(n) /\ hi + k >= hi
    BY DEF Upto
  <2>2. b = [k \in Upto(n - hi) |-> 0]
    BY <2>1
  <2>3. n - hi \in Nat
    OBVIOUS
  <2> HIDE DEF b
  <2> QED BY <2>2, <2>3, TotalZero
<1>4. Total(c) = 0
  <2>1. \A k \in Upto(lo) : k \in Upto(n) /\ k < lo /\ k \in Upto(hi)
    BY DEF Upto
  <2>2. c = [k \in Upto(lo) |-> 0]
    BY <2>1
  <2> HIDE DEF c
  <2> QED BY <2>2, TotalZero
<1>5. d = [k \in Upto(hi - lo) |-> v[lo + k]]
  <2>1. \A k \in Upto(hi - lo) : lo + k \in Upto(hi)
    BY DEF Upto
  <2> QED BY <2>1
<1>6. Total(a) \in F /\ Total(d) \in F
  <2>1. hi - lo \in Nat
    OBVIOUS
  <2> HIDE DEF a, d
  <2> QED BY <1>1, <1>2, <2>1, TotalType
<1> HIDE DEF a, b, c, d
<1> QED BY <1>1, <1>2, <1>3, <1>4, <1>5, <1>6, Neutral

-------------------------------------------------------------------------------
(* Powers of two, and the sizes of the domains.                            *)

LEMMA Divides ==
  ASSUME NEW q \in Nat, NEW d \in Nat \ {0}
  PROVE  q % d = 0 <=> \E e \in Nat : q = d * e
<1>1. q \div d \in Int /\ q = d * (q \div d) + (q % d)
  BY ONLY q \in Nat, d \in Nat \ {0}, ModRange
<1>2. ASSUME q % d = 0 PROVE \E e \in Nat : q = d * e
  <2>1. PICK e \in Int : e = q \div d /\ q = d * e
    BY <1>1, <1>2
  <2>2. e >= 0
    <3>1. CASE e < 0
      BY ONLY <2>1, <3>1, q \in Nat, d \in Nat \ {0}, e \in Int
    <3> QED BY <3>1
  <2> QED BY <2>1, <2>2
<1>3. ASSUME NEW e \in Nat, q = d * e PROVE q % d = 0
  <2>1. 0 \in 0 .. d - 1 /\ q = d * e + 0 /\ q \in Int /\ e \in Int /\ d \in Nat /\ d # 0
    BY <1>3
  <2> QED BY ONLY <2>1, ModIs
<1> QED BY <1>2, <1>3

LEMMA Half == \A n \in Nat : /\ n \div 2 \in Nat /\ n % 2 \in {0, 1} /\ n = 2 * (n \div 2) + (n % 2)
OBVIOUS

Doubles(f) == f \in [Nat -> Nat] /\ f[0] = 1 /\ \A k \in Nat : f[k + 1] = 2 * f[k]

LEMMA DoublesExist == \E f : Doubles(f)
<1> DEFINE G == [q \in Nat \X Nat |-> 2 * q[2]]
<1>1. G \in [Nat \X Nat -> Nat] /\ \A n, b \in Nat : G[<<n, b>>] = 2 * b
  OBVIOUS
<1> HIDE DEF G
<1>2. IsStep(Nat, 1, G)
  BY <1>1 DEF IsStep
<1>3. PICK f : Follows(f, Nat, 1, G)
  BY <1>2, Recursion
<1> QED BY <1>1, <1>3 DEF Follows, Doubles

LEMMA DoublesAre ==
  ASSUME NEW f, Doubles(f)
  PROVE  \A k \in Nat : f[k] \in Nat /\ f[k] > k /\ PowerOfTwo(f[k])
<1> DEFINE P == {k \in Nat : f[k] \in Nat /\ f[k] > k /\ PowerOfTwo(f[k])}
<1>1. 0 \in P
  BY DEF Doubles, PowerOfTwo
<1>2. ASSUME NEW k \in Nat, k \in P PROVE k + 1 \in P
  <2>1. PICK q \in Nat : q = f[k] /\ q > k /\ PowerOfTwo(q) /\ f[k + 1] = 2 * q
    BY <1>2 DEF Doubles
  <2>2. ASSUME NEW d \in 2 .. 2 * q, (2 * q) % d = 0, d % 2 # 0 PROVE FALSE
    <3>0. d \in Nat \ {0} /\ 2 * q \in Nat /\ d >= 2
      BY <2>1
    <3>1. PICK e \in Nat : 2 * q = d * e
      BY <2>2, <3>0, Divides
    <3>2. PICK c \in Nat : d = 2 * c + 1
      BY <2>2, <3>0, Half
    <3>3. PICK g \in Nat, b \in {0, 1} : e = 2 * g + b
      BY Half
    <3>4. b = 0
      <4>1. CASE b = 1
        <5>1. d * e = 2 * (2 * c * g + c + g) + 1
          BY ONLY <3>2, <3>3, <4>1, c \in Nat, g \in Nat
        <5>2. PICK y \in Nat : y = 2 * c * g + c + g
          OBVIOUS
        <5> QED BY ONLY <3>1, <5>1, <5>2, q \in Nat, y \in Nat
      <4> QED BY <4>1
    <3>5. q = d * g
      BY ONLY <3>0, <3>1, <3>3, <3>4, q \in Nat, g \in Nat
    <3>6. g >= 1
      BY ONLY <2>1, <3>5, <3>0, g \in Nat, k \in Nat
    <3>7. d <= q
      BY ONLY <3>0, <3>5, <3>6, g \in Nat, q \in Nat
    <3>8. q % d = 0
      BY <3>0, <3>5, Divides
    <3> QED BY <2>1, <2>2, <3>0, <3>7, <3>8 DEF PowerOfTwo
  <2>3. PowerOfTwo(2 * q)
    BY <2>2 DEF PowerOfTwo
  <2> QED BY <2>1, <2>3
<1>3. Nat \subseteq P
  <2> HIDE DEF P
  <2> QED BY <1>1, <1>2, Induction
<1> QED BY <1>3

LEMMA PowersOfTwoAre ==
  ASSUME NEW f, Doubles(f)
  PROVE  \A q \in Nat : q >= 1 /\ PowerOfTwo(q) => \E k \in Nat : q = f[k]
<1> DEFINE T == {q \in Nat : q >= 1 /\ PowerOfTwo(q) /\ \A k \in Nat : q # f[k]}
<1> SUFFICES ASSUME T # {} PROVE FALSE
  OBVIOUS
<1>1. PICK m \in T : \A y \in T : m <= y
  <2>1. T \in SUBSET Nat
    OBVIOUS
  <2> HIDE DEF T
  <2> QED BY <2>1, Least
<1>2. m \in Nat /\ m >= 2
  BY DEF Doubles
<1>3. m % 2 = 0
  <2>1. m % m = 0
    <3>1. m = m * 1
      BY <1>2
    <3> QED BY <1>2, <3>1, Divides
  <2> QED BY <1>2, <2>1 DEF PowerOfTwo
<1>4. PICK hn \in Nat : m = 2 * hn /\ hn >= 1 /\ hn < m
  BY <1>2, <1>3, Half
<1>5. PowerOfTwo(hn)
  <2> SUFFICES ASSUME NEW d \in 2 .. hn, hn % d = 0 PROVE d % 2 = 0
    BY DEF PowerOfTwo
  <2>1. d \in Nat \ {0} /\ d \in 2 .. m
    BY <1>4
  <2>2. PICK e \in Nat : hn = d * e
    BY <2>1, Divides
  <2>3. m = d * (2 * e)
    BY ONLY <1>4, <2>1, <2>2, e \in Nat
  <2>4. m % d = 0
    <3>1. 2 * e \in Nat
      OBVIOUS
    <3> QED BY <1>2, <2>1, <2>3, <3>1, Divides
  <2> QED BY <2>1, <2>4 DEF PowerOfTwo
<1>6. PICK k \in Nat : hn = f[k]
  <2>1. hn \notin T
    <3> HIDE DEF T
    <3> QED BY <1>1, <1>2, <1>4
  <2> QED BY <1>4, <1>5, <2>1
<1>7. m = f[k + 1] /\ k + 1 \in Nat
  BY <1>4, <1>6 DEF Doubles
<1> QED BY <1>7

LEMMA DoublesAdd ==
  ASSUME NEW f, Doubles(f), NEW j \in Nat
  PROVE  \A k \in Nat : f[j + k] = f[j] * f[k]
<1> DEFINE P == {k \in Nat : f[j + k] = f[j] * f[k]}
<1>1. 0 \in P
  BY DEF Doubles
<1>2. ASSUME NEW k \in Nat, k \in P PROVE k + 1 \in P
  <2>1. f[j] \in Nat /\ f[k] \in Nat /\ f[k + 1] = 2 * f[k] /\ j + k \in Nat
        /\ f[(j + k) + 1] = 2 * f[j + k] /\ j + (k + 1) = (j + k) + 1
    BY DEF Doubles
  <2>2. PICK a \in Nat, b \in Nat : a = f[j] /\ b = f[k]
    BY <2>1
  <2>3. f[j + (k + 1)] = 2 * (a * b) /\ f[k + 1] = 2 * b
    BY <1>2, <2>1, <2>2
  <2>4. 2 * (a * b) = a * (2 * b)
    OBVIOUS
  <2> QED BY <2>2, <2>3, <2>4
<1>3. Nat \subseteq P
  <2> HIDE DEF P
  <2> QED BY <1>1, <1>2, Induction
<1> QED BY <1>3

\* Of two powers of two, the smaller divides the larger.
LEMMA PowersOfTwoDivide ==
  ASSUME NEW n \in Nat, NEW q \in Nat, 1 <= n, n <= q, PowerOfTwo(n), PowerOfTwo(q)
  PROVE  \E r \in Nat \ {0} : q = n * r /\ PowerOfTwo(r)
<1>1. PICK f : Doubles(f)
  BY DoublesExist
<1>2. PICK a \in Nat : n = f[a]
  BY <1>1, PowersOfTwoAre
<1>3. PICK b \in Nat : q = f[b]
  BY <1>1, PowersOfTwoAre
<1>4. a <= b
  <2> SUFFICES ASSUME b < a PROVE FALSE
    OBVIOUS
  <2>1. PICK c \in Nat : a = b + c /\ c >= 1
    BY Gap
  <2>2. f[a] = f[b] * f[c] /\ f[c] \in Nat /\ f[c] > c
    BY <1>1, <2>1, DoublesAdd, DoublesAre
  <2>3. PICK r \in Nat : r = f[c] /\ r >= 2 /\ n = q * r
    BY <1>2, <1>3, <2>1, <2>2
  <2> QED BY ONLY <2>3, n \in Nat, q \in Nat, n <= q, 1 <= n
<1>5. PICK c \in Nat : b = a + c
  BY <1>4, Gap
<1>6. f[b] = f[a] * f[c] /\ f[c] \in Nat /\ f[c] > c /\ PowerOfTwo(f[c])
  BY <1>1, <1>5, DoublesAdd, DoublesAre
<1> QED BY <1>2, <1>3, <1>6

LEMMA NextPowerOfTwoIs ==
  ASSUME NEW m \in Nat \ {0}
  PROVE  LET q == NextPowerOfTwo(m)
         IN  q \in Nat /\ m <= q /\ q <= 2 * m - 1 /\ PowerOfTwo(q)
<1>1. PICK f : Doubles(f)
  BY DoublesExist
<1> DEFINE T == {k \in Nat : f[k] >= m}
<1>2. T \in SUBSET Nat /\ m \in T
  BY <1>1, DoublesAre
<1>3. PICK k \in T : \A y \in T : k <= y
  <2>1. T # {}
    BY <1>2
  <2> HIDE DEF T
  <2> QED BY <1>2, <2>1, Least
<1>4. k \in Nat /\ f[k] \in Nat /\ f[k] >= m /\ PowerOfTwo(f[k])
  BY <1>1, DoublesAre
<1>5. f[k] <= 2 * m - 1
  <2>1. CASE k = 0
    BY <1>1, <2>1 DEF Doubles
  <2>2. CASE k # 0
    <3>1. PICK j \in Nat : k = j + 1
      <4>1. k - 1 \in Nat /\ k = (k - 1) + 1
        BY <1>4, <2>2
      <4> QED BY <4>1
    <3>2. f[k] = 2 * f[j] /\ f[j] \in Nat
      BY <1>1, <3>1 DEF Doubles
    <3>3. j \notin T
      <4> HIDE DEF T
      <4> QED BY <1>3, <1>4, <3>1
    <3>4. f[j] < m
      BY <3>2, <3>3
    <3> QED BY <3>2, <3>4
  <2> QED BY <2>1, <2>2
<1>6. \E q \in m .. 2 * m - 1 : PowerOfTwo(q)
  BY <1>4, <1>5
<1>7. NextPowerOfTwo(m) \in m .. 2 * m - 1 /\ PowerOfTwo(NextPowerOfTwo(m))
  BY <1>6 DEF NextPowerOfTwo
<1> QED BY <1>7

\* The two domains: the larger is a multiple of the smaller and has room for the
\* three shards of the quotient.
LEMMA DomainSizes ==
  ASSUME NEW m \in Nat, m >= 2
  PROVE  LET n   == NextPowerOfTwo(m)
             big == Domain1Size(m)
         IN  /\ n \in Nat /\ big \in Nat /\ m <= n /\ PowerOfTwo(big)
             /\ 3 * (n + 2) <= big
             /\ \E r \in Nat \ {0} : big = n * r
<1>1. PICK n \in Nat : n = NextPowerOfTwo(m) /\ m <= n /\ n <= 2 * m - 1 /\ PowerOfTwo(n)
  BY NextPowerOfTwoIs
<1>2. PICK y \in Nat \ {0} : y = IF m < 6 THEN 8 * m ELSE 4 * m
  OBVIOUS
<1>3. PICK big \in Nat : big = Domain1Size(m) /\ y <= big /\ PowerOfTwo(big)
  BY <1>2, NextPowerOfTwoIs DEF Domain1Size
<1>4. 1 <= n /\ n <= big
  BY <1>1, <1>2, <1>3
<1>5. PICK r \in Nat \ {0} : big = n * r /\ PowerOfTwo(r)
  BY <1>1, <1>3, <1>4, PowersOfTwoDivide
<1>6. 3 * (n + 2) <= big
  <2>1. CASE m < 6
    BY <1>1, <1>2, <1>3, <2>1
  <2>2. CASE m >= 6
    <3>1. big > 2 * n
      BY <1>1, <1>2, <1>3, <2>2
    <3>2. r # 1 /\ r # 2
      BY <1>5, <3>1
    <3>3. r # 3
      <4>1. 3 % 3 = 0 /\ 3 % 2 = 1 /\ 3 \in 2 .. 3
        OBVIOUS
      <4> QED BY <1>5, <4>1 DEF PowerOfTwo
    <3>4. r >= 4
      BY <3>2, <3>3
    <3>5. n * r >= n * 4
      BY ONLY <3>4, n \in Nat, r \in Nat \ {0}
    <3> QED BY <1>1, <1>5, <2>2, <3>5
  <2> QED BY <2>1, <2>2
<1> QED BY <1>1, <1>3, <1>5, <1>6

\* The table of BitReverse(_, n).
IsReversal(rev, n) ==
    rev = [m \in 0 .. n |->
             [j \in 0 .. n |-> IF m <= 1 THEN 0
                              ELSE (j % 2) * (m \div 2) + rev[m \div 2][j \div 2]]]

LEMMA ReversalExists ==
  ASSUME NEW n \in Nat
  PROVE  \E rev : IsReversal(rev, n)
<1> DEFINE Cells == (0 .. n) \X (0 .. n)
           S     == [Cells -> Int]
           Nx(t)  == [c \in Cells |-> IF c[1] <= 1 THEN 0
                        ELSE (c[2] % 2) * (c[1] \div 2) + t[<<c[1] \div 2, c[2] \div 2>>]]
           zero  == [c \in Cells |-> 0]
           G     == [q \in Nat \X S |-> Nx(q[2])]
<1>1. \A m \in 0 .. n : m \div 2 \in 0 .. n /\ m % 2 \in Int /\ m \div 2 \in Int
  BY Half
<1>2. ASSUME NEW t \in S PROVE Nx(t) \in S
  <2> SUFFICES ASSUME NEW m \in 0 .. n, NEW j \in 0 .. n
               PROVE  (j % 2) * (m \div 2) + t[<<m \div 2, j \div 2>>] \in Int
    OBVIOUS
  <2>1. t[<<m \div 2, j \div 2>>] \in Int
    BY <1>1
  <2>2. PICK a \in Int, b \in Int : a = j % 2 /\ b = m \div 2
    BY <1>1
  <2> QED BY ONLY <2>1, <2>2
<1>3. zero \in S
  OBVIOUS
<1>4. IsStep(S, zero, G) /\ \A k \in Nat : \A t \in S : G[<<k, t>>] = Nx(t)
  <2>1. \A q \in Nat \X S : q[2] \in S
    OBVIOUS
  <2>2. G \in [Nat \X S -> S] /\ \A k \in Nat : \A t \in S : G[<<k, t>>] = Nx(t)
    <3> HIDE DEF S, Nx
    <3> QED BY <1>2, <2>1
  <2> HIDE DEF S, G, zero
  <2> QED BY <1>3, <2>2 DEF IsStep
<1>5. PICK f : Follows(f, S, zero, G)
  <2> HIDE DEF S, zero, G
  <2> QED BY <1>4, Recursion
<1>6. f \in [Nat -> S] /\ \A k \in Nat : f[k] \in S /\ f[k + 1] = Nx(f[k])
  <2> HIDE DEF S, G, Nx, zero
  <2>1. f \in [Nat -> S] /\ \A k \in Nat : f[k + 1] = G[<<k, f[k]>>]
    BY <1>5 DEF Follows
  <2>2. \A k \in Nat : f[k] \in S
    BY <2>1
  <2> QED BY <1>4, <2>1, <2>2
\* After k steps the rows up to k no longer change.
<1> DEFINE Stable(k) == \A m \in 0 .. n, j \in 0 .. n :
                          m <= k + 1 => f[k + 1][<<m, j>>] = f[k + 2][<<m, j>>]
           P == {k \in Nat : Stable(k)}
<1>7. \A k \in Nat : \A m \in 0 .. n, j \in 0 .. n :
        f[k + 1][<<m, j>>] = IF m <= 1 THEN 0
                             ELSE (j % 2) * (m \div 2) + f[k][<<m \div 2, j \div 2>>]
  <2> TAKE k \in Nat
  <2> TAKE m \in 0 .. n, j \in 0 .. n
  <2>1. f[k + 1] = Nx(f[k])
    BY <1>6
  <2>2. Nx(f[k])[<<m, j>>] = IF m <= 1 THEN 0
                             ELSE (j % 2) * (m \div 2) + f[k][<<m \div 2, j \div 2>>]
    OBVIOUS
  <2> HIDE DEF Nx
  <2> QED BY <2>1, <2>2
<1>8. 0 \in P
  <2> SUFFICES ASSUME NEW m \in 0 .. n, NEW j \in 0 .. n, m <= 1
               PROVE  f[0 + 1][<<m, j>>] = f[0 + 2][<<m, j>>]
    OBVIOUS
  <2>1. f[0 + 1][<<m, j>>] = 0
    BY ONLY <1>7, n \in Nat, m \in 0 .. n, j \in 0 .. n, m <= 1
  <2>2. f[1 + 1][<<m, j>>] = 0
    BY ONLY <1>7, n \in Nat, m \in 0 .. n, j \in 0 .. n, m <= 1
  <2> QED BY <2>1, <2>2
<1>9. ASSUME NEW k \in Nat, k \in P PROVE k + 1 \in P
  <2> SUFFICES ASSUME NEW m \in 0 .. n, NEW j \in 0 .. n, m <= k + 1 + 1
               PROVE  f[k + 1 + 1][<<m, j>>] = f[k + 1 + 2][<<m, j>>]
    OBVIOUS
  <2>1. k + 1 \in Nat /\ k + 2 \in Nat /\ k + 1 + 1 = (k + 1) + 1 /\ k + 1 + 2 = (k + 2) + 1
        /\ k + 1 + 1 = k + 2
    OBVIOUS
  <2> DEFINE a == m \div 2
             b == j \div 2
             c == (j % 2) * (m \div 2)
  <2>2. f[(k + 1) + 1][<<m, j>>] = IF m <= 1 THEN 0 ELSE c + f[k + 1][<<a, b>>]
    BY ONLY <1>7, <2>1, m \in 0 .. n, j \in 0 .. n
  <2>3. f[(k + 2) + 1][<<m, j>>] = IF m <= 1 THEN 0 ELSE c + f[k + 2][<<a, b>>]
    BY ONLY <1>7, <2>1, m \in 0 .. n, j \in 0 .. n
  <2>4. CASE m <= 1
    BY <2>1, <2>2, <2>3, <2>4
  <2>5. CASE m > 1
    <3>1. a \in 0 .. n /\ b \in 0 .. n /\ a <= k + 1
      BY <2>5, Half
    <3>2. f[k + 1][<<a, b>>] = f[k + 2][<<a, b>>]
      <4> HIDE DEF a, b
      <4> QED BY <1>9, <3>1
    <3> HIDE DEF a, b, c
    <3> QED BY <2>1, <2>2, <2>3, <3>2
  <2> QED BY <2>4, <2>5
<1>10. \A k \in Nat : Stable(k)
  <2>1. Nat \subseteq P
    <3> HIDE DEF P
    <3> QED BY <1>8, <1>9, Induction
  <2> QED BY <2>1
<1> DEFINE g   == f[n + 1]
           rev == [m \in 0 .. n |-> [j \in 0 .. n |-> g[<<m, j>>]]]
<1>11. g \in S /\ \A m \in 0 .. n, j \in 0 .. n : g[<<m, j>>] = f[n + 2][<<m, j>>]
  <2>1. n + 1 \in Nat /\ \A m \in 0 .. n : m <= n + 1
    OBVIOUS
  <2> QED BY <1>6, <1>10, <2>1
<1>12. \A m \in 0 .. n, j \in 0 .. n :
         g[<<m, j>>] = IF m <= 1 THEN 0 ELSE (j % 2) * (m \div 2) + g[<<m \div 2, j \div 2>>]
  <2> TAKE m \in 0 .. n, j \in 0 .. n
  <2>1. n + 1 \in Nat /\ (n + 1) + 1 = n + 2
    OBVIOUS
  <2>2. f[(n + 1) + 1][<<m, j>>] = IF m <= 1 THEN 0
                                   ELSE (j % 2) * (m \div 2) + f[n + 1][<<m \div 2, j \div 2>>]
    BY ONLY <1>7, <2>1, m \in 0 .. n, j \in 0 .. n
  <2>3. g[<<m, j>>] = f[(n + 1) + 1][<<m, j>>]
    BY <1>11, <2>1
  <2> QED BY <2>2, <2>3
<1>13. \A m \in 0 .. n, j \in 0 .. n :
         g[<<m, j>>] = IF m <= 1 THEN 0 ELSE (j % 2) * (m \div 2) + rev[m \div 2][j \div 2]
  <2> TAKE m \in 0 .. n, j \in 0 .. n
  <2>1. m \div 2 \in 0 .. n /\ j \div 2 \in 0 .. n
    BY <1>1
  <2>2. rev[m \div 2][j \div 2] = g[<<m \div 2, j \div 2>>]
    BY <2>1
  <2> HIDE DEF g, rev
  <2> QED BY <1>12, <2>2
<1>14. IsReversal(rev, n)
  <2> HIDE DEF g
  <2> QED BY <1>13 DEF IsReversal
<1> QED BY <1>14

LEMMA BitReverseType ==
  ASSUME NEW n \in Nat \ {0}, PowerOfTwo(n), NEW k \in Upto(n)
  PROVE  BitReverse(k, n) \in Upto(n)
<1> DEFINE rev == CHOOSE rev : IsReversal(rev, n)
<1>1. IsReversal(rev, n)
  BY ReversalExists
<1>2. BitReverse(k, n) = rev[n][k]
  BY DEF BitReverse, IsReversal
<1> HIDE DEF rev
<1>3. \A m \in 0 .. n, j \in 0 .. n :
        rev[m][j] = IF m <= 1 THEN 0 ELSE (j % 2) * (m \div 2) + rev[m \div 2][j \div 2]
  BY <1>1 DEF IsReversal
<1>4. PICK f : Doubles(f)
  BY DoublesExist
<1> DEFINE P == {e \in Nat : f[e] <= n =>
                   \A j \in 0 .. n : rev[f[e]][j] \in Nat /\ rev[f[e]][j] < f[e]}
<1>5. 0 \in P
  <2>1. f[0] = 1 /\ 1 \in 0 .. n
    BY <1>4 DEF Doubles
  <2>2. \A j \in 0 .. n : rev[1][j] = 0
    BY <1>3, <2>1
  <2> QED BY <2>1, <2>2
<1>6. ASSUME NEW e \in Nat, e \in P PROVE e + 1 \in P
  <2> SUFFICES ASSUME f[e + 1] <= n, NEW j \in 0 .. n
               PROVE  rev[f[e + 1]][j] \in Nat /\ rev[f[e + 1]][j] < f[e + 1]
    OBVIOUS
  <2>1. PICK q \in Nat : q = f[e] /\ q >= 1 /\ f[e + 1] = 2 * q
    <3>1. f[e] \in Nat /\ f[e] > e
      BY <1>4, DoublesAre
    <3>2. f[e + 1] = 2 * f[e]
      BY <1>4 DEF Doubles
    <3> QED BY <3>1, <3>2
  <2>2. (2 * q) \div 2 = q /\ 2 * q \in 0 .. n /\ 2 * q > 1 /\ q <= n
    BY <2>1
  <2>3. rev[2 * q][j] = (j % 2) * q + rev[q][j \div 2]
    <3>1. PICK m \in 0 .. n : m = 2 * q /\ ~ m <= 1 /\ m \div 2 = q
      BY <2>2
    <3>2. rev[m][j] = IF m <= 1 THEN 0 ELSE (j % 2) * (m \div 2) + rev[m \div 2][j \div 2]
      BY ONLY <1>3, <3>1, j \in 0 .. n
    <3>3. rev[m][j] = (j % 2) * (m \div 2) + rev[m \div 2][j \div 2]
      BY ONLY <3>1, <3>2
    <3> QED BY ONLY <3>1, <3>3
  <2>4. j \div 2 \in 0 .. n /\ j % 2 \in {0, 1}
    BY Half
  <2>5. rev[q][j \div 2] \in Nat /\ rev[q][j \div 2] < q
    BY <1>6, <2>1, <2>2, <2>4
  <2>6. PICK b \in {0, 1}, r \in Nat : b = j % 2 /\ r = rev[q][j \div 2]
    BY <2>4, <2>5
  <2>7. rev[2 * q][j] = b * q + r /\ r < q
    BY ONLY <2>3, <2>5, <2>6
  <2>8. b * q + r \in Nat /\ b * q + r < 2 * q
    <3>1. CASE b = 0
      BY ONLY <2>7, <3>1, q \in Nat, r \in Nat
    <3>2. CASE b = 1
      BY ONLY <2>7, <3>2, q \in Nat, r \in Nat
    <3> QED BY <3>1, <3>2
  <2> QED BY <2>1, <2>7, <2>8
<1>7. PICK e \in Nat : n = f[e]
  BY <1>4, PowersOfTwoAre
<1>8. e \in P
  <2>1. Nat \subseteq P
    <3> HIDE DEF P
    <3> QED BY <1>5, <1>6, Induction
  <2> QED BY <2>1
<1>9. k \in 0 .. n /\ n <= n
  BY DEF Upto
<1>10. rev[n][k] \in Nat /\ rev[n][k] < n
  BY <1>7, <1>8, <1>9
<1> QED BY <1>2, <1>10, UptoIs

-------------------------------------------------------------------------------
(* What newInstance fixes.                                                 *)

Instance ==
    \E c \in Circuits, rnd \in Randomizers, zk, spare, gpu \in BOOLEAN :
       s = newInstance(c, zk, rnd, spare, gpu)

Selectors   == {"Ql", "Qr", "Qm", "Qo", "Qk", "S1", "S2", "S3"}
TraceFields == Selectors \cup {"Qcp"}

LEMMA CircuitIs ==
  ASSUME NEW c \in Circuits
  PROVE  /\ c.nbPublic \in Nat /\ Size(c.gates) \in Nat /\ Size(c.commits) \in Nat
         /\ DOMAIN c.gates = Upto(Size(c.gates)) /\ DOMAIN c.commits = Upto(Size(c.commits))
         /\ \A k \in DOMAIN c.gates : /\ c.gates[k].ql \in F /\ c.gates[k].qr \in F
                                      /\ c.gates[k].qm \in F /\ c.gates[k].qo \in F
                                      /\ c.gates[k].qk \in F
         /\ \A v \in [DOMAIN c.commits -> HashValues], w \in Wires(c) : c.witness[v][w] \in F
<1>1. /\ c.nbPublic \in Nat /\ IsVector(c.gates) /\ IsVector(c.commits)
      /\ \A k \in DOMAIN c.gates : \A f \in {"ql", "qr", "qm", "qo", "qk"} : c.gates[k][f] \in F
      /\ \A v \in [DOMAIN c.commits -> HashValues], w \in Wires(c) : c.witness[v][w] \in F
  BY CircuitsAssumption
<1>2. \A v : IsVector(v) => Size(v) \in Nat /\ DOMAIN v = Upto(Size(v))
  <2> SUFFICES ASSUME NEW v, IsVector(v) PROVE Size(v) \in Nat /\ DOMAIN v = Upto(Size(v))
    OBVIOUS
  <2>1. IsFiniteSet(DOMAIN v) /\ v = [k \in Upto(Size(v)) |-> v[k]]
    BY DEF IsVector
  <2>2. Size(v) \in Nat
    BY <2>1, FS_CardinalityType DEF Size
  <2>3. DOMAIN v = Upto(Size(v))
    BY <2>1
  <2> QED BY <2>2, <2>3
<1>3. \A k \in DOMAIN c.gates : /\ c.gates[k].ql \in F /\ c.gates[k].qr \in F
                                /\ c.gates[k].qm \in F /\ c.gates[k].qo \in F
                                /\ c.gates[k].qk \in F
  BY <1>1
<1> QED BY <1>1, <1>2, <1>3

LEMMA RowIs ==
  ASSUME NEW c \in Circuits, NEW k \in Nat
  PROVE  /\ Row(c, k).ql \in F /\ Row(c, k).qr \in F /\ Row(c, k).qm \in F
         /\ Row(c, k).qo \in F /\ Row(c, k).qk \in F
         /\ Row(c, k).l \in Wires(c) /\ Row(c, k).r \in Wires(c) /\ Row(c, k).o \in Wires(c)
         /\ k < c.nbPublic => Row(c, k).r = 0 /\ Row(c, k).o = 0
         /\ k >= c.nbPublic + Size(c.gates) =>
              Row(c, k).l = 0 /\ Row(c, k).r = 0 /\ Row(c, k).o = 0
<1>1. /\ c.nbPublic \in Nat /\ Size(c.gates) \in Nat /\ DOMAIN c.gates = Upto(Size(c.gates))
      /\ \A j \in DOMAIN c.gates : /\ c.gates[j].ql \in F /\ c.gates[j].qr \in F
                                   /\ c.gates[j].qm \in F /\ c.gates[j].qo \in F
                                   /\ c.gates[j].qk \in F
  BY CircuitIs
<1>2. 0 \in Wires(c) /\ 0 \in F /\ Prime - 1 \in F
  BY ZeroOne, PrimeAssumption DEF Wires, F
<1>3. CASE k < c.nbPublic
  <2>1. Row(c, k) = [l |-> k, r |-> 0, o |-> 0, ql |-> Prime - 1, qr |-> 0, qm |-> 0,
                     qo |-> 0, qk |-> 0]
    BY <1>3 DEF Row
  <2>2. k \in Wires(c)
    BY <1>1, <1>3, UptoIs DEF Wires
  <2>3. ~(k >= c.nbPublic + Size(c.gates))
    BY <1>1, <1>3
  <2> QED BY <1>2, <2>1, <2>2, <2>3
<1>4. CASE ~(k < c.nbPublic) /\ k < c.nbPublic + Size(c.gates)
  <2>1. PICK j \in Nat : j = k - c.nbPublic /\ j \in DOMAIN c.gates
    <3>1. k - c.nbPublic \in Nat /\ k - c.nbPublic < Size(c.gates)
      BY <1>1, <1>4
    <3> QED BY <1>1, <3>1, UptoIs
  <2>2. Row(c, k) = c.gates[j]
    BY <1>4, <2>1 DEF Row
  <2>3. c.gates[j].l \in Wires(c) /\ c.gates[j].r \in Wires(c) /\ c.gates[j].o \in Wires(c)
    BY <2>1 DEF Wires
  <2>4. ~(k >= c.nbPublic + Size(c.gates))
    BY <1>1, <1>4
  <2> QED BY <1>1, <1>4, <2>1, <2>2, <2>3, <2>4
<1>5. CASE ~(k < c.nbPublic) /\ ~(k < c.nbPublic + Size(c.gates))
  <2>1. Row(c, k) = [l |-> 0, r |-> 0, o |-> 0, ql |-> 0, qr |-> 0, qm |-> 0, qo |-> 0, qk |-> 0]
    BY <1>5 DEF Row
  <2> QED BY <1>2, <1>5, <2>1
<1> QED BY <1>3, <1>4, <1>5

LEMMA PermutedType ==
  ASSUME NEW c, NEW n, Order(n), NEW q \in Nat, q < 3 * n
  PROVE  Permuted(c, n, q) \in F
<1> DEFINE cells   == Upto(3 * n)
           wire(a) == LET row == Row(c, a % n) IN <<row.l, row.r, row.o>>[1 + a \div n]
           same    == {a \in cells : wire(a) = wire(q)}
           later   == {a \in same : a > q}
           A       == IF later = {} THEN same ELSE later
           target  == CHOOSE a \in A : \A b \in A : a <= b
<1>1. n \in Nat /\ n # 0
  BY DEF Order
<1>2. q \in cells
  BY <1>1, UptoIs
<1>3. same \in SUBSET Nat /\ later \in SUBSET Nat /\ q \in same
  <2> HIDE DEF wire
  <2>1. \A a \in cells : a \in Nat
    BY <1>1 DEF Upto
  <2> HIDE DEF cells
  <2> QED BY <1>2, <2>1
<1>4. A \in SUBSET Nat /\ A # {}
  <2> HIDE DEF same, later
  <2> QED BY <1>3
<1>5. target \in Nat
  <2> HIDE DEF A
  <2>1. \E a \in A : \A b \in A : a <= b
    BY <1>4, Least
  <2> QED BY <1>4, <2>1
<1> HIDE DEF target
<1>6. target % n \in Nat /\ target \div n \in Nat
  <2>1. target \in Nat /\ n \in Nat /\ n # 0
    BY <1>1, <1>5
  <2>2. target % n \in 0 .. n - 1 /\ target \div n \in Int /\ target = n * (target \div n) + (target % n)
    BY ONLY <2>1, ModRange
  <2>3. PICK d \in Int, r \in 0 .. n - 1 : d = target \div n /\ target = n * d + r
    BY <2>2
  <2>4. d >= 0
    <3>1. CASE d <= -1
      <4>1. n * d <= -n
        BY ONLY <2>1, <3>1, d \in Int
      <4> QED BY ONLY <2>1, <2>3, <4>1
    <3> QED BY <3>1
  <2> QED BY <2>1, <2>2, <2>3, <2>4
<1>7. Generator(n) \in F /\ Root \in F
  BY GeneratorIs, RootIs
<1>8. Power(Generator(n), target % n) \in F /\ Power(Root, target \div n) \in F
  BY <1>6, <1>7, PowerLaws
<1>9. Permuted(c, n, q) = Power(Generator(n), target % n) (.) Power(Root, target \div n)
  BY DEF Permuted, target
<1> QED BY <1>8, <1>9, Closed

LEMMA TraceType ==
  ASSUME NEW c \in Circuits, NEW n, Order(n)
  PROVE  /\ DOMAIN Trace(c, n) = TraceFields
         /\ \A f \in Selectors : Trace(c, n)[f] \in Vec(n)
         /\ Trace(c, n).Qcp \in [DOMAIN c.commits -> Vec(n)]
<1> DEFINE sel(f) == [k \in Upto(n) |-> Row(c, k)[f]]
           sig(col) == [k \in Upto(n) |-> Permuted(c, n, col * n + k)]
           qcp(m) == [k \in Upto(n) |-> IF k - c.nbPublic \in c.commits[m].committed THEN 1 ELSE 0]
<1>1. n \in Nat
  BY DEF Order
<1>2. sel("ql") \in Vec(n) /\ sel("qr") \in Vec(n) /\ sel("qm") \in Vec(n) /\ sel("qo") \in Vec(n)
      /\ sel("qk") \in Vec(n)
  <2>1. \A k \in Upto(n) : k \in Nat
    BY <1>1, UptoIs
  <2>2. \A k \in Upto(n) : /\ Row(c, k).ql \in F /\ Row(c, k).qr \in F /\ Row(c, k).qm \in F
                           /\ Row(c, k).qo \in F /\ Row(c, k).qk \in F
    BY <2>1, RowIs
  <2> QED BY <2>2 DEF Vec
<1>3. sig(0) \in Vec(n) /\ sig(1) \in Vec(n) /\ sig(2) \in Vec(n)
  <2> SUFFICES ASSUME NEW col \in {0, 1, 2}, NEW k \in Upto(n)
               PROVE  Permuted(c, n, col * n + k) \in F
    BY DEF Vec
  <2>1. k \in Nat /\ k < n
    BY <1>1, UptoIs
  <2>2. col * n + k \in Nat /\ col * n + k < 3 * n
    <3>1. CASE col = 0
      BY <1>1, <2>1, <3>1
    <3>2. CASE col = 1
      BY <1>1, <2>1, <3>2
    <3>3. CASE col = 2
      BY <1>1, <2>1, <3>3
    <3> QED BY <3>1, <3>2, <3>3
  <2> QED BY <2>2, PermutedType
<1>4. \A m : qcp(m) \in Vec(n)
  BY ZeroOne DEF Vec
<1>5. Trace(c, n) = [Ql |-> Poly(sel("ql")), Qr |-> Poly(sel("qr")), Qm |-> Poly(sel("qm")),
                     Qo |-> Poly(sel("qo")), Qk |-> Poly(sel("qk")),
                     S1 |-> Poly(sig(0)), S2 |-> Poly(sig(1)), S3 |-> Poly(sig(2)),
                     Qcp |-> [m \in DOMAIN c.commits |-> Poly(qcp(m))]]
  BY DEF Trace
<1> HIDE DEF sel, sig, qcp
<1>6. /\ Poly(sel("ql")) \in Vec(n) /\ Poly(sel("qr")) \in Vec(n) /\ Poly(sel("qm")) \in Vec(n)
      /\ Poly(sel("qo")) \in Vec(n) /\ Poly(sel("qk")) \in Vec(n)
      /\ Poly(sig(0)) \in Vec(n) /\ Poly(sig(1)) \in Vec(n) /\ Poly(sig(2)) \in Vec(n)
      /\ \A m : Poly(qcp(m)) \in Vec(n)
  BY <1>2, <1>3, <1>4, PolyIs
<1> QED BY <1>5, <1>6 DEF Selectors, TraceFields

LEMMA InstanceIs ==
  ASSUME Instance
  PROVE  /\ s.circuit \in Circuits /\ Order(s.n) /\ Order(s.big) /\ PowerOfTwo(s.big)
         /\ s.n \in Nat /\ s.big \in Nat /\ s.rho \in Nat \ {0} /\ s.big = s.n * s.rho
         /\ 3 * (s.n + 2) <= s.big /\ s.w = Generator(s.n) /\ s.trace = Trace(s.circuit, s.n)
         /\ s.offset = s.circuit.nbPublic + Size(s.circuit.gates)
         /\ s.offset \in Nat /\ 2 <= s.offset /\ s.offset <= s.n
         /\ s.zk \in BOOLEAN /\ s.rnd[1] \in F /\ s.rnd[2] \in F
         /\ Power(Tau, s.n) # 1
<1>1. PICK c \in Circuits, rnd \in Randomizers, zk \in BOOLEAN, spare \in BOOLEAN, gpu \in BOOLEAN :
        s = newInstance(c, zk, rnd, spare, gpu)
  BY DEF Instance
<1>2. PICK m \in Nat : m = c.nbPublic + Size(c.gates) /\ m >= 2
  BY CircuitIs, CircuitsAssumption
<1>3. PICK n \in Nat : n = NextPowerOfTwo(m) /\ m <= n
  BY <1>2, NextPowerOfTwoIs
<1>4. PICK big \in Nat : big = Domain1Size(m) /\ PowerOfTwo(big) /\ 3 * (n + 2) <= big
                         /\ \E r \in Nat \ {0} : big = n * r
  BY <1>2, <1>3, DomainSizes
<1>5. PICK r \in Nat \ {0} : big = n * r
  BY <1>4
<1>6. Order(n) /\ Order(big)
  <2>1. n < Prime - 1 /\ (Prime - 1) % n = 0 /\ big < Prime - 1 /\ (Prime - 1) % big = 0
    BY <1>2, <1>3, <1>4, CircuitsAssumption
  <2>2. n # 0 /\ big # 0
    BY <1>2, <1>3, <1>4
  <2> QED BY <2>1, <2>2 DEF Order
<1>7. big \div n = r
  <2>1. n \in Nat /\ n # 0 /\ big \in Int
    BY <1>2, <1>3
  <2>2. big \div n \in Int /\ big = n * (big \div n) + (big % n)
    BY ONLY <2>1, ModRange
  <2>3. big % n = 0
    BY <1>5, <2>1, Divides
  <2>4. PICK d \in Int : d = big \div n /\ n * d = n * r
    BY <1>5, <2>1, <2>2, <2>3
  <2>5. d = r
    BY ONLY <2>1, <2>4, r \in Nat
  <2> QED BY <2>4, <2>5
<1>8. /\ s.circuit = c /\ s.offset = m /\ s.n = n /\ s.big = big /\ s.rho = big \div n
      /\ s.w = Generator(n) /\ s.trace = Trace(c, n) /\ s.zk = zk
      /\ s.rnd = IF zk THEN rnd ELSE <<0, 0>>
  BY <1>1, <1>2, <1>3, <1>4 DEF newInstance
<1>9. s.rnd[1] \in F /\ s.rnd[2] \in F
  <2>1. rnd \in F \X F
    BY ValuesAssumption
  <2> QED BY <1>8, <2>1, ZeroOne
<1>10. Power(Tau, n) # 1
  BY <1>2, <1>3, ValuesAssumption
<1> QED BY <1>2, <1>3, <1>4, <1>5, <1>6, <1>7, <1>8, <1>9, <1>10

-------------------------------------------------------------------------------
(* The constraints stay in the field.                                      *)

Commits   == DOMAIN s.circuit.commits
AllFields == Selectors \cup {"L", "R", "O", "Z"}
Vectors   == [Commits -> Vec(s.n)]

\* x during the quotient.
Complete(xs) == /\ \A f \in AllFields : xs[f] \in Vec(s.n)
                /\ xs.Qcp \in Vectors /\ xs.Pi2 \in Vectors

\* The blinding polynomials.
Blinders(bs) == /\ DOMAIN bs = {"L", "R", "O", "Z"}
                /\ bs.L \in Vec(2) /\ bs.R \in Vec(2) /\ bs.O \in Vec(2) /\ bs.Z \in Vec(3)

LEMMA CommitsAre ==
  ASSUME Instance
  PROVE  \E m \in Nat : Commits = Upto(m)
BY InstanceIs, CircuitIs DEF Commits

LEMMA ModNat == \A k \in Nat : \A n \in Nat \ {0} : k % n \in Nat /\ k % n < n
<1> TAKE k \in Nat
<1> TAKE n \in Nat \ {0}
<1>1. k \in Int /\ n \in Nat /\ n # 0
  OBVIOUS
<1>2. k % n \in 0 .. n - 1
  BY ONLY <1>1, ModRange
<1>3. PICK r \in 0 .. n - 1 : r = k % n
  BY <1>2
<1> QED BY ONLY <1>3, <1>1

LEMMA TwiddleType ==
  ASSUME Instance, NEW k \in Nat
  PROVE  twiddles0(k) \in F /\ (k < s.n => twiddles0(k) = Power(s.w, k))
<1>1. s.n \in Nat \ {0} /\ s.w \in F
  BY InstanceIs, GeneratorIs, OrderIs
<1>2. k % s.n \in Nat
  BY <1>1, ModNat
<1>3. k < s.n => k % s.n = k
  <2> SUFFICES ASSUME k < s.n PROVE k % s.n = k
    OBVIOUS
  <2>1. s.n \in Nat /\ s.n # 0 /\ k \in 0 .. s.n - 1 /\ k = s.n * 0 + k /\ 0 \in Int /\ k \in Int
    BY <1>1
  <2> QED BY ONLY <2>1, ModIs
<1> QED BY <1>1, <1>2, <1>3, PowerLaws DEF twiddles0

LEMMA InvType == \A a \in F : Inv(a) \in F
<1> TAKE a \in F
<1>1. CASE a = 0
  BY <1>1, ZeroOne DEF Inv, InvTable
<1>2. CASE a # 0
  BY <1>2, InverseIs
<1> QED BY <1>1, <1>2

Evaluated(e, m) ==
  /\ e.L \in F /\ e.R \in F /\ e.O \in F /\ e.Z \in F /\ e.ZS \in F
  /\ e.Ql \in F /\ e.Qr \in F /\ e.Qm \in F /\ e.Qo \in F /\ e.Qk \in F
  /\ e.S1 \in F /\ e.S2 \in F /\ e.S3 \in F
  /\ e.Qcp \in Vec(m) /\ e.Pi2 \in Vec(m)

LEMMA CombinedType ==
  ASSUME NEW m \in Nat, NEW e, Evaluated(e, m), NEW id \in F, NEW lone \in F, NEW alpha \in F,
         NEW gamma \in F, NEW cs \in F, NEW css \in F
  PROVE  Combined(e, id, lone, alpha, gamma, cs, css) \in F
<1>1. gateConstraint(e) \in F
  <2> DEFINE t == [k \in DOMAIN e.Qcp |-> e.Qcp[k] (.) e.Pi2[k]]
  <2>1. t \in Vec(m)
    BY Closed DEF Vec, Evaluated
  <2>2. Total(t) \in F
    <3> HIDE DEF t
    <3> QED BY <2>1, TotalType
  <2>3. /\ e.Ql (.) e.L \in F /\ e.Qr (.) e.R \in F /\ e.Qm (.) e.L (.) e.R \in F
        /\ e.Qo (.) e.O \in F /\ e.Qk \in F
    BY Closed DEF Evaluated
  <2>4. gateConstraint(e) = e.Ql (.) e.L (+) e.Qr (.) e.R (+) e.Qm (.) e.L (.) e.R
                              (+) e.Qo (.) e.O (+) e.Qk (+) Total(t)
    BY DEF gateConstraint
  <2> HIDE DEF t
  <2> QED BY <2>2, <2>3, <2>4, Closed
<1>2. orderingConstraint(e, id, gamma, cs, css) \in F
  <2>1. /\ gamma (+) e.L (+) id \in F /\ id (.) cs (+) e.R (+) gamma \in F
        /\ id (.) css (+) e.O (+) gamma \in F /\ e.Z \in F /\ e.ZS \in F
        /\ e.S1 (+) e.L (+) gamma \in F /\ e.S2 (+) e.R (+) gamma \in F
        /\ e.S3 (+) e.O (+) gamma \in F
    BY Closed DEF Evaluated
  <2> QED BY <2>1, Closed DEF orderingConstraint
<1>3. localConstraint(e, lone) \in F
  BY Closed, ZeroOne DEF localConstraint, Evaluated
<1> QED BY <1>1, <1>2, <1>3, Closed DEF Combined

LEMMA EvaluationsType ==
  ASSUME Instance, NEW xs, Complete(xs), NEW k \in Nat, NEW beta \in F, NEW y,
         y.L \in F, y.R \in F, y.O \in F, y.Z \in F, y.ZS \in F,
         NEW m \in Nat, Commits = Upto(m)
  PROVE  Evaluated(Evaluations(xs, k, beta, y), m)
<1>1. s.n \in Nat
  BY InstanceIs
<1>2. k + 1 \in Nat /\ twiddles0(k) \in F /\ twiddles0(k + 1) \in F
  BY TwiddleType
<1> DEFINE at(f) == Eval(xs[f], twiddles0(k))
           q == [j \in DOMAIN xs.Qcp |-> Eval(xs.Qcp[j], twiddles0(k))]
           p == [j \in DOMAIN xs.Pi2 |-> Eval(xs.Pi2[j], twiddles0(k))]
           zs == Eval(xs.Z, twiddles0(k + 1))
<1>3. \A f \in AllFields : at(f) \in F
  BY <1>1, <1>2, EvalType DEF Complete
<1>4. zs \in F
  <2>1. "Z" \in AllFields
    BY DEF AllFields
  <2>2. xs.Z \in Vec(s.n)
    BY <2>1 DEF Complete
  <2> QED BY <1>1, <1>2, <2>2, EvalType
<1>5. q \in Vec(m) /\ p \in Vec(m)
  <2>1. xs.Qcp \in [Upto(m) -> Vec(s.n)] /\ xs.Pi2 \in [Upto(m) -> Vec(s.n)]
    BY DEF Complete, Vectors
  <2>2. \A j \in Upto(m) : Eval(xs.Qcp[j], twiddles0(k)) \in F /\ Eval(xs.Pi2[j], twiddles0(k)) \in F
    BY <1>1, <1>2, <2>1, EvalType
  <2> QED BY <2>1, <2>2 DEF Vec
<1>6. Evaluations(xs, k, beta, y)
        = [L |-> at("L") (+) y.L, R |-> at("R") (+) y.R, O |-> at("O") (+) y.O,
           Z |-> at("Z") (+) y.Z, ZS |-> zs (+) y.ZS,
           Ql |-> at("Ql"), Qr |-> at("Qr"), Qm |-> at("Qm"), Qo |-> at("Qo"), Qk |-> at("Qk"),
           S1 |-> beta (.) at("S1"), S2 |-> beta (.) at("S2"), S3 |-> beta (.) at("S3"),
           Qcp |-> q, Pi2 |-> p]
  BY DEF Evaluations
<1>7. /\ at("L") \in F /\ at("R") \in F /\ at("O") \in F /\ at("Z") \in F /\ at("Ql") \in F
      /\ at("Qr") \in F /\ at("Qm") \in F /\ at("Qo") \in F /\ at("Qk") \in F
      /\ at("S1") \in F /\ at("S2") \in F /\ at("S3") \in F
  <2> HIDE DEF at
  <2> QED BY <1>3 DEF AllFields, Selectors
<1> HIDE DEF at, q, p, zs
<1> QED BY <1>4, <1>5, <1>6, <1>7, Closed DEF Evaluated

LEMMA AllConstraintsType ==
  ASSUME Instance, NEW xs, Complete(xs), NEW bs, Blinders(bs), NEW c \in F, NEW cn \in F,
         NEW k \in Nat, chal.alpha \in F, chal.beta \in F, chal.gamma \in F
  PROVE  allConstraints(xs, bs, c, cn, k) \in F
<1>1. PICK m \in Nat : Commits = Upto(m)
  BY CommitsAre
<1>2. twiddles0(k) \in F /\ twiddles0(k + 1) \in F
  BY TwiddleType
<1> DEFINE pt   == twiddles0(k)
           y    == [L |-> Eval(bs.L, pt), R |-> Eval(bs.R, pt), O |-> Eval(bs.O, pt),
                    Z |-> Eval(bs.Z, pt), ZS |-> Eval(bs.Z, twiddles0(k + 1))]
           lone == cn (.) Inv(s.n) (.) Inv(c (.) pt (-) 1)
           e    == Evaluations(xs, k, chal.beta, y)
<1>3. y.L \in F /\ y.R \in F /\ y.O \in F /\ y.Z \in F /\ y.ZS \in F
  <2>1. 2 \in Nat /\ 3 \in Nat
    OBVIOUS
  <2> QED BY <1>2, <2>1, EvalType DEF Blinders
<1>4. Evaluated(e, m)
  <2> HIDE DEF y
  <2> QED BY <1>1, <1>3, EvaluationsType
<1>5. s.n \in F
  BY InstanceIs, OrderIs
<1>6. lone \in F
  <2>1. c (.) pt (-) 1 \in F
    BY <1>2, ZeroOne, Closed
  <2> QED BY <1>5, <2>1, InvType, Closed
<1>7. pt (.) c (.) chal.beta \in F /\ Root \in F /\ Root (.) Root \in F
  BY <1>2, RootIs, Closed
<1>8. allConstraints(xs, bs, c, cn, k)
        = Combined(e, pt (.) c (.) chal.beta, lone, chal.alpha, chal.gamma, Root, Root (.) Root)
  BY DEF allConstraints
<1> HIDE DEF e, lone
<1>9. PICK id \in F, alpha \in F, gamma \in F, cs \in F, css \in F :
        /\ id = pt (.) c (.) chal.beta /\ alpha = chal.alpha /\ gamma = chal.gamma
        /\ cs = Root /\ css = Root (.) Root
  BY <1>7
<1>10. Combined(e, id, lone, alpha, gamma, cs, css) \in F
  BY <1>4, <1>6, CombinedType
<1> QED BY <1>8, <1>9, <1>10

LEMMA ConstraintKernelType ==
  ASSUME Instance, NEW xs, Complete(xs), NEW bs, Blinders(bs), NEW c \in F, NEW cn \in F,
         NEW k \in Nat, chal.alpha \in F, chal.beta \in F, chal.gamma \in F
  PROVE  constraintKernel(xs, PackedBlinding(bs), PackedChallenges(c, cn), k) \in F
<1>1. PICK m \in Nat : Commits = Upto(m)
  BY CommitsAre
<1>2. twiddles0(k) \in F /\ twiddles0(k + 1) \in F
  BY TwiddleType
<1> DEFINE d_bp == PackedBlinding(bs)
           ch   == PackedChallenges(c, cn)
           tw      == twiddles0(k)
           tw_next == twiddles0(k + 1)
           blind1(b, p) == d_bp[b] (+) d_bp[b + 1] (.) p
           blind2(p) == d_bp[6] (+) d_bp[7] (.) p (+) d_bp[8] (.) p (.) p
           y    == [L |-> blind1(0, tw), R |-> blind1(2, tw), O |-> blind1(4, tw),
                    Z |-> blind2(tw), ZS |-> blind2(tw_next)]
           beta == ch[1]
           lone == ch[6] (.) ch[7] (.) Inv(tw (.) ch[5] (-) 1)
           e    == Evaluations(xs, k, beta, y)
<1>3. \A j \in 0 .. 8 : d_bp[j] \in F
  <2>1. 2 \in Nat /\ 3 \in Nat /\ 4 \in Nat /\ 5 \in Nat /\ 2 + 2 = 4 /\ 2 + 3 = 5 /\ 4 + 5 = 9
    OBVIOUS
  <2>2. Concat(bs.L, bs.R) \in Vec(4) /\ Concat(bs.O, bs.Z) \in Vec(5)
    <3>1. Concat(bs.L, bs.R) \in Vec(2 + 2) /\ Concat(bs.O, bs.Z) \in Vec(2 + 3)
      BY <2>1, EvalConcat DEF Blinders
    <3> QED BY <2>1, <3>1
  <2>3. PackedBlinding(bs) \in Vec(4 + 5)
    BY <2>1, <2>2, EvalConcat DEF PackedBlinding
  <2>4. 0 .. 8 = Upto(9)
    BY DEF Upto
  <2> QED BY <2>1, <2>3, <2>4 DEF Vec
<1>4. /\ ch[0] \in F /\ ch[1] \in F /\ ch[2] \in F /\ ch[3] \in F /\ ch[4] \in F /\ ch[5] \in F
      /\ ch[6] \in F /\ ch[7] \in F
  <2>1. s.n \in F /\ Root \in F
    BY InstanceIs, OrderIs, RootIs
  <2>2. Inv(s.n) \in F /\ Root (.) Root \in F
    BY <2>1, InvType, Closed
  <2>3. /\ ch[0] = chal.alpha /\ ch[1] = chal.beta /\ ch[2] = chal.gamma /\ ch[3] = Root
        /\ ch[4] = Root (.) Root /\ ch[5] = c /\ ch[6] = cn /\ ch[7] = Inv(s.n)
    BY DEF PackedChallenges
  <2> HIDE DEF ch
  <2> QED BY <2>1, <2>2, <2>3
<1>5. y.L \in F /\ y.R \in F /\ y.O \in F /\ y.Z \in F /\ y.ZS \in F
  <2>1. 0 + 1 = 1 /\ 2 + 1 = 3 /\ 4 + 1 = 5
    OBVIOUS
  <2>2. /\ d_bp[0] \in F /\ d_bp[1] \in F /\ d_bp[2] \in F /\ d_bp[3] \in F /\ d_bp[4] \in F
        /\ d_bp[5] \in F /\ d_bp[6] \in F /\ d_bp[7] \in F /\ d_bp[8] \in F
    <3> HIDE DEF d_bp
    <3> QED BY <1>3
  <2> HIDE DEF d_bp
  <2>3. blind1(0, tw) \in F /\ blind1(2, tw) \in F /\ blind1(4, tw) \in F
    BY <1>2, <2>1, <2>2, Closed
  <2>4. blind2(tw) \in F /\ blind2(tw_next) \in F
    BY <1>2, <2>2, Closed
  <2> HIDE DEF blind1, blind2
  <2> QED BY <2>3, <2>4
<1>6. Evaluated(e, m)
  <2> HIDE DEF y, ch
  <2> QED BY <1>1, <1>4, <1>5, EvaluationsType
<1>7. lone \in F /\ tw (.) ch[5] (.) beta \in F
  <2> HIDE DEF ch
  <2>1. tw (.) ch[5] (-) 1 \in F
    BY <1>2, <1>4, ZeroOne, Closed
  <2> QED BY <1>2, <1>4, <2>1, InvType, Closed
<1>8. constraintKernel(xs, d_bp, ch, k)
        = Combined(e, tw (.) ch[5] (.) beta, lone, ch[0], ch[2], ch[3], ch[4])
  BY DEF constraintKernel
<1> HIDE DEF e, lone, ch, d_bp
<1>9. PICK id \in F, alpha \in F, gamma \in F, cs \in F, css \in F :
        /\ id = tw (.) ch[5] (.) beta /\ alpha = ch[0] /\ gamma = ch[2]
        /\ cs = ch[3] /\ css = ch[4]
  BY <1>4, <1>7
<1>10. Combined(e, id, lone, alpha, gamma, cs, css) \in F
  BY <1>6, <1>7, CombinedType
<1>11. constraintKernel(xs, d_bp, ch, k) \in F
  BY <1>8, <1>9, <1>10
<1> QED BY <1>11 DEF ch, d_bp

-------------------------------------------------------------------------------
(* The commitments of the witness stages.                                  *)

Zh == Power(Tau, s.n) (-) 1

\* The commitment of a polynomial p blinded by b.
BlindCommit(p, b, z) == Eval(p, z) (+) (Eval(b, z) (.) Zh)

LEMMA TauIs == ASSUME Instance PROVE Tau \in F /\ Power(Tau, s.n) \in F /\ Zh \in F
<1>1. Tau \in F /\ s.n \in Nat
  BY InstanceIs, ValuesAssumption
<1> QED BY <1>1, PowerLaws, ZeroOne, Closed DEF Zh

LEMMA BlindingFactor ==
  ASSUME Instance, NEW m \in Nat, NEW b \in Vec(m)
  PROVE  commitBlindingFactor(b) = Eval(b, Tau) (.) Zh /\ Eval(b, Tau) \in F
<1>1. Tau \in F /\ s.n \in Nat /\ Power(Tau, s.n) \in F
  BY InstanceIs, TauIs
<1> DEFINE low  == [k \in Upto(m) |-> b[k] (.) Power(Tau, k)]
           high == [k \in Upto(m) |-> b[k] (.) Power(Tau, s.n + k)]
           y    == Power(Tau, s.n)
<1>2. low \in Vec(m) /\ Eval(b, Tau) = Total(low)
  BY <1>1, EvalTotal
<1>3. Total(low) \in F
  <2> HIDE DEF low
  <2> QED BY <1>2, TotalType
<1>4. high = [k \in Upto(m) |-> y (.) low[k]]
  <2> SUFFICES ASSUME NEW k \in Upto(m)
               PROVE  b[k] (.) Power(Tau, s.n + k) = y (.) (b[k] (.) Power(Tau, k))
    OBVIOUS
  <2>1. k \in Nat /\ b[k] \in F
    BY UptoIs DEF Vec
  <2>2. Power(Tau, s.n + k) = y (.) Power(Tau, k) /\ Power(Tau, k) \in F
    BY <1>1, <2>1, PowerLaws
  <2> DEFINE w == Power(Tau, k)
             a == b[k]
  <2>3. a (.) (y (.) w) = y (.) (a (.) w)
    <3>1. a \in F /\ y \in F /\ w \in F
      BY <1>1, <2>1, <2>2
    <3> HIDE DEF a, y, w
    <3> QED BY <3>1, Associates, Commutes
  <2> QED BY <2>2, <2>3
<1>5. Total(high) = y (.) Total(low)
  <2> HIDE DEF low, high, y
  <2>1. y \in F
    BY <1>1 DEF y
  <2> QED BY <1>2, <1>4, <2>1, TotalScale
<1>6. commitBlindingFactor(b) = Total(high) (-) Total(low)
  <2>1. DOMAIN b = Upto(m)
    BY VecIs
  <2> QED BY <2>1 DEF commitBlindingFactor
<1>7. (y (.) Total(low)) (-) Total(low) = Total(low) (.) (y (-) 1)
  <2> DEFINE t == Total(low)
  <2>1. t \in F /\ y \in F
    BY <1>1, <1>3
  <2> HIDE DEF t, y
  <2>2. t (.) (y (-) 1) = (t (.) y) (-) t /\ t (.) y = y (.) t
    BY <2>1, ZeroOne, Distributes, Neutral, Commutes
  <2> QED BY <2>2 DEF t
<1> HIDE DEF low, high, y
<1>8. commitBlindingFactor(b) = Eval(b, Tau) (.) (y (-) 1)
  BY <1>2, <1>5, <1>6, <1>7
<1> QED BY <1>2, <1>3, <1>8 DEF y, Zh

LEMMA LagrangeAtIs ==
  ASSUME Instance, NEW k \in Nat, k < s.n, NEW z
  PROVE  LagrangeAt(k, z) = Lagrange(s.n, k, z)
<1>1. twiddles0(k) = Power(Generator(s.n), k)
  BY TwiddleType, InstanceIs
<1> QED BY <1>1 DEF LagrangeAt, Lagrange

\* A multi-exponentiation over the part of the Lagrange basis in which the
\* vector is not 0 is the value at Tau.
LEMMA MultiExp ==
  ASSUME Instance, NEW v \in Vec(s.n), NEW lo \in Nat, NEW hi \in Nat, lo <= hi, hi <= s.n,
         \A k \in Upto(s.n) : (k < lo \/ k >= hi) => v[k] = 0
  PROVE  LagrangeMultiExp(v, lo, hi) = Eval(Poly(v), Tau)
<1>1. Order(s.n) /\ s.n \in Nat /\ Tau \in F /\ Power(Tau, s.n) # 1
  BY InstanceIs, TauIs
<1> DEFINE t == [k \in Upto(s.n) |-> v[k] (.) Lagrange(s.n, k, Tau)]
<1>2. t \in Vec(s.n) /\ Eval(Poly(v), Tau) = Total(t)
  BY <1>1, EvalPoly
<1>3. \A k \in Upto(s.n) : (k < lo \/ k >= hi) => t[k] = 0
  <2> SUFFICES ASSUME NEW k \in Upto(s.n), k < lo \/ k >= hi PROVE t[k] = 0
    OBVIOUS
  <2>1. k \in Nat /\ v[k] = 0
    BY <1>1, UptoIs
  <2>2. Lagrange(s.n, k, Tau) \in F
    BY <1>1, <2>1, LagrangeIs
  <2> QED BY <2>1, <2>2, Neutral
<1>4. Total([k \in Upto(hi - lo) |-> t[lo + k]]) = Total(t)
  <2> HIDE DEF t
  <2> QED BY <1>1, <1>2, <1>3, TotalWindow
<1>5. [k \in Upto(hi - lo) |-> t[lo + k]]
        = [k \in Upto(hi - lo) |-> v[lo + k] (.) LagrangeAt(lo + k, Tau)]
  <2> SUFFICES ASSUME NEW k \in Upto(hi - lo)
               PROVE  t[lo + k] = v[lo + k] (.) LagrangeAt(lo + k, Tau)
    OBVIOUS
  <2>1. lo + k \in Nat /\ lo + k < s.n /\ lo + k \in Upto(s.n)
    BY <1>1 DEF Upto
  <2> QED BY <1>1, <2>1, LagrangeAtIs
<1> HIDE DEF t
<1> QED BY <1>2, <1>4, <1>5 DEF LagrangeMultiExp

\* What commitToLRO leaves out: the cells that hold s0 before lo and from the
\* offset on.
LEMMA CommitWireIs ==
  ASSUME Instance, NEW v \in Vec(s.n), NEW lo \in Nat, lo <= s.offset, NEW s0 \in F,
         NEW m \in Nat, NEW b \in Vec(m),
         \A k \in Upto(s.n) : (k < lo \/ k >= s.offset) => v[k] = s0
  PROVE  CommitWire(v, lo, s0, b) = BlindCommit(Poly(v), b, Tau)
<1>1. Order(s.n) /\ s.n \in Nat /\ Tau \in F /\ Power(Tau, s.n) # 1 /\ s.offset \in Nat
      /\ s.offset <= s.n
  BY InstanceIs, TauIs
<1> DEFINE d == [k \in Upto(s.n) |-> v[k] (-) s0]
           L == [k \in Upto(s.n) |-> Lagrange(s.n, k, Tau)]
           sL == [k \in Upto(s.n) |-> s0 (.) L[k]]
           dL == [k \in Upto(s.n) |-> d[k] (.) Lagrange(s.n, k, Tau)]
           vL == [k \in Upto(s.n) |-> v[k] (.) Lagrange(s.n, k, Tau)]
<1>2. d \in Vec(s.n)
  BY Closed DEF Vec
<1>3. \A k \in Upto(s.n) : (k < lo \/ k >= s.offset) => d[k] = 0
  BY Neutral
<1>4. LagrangeMultiExp(d, lo, s.offset) = Eval(Poly(d), Tau)
  <2> HIDE DEF d
  <2> QED BY <1>1, <1>2, <1>3, MultiExp
<1>5. dL \in Vec(s.n) /\ Eval(Poly(d), Tau) = Total(dL)
  <2> HIDE DEF d
  <2> QED BY <1>1, <1>2, EvalPoly
<1>6. vL \in Vec(s.n) /\ Eval(Poly(v), Tau) = Total(vL)
  BY <1>1, EvalPoly
<1>7. L \in Vec(s.n) /\ Total(L) = 1
  BY <1>1, LagrangeUnity
<1>8. sL \in Vec(s.n) /\ Total(sL) = s0
  <2>1. Total(sL) = s0 (.) Total(L)
    <3> HIDE DEF L
    <3> QED BY <1>1, <1>7, TotalScale
  <2>2. sL \in Vec(s.n)
    <3> HIDE DEF L
    <3> QED BY <1>7, Closed DEF Vec
  <2> HIDE DEF L, sL
  <2> QED BY <1>7, <2>1, <2>2, Neutral
<1>9. vL = [k \in Upto(s.n) |-> dL[k] (+) sL[k]]
  <2> SUFFICES ASSUME NEW k \in Upto(s.n) PROVE vL[k] = dL[k] (+) sL[k]
    OBVIOUS
  <2>1. v[k] \in F /\ Lagrange(s.n, k, Tau) \in F /\ v[k] (-) s0 \in F
    <3>1. k \in Nat /\ v[k] \in F
      BY <1>1, UptoIs DEF Vec
    <3> QED BY <1>1, <3>1, LagrangeIs, Closed
  <2>2. (v[k] (-) s0) (+) s0 = v[k]
    BY <2>1, Subtracts
  <2> QED BY <2>1, <2>2, Distributes
<1>10. Total(vL) = Total(dL) (+) s0
  <2> HIDE DEF vL, dL, sL
  <2> QED BY <1>1, <1>5, <1>8, <1>9, TotalAdd
<1>11. CommitWire(v, lo, s0, b)
         = LagrangeMultiExp(d, lo, s.offset) (+) s0 (+) commitBlindingFactor(b)
  <2>1. DOMAIN v = Upto(s.n)
    BY <1>1, VecIs
  <2> QED BY <2>1 DEF CommitWire
<1> HIDE DEF d, L, sL, dL, vL
<1> QED BY <1>4, <1>5, <1>6, <1>10, <1>11, BlindingFactor DEF BlindCommit

LEMMA CommitAll ==
  ASSUME Instance, NEW v \in Vec(s.n)
  PROVE  LagrangeMultiExp(v, 0, s.n) = Eval(Poly(v), Tau)
<1>1. s.n \in Nat /\ 0 \in Nat /\ 0 <= s.n /\ s.n <= s.n
  BY InstanceIs
<1>2. \A k \in Upto(s.n) : ~(k < 0 \/ k >= s.n)
  BY <1>1 DEF Upto
<1> QED BY <1>1, <1>2, MultiExp

LEMMA CommitBlindedIs ==
  ASSUME Instance, NEW v \in Vec(s.n), NEW m \in Nat, NEW b \in Vec(m)
  PROVE  commitToPolyAndBlinding(v, b) = BlindCommit(Poly(v), b, Tau)
BY CommitAll, BlindingFactor DEF commitToPolyAndBlinding, BlindCommit

-------------------------------------------------------------------------------
(* The vectors of the witness.                                             *)

Values == [Commits -> HashValues]

WireOf(v, k, f) == s.circuit.witness[v][Row(s.circuit, k)[f]]

LEMMA WiresAre ==
  ASSUME Instance, NEW v \in Values, NEW f \in {"l", "r", "o"}
  PROVE  /\ [k \in Upto(s.n) |-> WireOf(v, k, f)] \in Vec(s.n)
         /\ \A k \in Upto(s.n) :
              /\ k >= s.offset => WireOf(v, k, f) = s.circuit.witness[v][0]
              /\ f # "l" /\ k < s.circuit.nbPublic => WireOf(v, k, f) = s.circuit.witness[v][0]
         /\ s.circuit.witness[v][0] \in F
         /\ \A k \in Nat : k < s.circuit.nbPublic => s.circuit.witness[v][k] \in F
<1>1. /\ s.circuit \in Circuits /\ s.n \in Nat
      /\ s.offset = s.circuit.nbPublic + Size(s.circuit.gates)
  BY InstanceIs
<1>2. /\ \A w \in Wires(s.circuit) : s.circuit.witness[v][w] \in F
      /\ s.circuit.nbPublic \in Nat
  BY <1>1, CircuitIs DEF Values, Commits
<1>3. ASSUME NEW k \in Upto(s.n)
      PROVE  /\ Row(s.circuit, k)[f] \in Wires(s.circuit)
             /\ k >= s.offset => Row(s.circuit, k)[f] = 0
             /\ f # "l" /\ k < s.circuit.nbPublic => Row(s.circuit, k)[f] = 0
  <2>1. k \in Nat
    BY <1>1, UptoIs
  <2>2. /\ Row(s.circuit, k).l \in Wires(s.circuit) /\ Row(s.circuit, k).r \in Wires(s.circuit)
        /\ Row(s.circuit, k).o \in Wires(s.circuit)
        /\ k < s.circuit.nbPublic => Row(s.circuit, k).r = 0 /\ Row(s.circuit, k).o = 0
        /\ k >= s.offset =>
             Row(s.circuit, k).l = 0 /\ Row(s.circuit, k).r = 0 /\ Row(s.circuit, k).o = 0
    BY <1>1, <2>1, RowIs
  <2> QED BY <2>2
<1>4. 0 \in Wires(s.circuit) /\ \A k \in Nat : k < s.circuit.nbPublic => k \in Wires(s.circuit)
  BY <1>2, UptoIs DEF Wires
<1> QED BY <1>2, <1>3, <1>4 DEF WireOf, Vec

LEMMA CommittedValuesType ==
  ASSUME Instance, NEW m, NEW a \in Vec(s.n), NEW r1 \in F, NEW r2 \in F
  PROVE  CommittedValues(m, a, r1, r2) \in Vec(s.n)
BY ZeroOne DEF CommittedValues, Vec

QkOf(v) ==
  [k \in Upto(s.n) |->
     IF k < s.circuit.nbPublic THEN s.circuit.witness[v][k]
     ELSE IF \E m \in DOMAIN v : k = s.circuit.nbPublic + s.circuit.commits[m].index
     THEN v[CHOOSE m \in DOMAIN v : k = s.circuit.nbPublic + s.circuit.commits[m].index]
     ELSE Row(s.circuit, k).qk]

LEMMA QkType == ASSUME Instance, NEW v \in Values PROVE QkOf(v) \in Vec(s.n)
<1>1. s.circuit \in Circuits /\ s.n \in Nat /\ HashValues \subseteq F
  BY InstanceIs, ValuesAssumption
<1> SUFFICES ASSUME NEW k \in Upto(s.n) PROVE QkOf(v)[k] \in F
  BY DEF QkOf, Vec
<1> DEFINE hit(m) == k = s.circuit.nbPublic + s.circuit.commits[m].index
           q == IF k < s.circuit.nbPublic THEN s.circuit.witness[v][k]
                ELSE IF \E m \in DOMAIN v : hit(m) THEN v[CHOOSE m \in DOMAIN v : hit(m)]
                ELSE Row(s.circuit, k).qk
<1>2. QkOf(v)[k] = q
  BY DEF QkOf
<1>3. k \in Nat
  BY <1>1, UptoIs
<1>4. CASE k < s.circuit.nbPublic
  <2>1. s.circuit.witness[v][k] \in F
    BY <1>3, <1>4, WiresAre
  <2> QED BY <1>2, <1>4, <2>1
<1>5. CASE ~(k < s.circuit.nbPublic) /\ \E m \in DOMAIN v : hit(m)
  <2>1. \A m \in DOMAIN v : v[m] \in F
    BY <1>1 DEF Values
  <2> HIDE DEF hit
  <2>2. (CHOOSE m \in DOMAIN v : hit(m)) \in DOMAIN v
    BY <1>5
  <2> QED BY <1>2, <1>5, <2>1, <2>2
<1>6. CASE ~(k < s.circuit.nbPublic) /\ ~\E m \in DOMAIN v : hit(m)
  <2>1. Row(s.circuit, k).qk \in F
    BY <1>1, <1>3, RowIs
  <2> HIDE DEF hit
  <2> QED BY <1>2, <1>6, <2>1
<1> QED BY <1>4, <1>5, <1>6

-------------------------------------------------------------------------------
(* The copy-constraint product.                                            *)

\* The polynomials the product reads.
RatioInputs ==
  /\ x.L \in Vec(s.n) /\ x.R \in Vec(s.n) /\ x.O \in Vec(s.n)
  /\ s.trace.S1 \in Vec(s.n) /\ s.trace.S2 \in Vec(s.n) /\ s.trace.S3 \in Vec(s.n)

LEMMA FactorsType ==
  ASSUME Instance, RatioInputs, NEW k \in Nat, NEW id1 \in F, NEW id2 \in F, NEW id3 \in F,
         NEW beta \in F, NEW gamma \in F
  PROVE  Factors(k, id1, id2, id3, beta, gamma) \in F
<1>1. twiddles0(k) \in F /\ s.n \in Nat
  BY TwiddleType, InstanceIs
<1>2. /\ Eval(x.L, twiddles0(k)) \in F /\ Eval(x.R, twiddles0(k)) \in F
      /\ Eval(x.O, twiddles0(k)) \in F
  BY <1>1, EvalType DEF RatioInputs
<1>3. /\ Eval(x.L, twiddles0(k)) (+) beta (.) id1 (+) gamma \in F
      /\ Eval(x.R, twiddles0(k)) (+) beta (.) id2 (+) gamma \in F
      /\ Eval(x.O, twiddles0(k)) (+) beta (.) id3 (+) gamma \in F
  BY <1>2, Closed
<1> QED BY <1>3, Closed DEF Factors

LEMMA TermsType ==
  ASSUME Instance, RatioInputs, NEW k \in Nat, NEW beta \in F, NEW gamma \in F
  PROVE  Numerator(k, beta, gamma) \in F /\ Denominator(k, beta, gamma) \in F
<1>1. twiddles0(k) \in F /\ s.n \in Nat /\ Root \in F
  BY TwiddleType, InstanceIs, RootIs
<1>2. /\ Eval(s.trace.S1, twiddles0(k)) \in F /\ Eval(s.trace.S2, twiddles0(k)) \in F
      /\ Eval(s.trace.S3, twiddles0(k)) \in F
  BY <1>1, EvalType DEF RatioInputs
<1>3. Denominator(k, beta, gamma) \in F
  BY <1>2, FactorsType DEF Denominator
<1>4. Root (.) twiddles0(k) \in F /\ Root (.) Root (.) twiddles0(k) \in F
  BY <1>1, Closed
<1>5. Numerator(k, beta, gamma) \in F
  <2>1. Numerator(k, beta, gamma)
          = Factors(k, twiddles0(k), Root (.) twiddles0(k), Root (.) Root (.) twiddles0(k), beta, gamma)
    BY DEF Numerator
  <2>2. PICK id1 \in F, id2 \in F, id3 \in F :
          id1 = twiddles0(k) /\ id2 = Root (.) twiddles0(k) /\ id3 = Root (.) Root (.) twiddles0(k)
    BY <1>1, <1>4
  <2>3. Factors(k, id1, id2, id3, beta, gamma) \in F
    BY FactorsType
  <2> QED BY <2>1, <2>2, <2>3
<1> QED BY <1>3, <1>5

IsProduct(z, n, num, den) ==
    z = [k \in Upto(n) |-> IF k = 0 THEN 1 ELSE z[k - 1] (.) num[k - 1] (.) Inv(den[k - 1])]

LEMMA ProductExists ==
  ASSUME NEW n \in Nat \ {0}, NEW num \in Vec(n - 1), NEW den \in Vec(n - 1)
  PROVE  \E z \in Vec(n) : IsProduct(z, n, num, den)
<1> DEFINE q == [k \in Nat |-> IF k < n - 1 THEN num[k] (.) Inv(den[k]) ELSE 0]
           num1 == [k \in Nat |-> IF k < n - 1 THEN num[k] ELSE 0]
           inv1 == [k \in Nat |-> IF k < n - 1 THEN Inv(den[k]) ELSE 0]
           G == [c \in Nat \X F |-> c[2] (.) num1[c[1]] (.) inv1[c[1]]]
<1>1. num1 \in [Nat -> F] /\ inv1 \in [Nat -> F]
  <2>1. n - 1 \in Nat
    OBVIOUS
  <2>2. \A k \in Nat : k < n - 1 => num[k] \in F /\ den[k] \in F
    BY <2>1, VecIs
  <2> QED BY <2>2, InvType, ZeroOne
<1>2. IsStep(F, 1, G) /\ \A k \in Nat : \A t \in F : G[<<k, t>>] = t (.) num1[k] (.) inv1[k]
  <2> HIDE DEF num1, inv1
  <2>1. \A c \in Nat \X F : c[2] (.) num1[c[1]] (.) inv1[c[1]] \in F
    BY <1>1, Closed
  <2> QED BY <2>1, ZeroOne DEF IsStep
<1>3. PICK f : Follows(f, F, 1, G)
  <2> HIDE DEF G
  <2> QED BY <1>2, Recursion
<1>4. f \in [Nat -> F] /\ f[0] = 1 /\ \A k \in Nat : f[k + 1] = f[k] (.) num1[k] (.) inv1[k]
  <2> HIDE DEF G, num1, inv1
  <2> QED BY <1>2, <1>3 DEF Follows
<1> DEFINE z == [k \in Upto(n) |-> f[k]]
<1>5. z \in Vec(n)
  BY <1>4, UptoIs DEF Vec
<1>6. IsProduct(z, n, num, den)
  <2> SUFFICES ASSUME NEW k \in Upto(n)
               PROVE  z[k] = IF k = 0 THEN 1 ELSE z[k - 1] (.) num[k - 1] (.) Inv(den[k - 1])
    BY DEF IsProduct
  <2>1. k \in Nat /\ k < n
    BY UptoIs
  <2>2. CASE k = 0
    BY <1>4, <2>2
  <2>3. CASE k # 0
    <3>1. PICK j \in Nat : j = k - 1 /\ k = j + 1 /\ j < n - 1 /\ j \in Upto(n)
      <4>1. k - 1 \in Nat /\ k = (k - 1) + 1 /\ k - 1 < n - 1 /\ k - 1 \in Upto(n)
        BY <2>1, <2>3 DEF Upto
      <4> QED BY <4>1
    <3>2. num1[j] = num[j] /\ inv1[j] = Inv(den[j])
      BY <3>1
    <3> HIDE DEF num1, inv1
    <3>3. z[k] = f[j + 1] /\ z[j] = f[j]
      BY <3>1
    <3> QED BY <1>4, <2>3, <3>1, <3>2, <3>3
  <2> QED BY <2>2, <2>3
<1> QED BY <1>5, <1>6

LEMMA ProductUnique ==
  ASSUME NEW n \in Nat \ {0}, NEW num, NEW den, NEW y \in Vec(n), NEW z \in Vec(n),
         y[0] = z[0],
         \A k \in Nat : k + 1 < n => y[k + 1] = y[k] (.) num[k] (.) Inv(den[k]),
         \A k \in Nat : k + 1 < n => z[k + 1] = z[k] (.) num[k] (.) Inv(den[k])
  PROVE  y = z
<1> DEFINE P == {k \in Nat : k < n => y[k] = z[k]}
<1>1. 0 \in P
  OBVIOUS
<1>2. ASSUME NEW k \in Nat, k \in P PROVE k + 1 \in P
  BY <1>2
<1>3. Nat \subseteq P
  <2> HIDE DEF P
  <2> QED BY <1>1, <1>2, Induction
<1>4. \A k \in Upto(n) : y[k] = z[k]
  BY <1>3, UptoIs
<1> QED BY <1>4 DEF Vec

\* The products of BuildRatioCopyConstraint, and the shim's scans.
LEMMA CopyRatioIs ==
  ASSUME Instance, RatioInputs, NEW beta \in F, NEW gamma \in F
  PROVE  /\ CopyRatio(beta, gamma) \in Vec(s.n)
         /\ LET num == [k \in Upto(s.n - 1) |-> Numerator(k, beta, gamma)]
                den == [k \in Upto(s.n - 1) |-> Denominator(k, beta, gamma)]
            IN  /\ num \in Vec(s.n - 1) /\ den \in Vec(s.n - 1)
                /\ (\A k \in Upto(s.n - 1) : Denominator(k, beta, gamma) # 0)
                      => RatioCopyConstraint(num, den, s.n) = CopyRatio(beta, gamma)
<1>1. s.n \in Nat \ {0} /\ s.n - 1 \in Nat
  BY InstanceIs
<1> DEFINE num == [k \in Upto(s.n - 1) |-> Numerator(k, beta, gamma)]
           den == [k \in Upto(s.n - 1) |-> Denominator(k, beta, gamma)]
           C   == CopyRatio(beta, gamma)
           body(z) == [k \in Upto(s.n) |->
                         IF k = 0 THEN 1
                         ELSE z[k - 1] (.) Numerator(k - 1, beta, gamma)
                                (.) Inv(Denominator(k - 1, beta, gamma))]
           zz  == CHOOSE z : z = body(z)
<1>2. num \in Vec(s.n - 1) /\ den \in Vec(s.n - 1)
  BY <1>1, UptoIs, TermsType DEF Vec
<1>3. \A z : body(z) = [k \in Upto(s.n) |-> IF k = 0 THEN 1
                          ELSE z[k - 1] (.) num[k - 1] (.) Inv(den[k - 1])]
  <2> TAKE z
  <2>1. \A k \in Upto(s.n) : k # 0 => k - 1 \in Upto(s.n - 1)
    BY <1>1 DEF Upto
  <2>2. \A k \in Upto(s.n) : k # 0 => /\ num[k - 1] = Numerator(k - 1, beta, gamma)
                                      /\ den[k - 1] = Denominator(k - 1, beta, gamma)
    BY <2>1
  <2> HIDE DEF num, den
  <2> QED BY <2>2
<1>4. \A z : z = body(z) <=> IsProduct(z, s.n, num, den)
  <2> HIDE DEF num, den, body
  <2> QED BY <1>3 DEF IsProduct
<1>5. PICK z0 \in Vec(s.n) : IsProduct(z0, s.n, num, den)
  <2> HIDE DEF num, den
  <2> QED BY <1>1, <1>2, ProductExists
<1>6. IsProduct(zz, s.n, num, den)
  <2> HIDE DEF num, den, body
  <2> QED BY <1>4, <1>5
<1>7. C = [k \in Upto(s.n) |-> zz[k]]
  BY DEF CopyRatio
<1> HIDE DEF zz
<1>8. /\ \A z : IsProduct(z, s.n, num, den) =>
           /\ z[0] = 1 /\ DOMAIN z = Upto(s.n) /\ z = [k \in Upto(s.n) |-> z[k]]
           /\ \A k \in Nat : k + 1 < s.n => z[k + 1] = z[k] (.) num[k] (.) Inv(den[k])
  <2> HIDE DEF num, den
  <2> SUFFICES ASSUME NEW z, IsProduct(z, s.n, num, den)
               PROVE  /\ z[0] = 1 /\ DOMAIN z = Upto(s.n) /\ z = [k \in Upto(s.n) |-> z[k]]
                      /\ \A k \in Nat : k + 1 < s.n => z[k + 1] = z[k] (.) num[k] (.) Inv(den[k])
    OBVIOUS
  <2>1. 0 \in Upto(s.n) /\ \A k \in Nat : k + 1 < s.n =>
            k + 1 \in Upto(s.n) /\ k + 1 # 0 /\ (k + 1) - 1 = k
    BY <1>1 DEF Upto
  <2>2. DOMAIN z = Upto(s.n) /\ z = [k \in Upto(s.n) |-> z[k]]
    BY DEF IsProduct
  <2>3. \A k \in Upto(s.n) : z[k] = IF k = 0 THEN 1 ELSE z[k - 1] (.) num[k - 1] (.) Inv(den[k - 1])
    BY DEF IsProduct
  <2> QED BY <2>1, <2>2, <2>3
<1>9. C = zz
  <2> HIDE DEF num, den, C
  <2> QED BY <1>6, <1>7, <1>8
<1> DEFINE Q == {k \in Nat : k < s.n => zz[k] = z0[k]}
<1>10. zz = z0
  <2> HIDE DEF num, den
  <2>1. 0 \in Q
    BY <1>5, <1>6, <1>8
  <2>2. ASSUME NEW k \in Nat, k \in Q PROVE k + 1 \in Q
    <3> SUFFICES ASSUME k + 1 < s.n PROVE zz[k + 1] = z0[k + 1]
      OBVIOUS
    <3>1. zz[k] = z0[k]
      BY <1>1, <2>2
    <3>2. zz[k + 1] = zz[k] (.) num[k] (.) Inv(den[k])
      BY <1>6, <1>8
    <3>3. z0[k + 1] = z0[k] (.) num[k] (.) Inv(den[k])
      BY <1>5, <1>8
    <3> QED BY <3>1, <3>2, <3>3
  <2>3. Nat \subseteq Q
    <3> HIDE DEF Q
    <3> QED BY <2>1, <2>2, Induction
  <2>4. \A k \in Upto(s.n) : zz[k] = z0[k]
    BY <1>1, <2>3, UptoIs
  <2>5. zz = [k \in Upto(s.n) |-> zz[k]] /\ z0 = [k \in Upto(s.n) |-> z0[k]]
    BY <1>5, <1>6, <1>8
  <2> HIDE DEF Q
  <2> QED BY <2>4, <2>5
<1>11. ASSUME \A k \in Upto(s.n - 1) : Denominator(k, beta, gamma) # 0
       PROVE  RatioCopyConstraint(num, den, s.n) = C
  <2>1. den \in [Upto(s.n - 1) -> F \ {0}]
    BY <1>2, <1>11 DEF Vec
  <2> DEFINE y == RatioCopyConstraint(num, den, s.n)
  <2>2. /\ y \in Vec(s.n) /\ y[0] = 1
        /\ \A k \in Upto(s.n - 1) : y[k + 1] = y[k] (.) num[k] (.) Inv(den[k])
    <3>1. s.n \in Nat \ {0, 1}
      <4> HIDE DEF num, den
      <4> QED BY InstanceIs
    <3> HIDE DEF num, den
    <3> QED BY <1>2, <2>1, <3>1, RatioCopyConstraintThm
  <2>3. \A k \in Nat : k + 1 < s.n => y[k + 1] = y[k] (.) num[k] (.) Inv(den[k])
    <3>1. \A k \in Nat : k + 1 < s.n => k \in Upto(s.n - 1)
      BY <1>1 DEF Upto
    <3> HIDE DEF y, num, den
    <3> QED BY <2>2, <3>1
  <2>4. C \in Vec(s.n) /\ C[0] = 1
        /\ \A k \in Nat : k + 1 < s.n => C[k + 1] = C[k] (.) num[k] (.) Inv(den[k])
    <3> HIDE DEF num, den, C
    <3> QED BY <1>5, <1>8, <1>9, <1>10
  <2> HIDE DEF y, num, den, C
  <2> QED BY <1>1, <2>2, <2>3, <2>4, ProductUnique DEF y
<1>12. C \in Vec(s.n)
  <2> HIDE DEF C
  <2> QED BY <1>5, <1>9, <1>10
<1> HIDE DEF C
<1> QED BY <1>2, <1>11, <1>12 DEF C

-------------------------------------------------------------------------------
(* The quotient and the linearised polynomial.                             *)

LEMMA QuotientType ==
  ASSUME Instance, NEW a \in Vec(s.big)
  PROVE  divideByZH(a) \in Vec(s.big)
<1>1. /\ Order(s.big) /\ s.big \in Nat \ {0} /\ PowerOfTwo(s.big) /\ s.n \in Nat
      /\ s.rho \in Nat \ {0}
  BY InstanceIs, SizePositive
<1>2. \A k \in Nat : XnMinusOneInverse(k) \in F
  <2> TAKE k \in Nat
  <2>1. Root \in F /\ Generator(s.big) \in F
    BY <1>1, RootIs, GeneratorIs
  <2>2. Power(Root, s.n) \in F /\ Power(Generator(s.big), s.n) \in F
    BY <1>1, <2>1, PowerLaws
  <2>3. Power(Power(Generator(s.big), s.n), k) \in F
    BY <2>2, PowerLaws
  <2>4. Power(Root, s.n) (.) Power(Power(Generator(s.big), s.n), k) (-) 1 \in F
    BY <2>2, <2>3, ZeroOne, Closed
  <2> QED BY <2>4, InvType DEF XnMinusOneInverse
<1>3. \A k \in Upto(s.big) : BitReverse(k, s.big) \in Upto(s.big)
  BY <1>1, BitReverseType
<1> DEFINE r == [k \in DOMAIN a |-> a[k] (.) XnMinusOneInverse(BitReverse(k, s.big) % s.rho)]
           v == [k \in DOMAIN r |-> r[BitReverse(k, s.big)]]
<1>4. r \in Vec(s.big)
  <2>1. \A k \in Upto(s.big) : BitReverse(k, s.big) % s.rho \in Nat
    BY <1>1, <1>3, UptoIs, ModNat
  <2>2. \A k \in Upto(s.big) : a[k] (.) XnMinusOneInverse(BitReverse(k, s.big) % s.rho) \in F
    BY <1>2, <2>1, Closed DEF Vec
  <2> QED BY <2>2 DEF Vec
<1>5. v \in Vec(s.big)
  <2> HIDE DEF r
  <2> QED BY <1>3, <1>4 DEF Vec
<1>6. divideByZH(a) = Interpolate(v, Root)
  BY DEF divideByZH
<1> HIDE DEF v
<1> QED BY <1>1, <1>5, <1>6, RootIs, InterpolateIs

LEMMA ShardType ==
  ASSUME Instance, NEW q \in Vec(s.big), NEW k \in {0, 1, 2}, NEW lo \in F
  PROVE  Shard(q, k, lo) \in Vec(s.n + 2)
<1>1. s.n \in Nat /\ s.big \in Nat /\ 3 * (s.n + 2) <= s.big
  BY InstanceIs
<1> SUFFICES ASSUME NEW j \in Upto(s.n + 2)
             PROVE  q[k * (s.n + 2) + j] (-) (IF j = 0 THEN lo ELSE 0) \in F
  BY DEF Shard, Vec
<1>2. PICK n \in Nat : n = s.n
  BY <1>1
<1>3. j \in Nat /\ j < n + 2
  BY <1>2 DEF Upto
<1>4. PICK y \in Nat : y = k * (s.n + 2) + j /\ y < s.big
  <2>1. k * (s.n + 2) + j \in Nat /\ k * (s.n + 2) + j < s.big
    <3>1. CASE k = 0
      BY <1>1, <1>2, <1>3, <3>1
    <3>2. CASE k = 1
      BY <1>1, <1>2, <1>3, <3>2
    <3>3. CASE k = 2
      BY <1>1, <1>2, <1>3, <3>3
    <3> QED BY <3>1, <3>2, <3>3
  <2> QED BY <2>1
<1>5. q[y] \in F
  BY <1>1, <1>4, VecIs
<1> QED BY <1>4, <1>5, ZeroOne, Closed

LEMMA ShardsAre ==
  ASSUME Instance, NEW q \in Vec(s.big)
  PROVE  /\ h3(q) \in Vec(s.n + 2)
         /\ h1(q) \in Vec(IF s.zk THEN s.n + 3 ELSE s.n + 2)
         /\ h2(q) \in Vec(IF s.zk THEN s.n + 3 ELSE s.n + 2)
<1>1. s.n \in Nat /\ s.rnd[1] \in F /\ s.rnd[2] \in F /\ s.zk \in BOOLEAN
  BY InstanceIs
<1>2. ASSUME NEW p \in Vec(s.n + 2), NEW hi \in F
      PROVE  Topped(p, hi) \in Vec(IF s.zk THEN s.n + 3 ELSE s.n + 2)
  <2> DEFINE top == [j \in {0} |-> hi]
  <2>1. top \in Vec(1)
    <3>1. Upto(1) = {0}
      BY DEF Upto
    <3> QED BY <3>1 DEF Vec
  <2>2. s.n + 2 \in Nat /\ 1 \in Nat /\ (s.n + 2) + 1 = s.n + 3
    BY <1>1
  <2>3. Concat(p, top) \in Vec((s.n + 2) + 1)
    <3> HIDE DEF top
    <3> QED BY <2>1, <2>2, EvalConcat
  <2> QED BY <1>1, <2>2, <2>3 DEF Topped
<1>3. /\ Shard(q, 0, 0) \in Vec(s.n + 2) /\ Shard(q, 1, s.rnd[1]) \in Vec(s.n + 2)
      /\ Shard(q, 2, s.rnd[2]) \in Vec(s.n + 2)
  BY <1>1, ZeroOne, ShardType
<1> QED BY <1>1, <1>2, <1>3 DEF h1, h2, h3

Scaled(sc) ==
  /\ sc.s1 \in F /\ sc.s2 \in F /\ sc.rl \in F /\ sc.l \in F /\ sc.r \in F /\ sc.o \in F
  /\ sc.alpha2Lag \in F /\ sc.zhZeta \in F /\ sc.zetaNPlusTwo \in F

\* The terms of one coefficient of the linearised polynomial.
Bsb(k, qz)   == Total([m \in DOMAIN x.Pi2 |-> x.Pi2[m][k] (.) qz[m]])
Gates(k, sc, qz) ==
    x.Qm[k] (.) sc.rl (+) x.Ql[k] (.) sc.l (+) x.Qr[k] (.) sc.r (+) x.Qo[k] (.) sc.o
      (+) s.trace.Qk[k] (+) Bsb(k, qz)
Folded(k, sc) ==
    IF k < Size(h3(h))
    THEN (h3(h)[k] (.) sc.zetaNPlusTwo (+) h2(h)[k]) (.) sc.zetaNPlusTwo (+) h1(h)[k]
    ELSE IF s.zk THEN h2(h)[k] (.) sc.zetaNPlusTwo (+) h1(h)[k] ELSE 0
At(p, k) == IF k < Size(p) THEN p[k] ELSE 0

LEMMA LinearizedTerms ==
  ASSUME Instance, Complete(x), NEW m \in Nat, Commits = Upto(m), h \in Vec(s.big),
         NEW sc, Scaled(sc), NEW qz \in Vec(m), NEW bz \in Vec(s.n + 3)
  PROVE  /\ innerComputeLinearizedPoly(sc, qz, bz)
              = [k \in Upto(s.n + 3) |->
                   bz[k] (.) sc.s2 (+) At(x.S3, k) (.) sc.s1
                     (+) (IF k < s.n THEN Gates(k, sc, qz) ELSE 0) (+) bz[k] (.) sc.alpha2Lag
                     (-) Folded(k, sc) (.) sc.zhZeta]
         /\ \A k \in Upto(s.n) : /\ x.Qm[k] \in F /\ x.Ql[k] \in F /\ x.Qr[k] \in F
                                 /\ x.Qo[k] \in F /\ s.trace.Qk[k] \in F /\ Bsb(k, qz) \in F
         /\ \A k \in Upto(s.n + 3) : bz[k] \in F /\ At(x.S3, k) \in F /\ Folded(k, sc) \in F
<1>1. s.n \in Nat /\ s.n + 2 \in Nat /\ s.n + 3 \in Nat /\ s.zk \in BOOLEAN /\ DOMAIN bz = Upto(s.n + 3)
  BY InstanceIs, VecIs
<1>2. innerComputeLinearizedPoly(sc, qz, bz)
        = [k \in Upto(s.n + 3) |->
             bz[k] (.) sc.s2 (+) At(x.S3, k) (.) sc.s1
               (+) (IF k < s.n THEN Gates(k, sc, qz) ELSE 0) (+) bz[k] (.) sc.alpha2Lag
               (-) Folded(k, sc) (.) sc.zhZeta]
  BY <1>1 DEF innerComputeLinearizedPoly, At, Gates, Bsb, Folded
<1>3. /\ x.Qm \in Vec(s.n) /\ x.Ql \in Vec(s.n) /\ x.Qr \in Vec(s.n) /\ x.Qo \in Vec(s.n)
      /\ x.S3 \in Vec(s.n) /\ x.Pi2 \in [Upto(m) -> Vec(s.n)] /\ s.trace.Qk \in Vec(s.n)
  <2>1. s.trace.Qk \in Vec(s.n)
    BY InstanceIs, TraceType DEF Selectors
  <2> QED BY <2>1 DEF Complete, AllFields, Selectors, Vectors
<1>4. ASSUME NEW k \in Upto(s.n)
      PROVE  /\ x.Qm[k] \in F /\ x.Ql[k] \in F /\ x.Qr[k] \in F
             /\ x.Qo[k] \in F /\ s.trace.Qk[k] \in F /\ Bsb(k, qz) \in F
  <2>1. /\ x.Qm[k] \in F /\ x.Ql[k] \in F /\ x.Qr[k] \in F /\ x.Qo[k] \in F
        /\ s.trace.Qk[k] \in F
    BY <1>3 DEF Vec
  <2> DEFINE t == [j \in DOMAIN x.Pi2 |-> x.Pi2[j][k] (.) qz[j]]
  <2>2. t \in Vec(m)
    <3>1. \A j \in Upto(m) : x.Pi2[j][k] \in F /\ qz[j] \in F
      BY <1>3 DEF Vec
    <3> QED BY <1>3, <3>1, Closed DEF Vec
  <2>3. Total(t) \in F
    <3> HIDE DEF t
    <3> QED BY <2>2, TotalType
  <2> QED BY <2>1, <2>3 DEF Bsb
<1>5. ASSUME NEW k \in Upto(s.n + 3)
      PROVE  bz[k] \in F /\ At(x.S3, k) \in F /\ Folded(k, sc) \in F
  <2>1. k \in Nat /\ k < s.n + 3 /\ bz[k] \in F
    BY <1>1, UptoIs DEF Vec
  <2>2. At(x.S3, k) \in F
    BY <1>1, <1>3, <2>1, VecIs, ZeroOne DEF At
  <2>3. Folded(k, sc) \in F
    <3>1. Size(h3(h)) = s.n + 2 /\ h3(h) \in Vec(s.n + 2)
      BY <1>1, ShardsAre, VecIs
    <3>2. sc.zetaNPlusTwo \in F
      BY DEF Scaled
    <3>3. CASE s.zk
      <4>1. h1(h) \in Vec(s.n + 3) /\ h2(h) \in Vec(s.n + 3)
        BY <3>3, ShardsAre
      <4>2. h1(h)[k] \in F /\ h2(h)[k] \in F /\ (k < s.n + 2 => h3(h)[k] \in F)
        BY <1>1, <2>1, <3>1, <4>1, VecIs
      <4> QED BY <3>1, <3>2, <3>3, <4>2, Closed DEF Folded
    <3>4. CASE ~s.zk
      <4>1. h1(h) \in Vec(s.n + 2) /\ h2(h) \in Vec(s.n + 2)
        BY <3>4, ShardsAre
      <4>2. k < s.n + 2 => h1(h)[k] \in F /\ h2(h)[k] \in F /\ h3(h)[k] \in F
        BY <1>1, <2>1, <3>1, <4>1, VecIs
      <4> QED BY <3>1, <3>2, <3>4, <4>2, Closed, ZeroOne DEF Folded
    <3> QED BY <3>3, <3>4
  <2> QED BY <2>1, <2>2, <2>3
<1> QED BY <1>2, <1>4, <1>5

LEMMA LinearizedType ==
  ASSUME Instance, Complete(x), NEW m \in Nat, Commits = Upto(m), h \in Vec(s.big),
         NEW sc, Scaled(sc), NEW qz \in Vec(m), NEW bz \in Vec(s.n + 3)
  PROVE  innerComputeLinearizedPoly(sc, qz, bz) \in Vec(s.n + 3)
<1>1. s.n \in Nat
  BY InstanceIs
<1> DEFINE p == innerComputeLinearizedPoly(sc, qz, bz)
           e(k) == bz[k] (.) sc.s2 (+) At(x.S3, k) (.) sc.s1
                     (+) (IF k < s.n THEN Gates(k, sc, qz) ELSE 0) (+) bz[k] (.) sc.alpha2Lag
                     (-) Folded(k, sc) (.) sc.zhZeta
<1>2. p = [k \in Upto(s.n + 3) |-> e(k)]
  BY LinearizedTerms
<1>3. ASSUME NEW k \in Upto(s.n + 3) PROVE e(k) \in F
  <2>1. bz[k] \in F /\ At(x.S3, k) \in F /\ Folded(k, sc) \in F
    BY LinearizedTerms
  <2>2. /\ sc.s1 \in F /\ sc.s2 \in F /\ sc.rl \in F /\ sc.l \in F /\ sc.r \in F /\ sc.o \in F
        /\ sc.alpha2Lag \in F /\ sc.zhZeta \in F
    BY DEF Scaled
  <2>3. (IF k < s.n THEN Gates(k, sc, qz) ELSE 0) \in F
    <3>1. ASSUME k < s.n PROVE Gates(k, sc, qz) \in F
      <4>1. k \in Upto(s.n)
        BY <1>1, <3>1 DEF Upto
      <4>2. /\ x.Qm[k] \in F /\ x.Ql[k] \in F /\ x.Qr[k] \in F
            /\ x.Qo[k] \in F /\ s.trace.Qk[k] \in F /\ Bsb(k, qz) \in F
        BY <4>1, LinearizedTerms
      <4>3. /\ x.Qm[k] (.) sc.rl \in F /\ x.Ql[k] (.) sc.l \in F /\ x.Qr[k] (.) sc.r \in F
            /\ x.Qo[k] (.) sc.o \in F
        BY <2>2, <4>2, Closed
      <4> QED BY <4>2, <4>3, Closed DEF Gates
    <3> QED BY <3>1, ZeroOne
  <2>4. /\ bz[k] (.) sc.s2 \in F /\ At(x.S3, k) (.) sc.s1 \in F /\ bz[k] (.) sc.alpha2Lag \in F
        /\ Folded(k, sc) (.) sc.zhZeta \in F
    BY <2>1, <2>2, Closed
  <2> QED BY <2>3, <2>4, Closed
<1> HIDE DEF p, e
<1>4. p \in Vec(s.n + 3)
  BY <1>2, <1>3 DEF Vec
<1> QED BY <1>4 DEF p

\* The challenges.
Challenged == /\ chal.alpha \in F /\ chal.beta \in F /\ chal.gamma \in F
              /\ chal.zeta \in F \ {0}

LEMMA ScalarsType ==
  ASSUME Instance, Complete(x), Challenged, NEW l \in F, NEW r \in F, NEW o \in F, NEW zu \in F
  PROVE  Scaled(Scalars(l, r, o, zu))
<1>1. s.n \in Nat /\ s.n \in F /\ Root \in F /\ 1 \in F /\ 0 \in F
  BY InstanceIs, OrderIs, RootIs, ZeroOne
<1> DEFINE alpha == chal.alpha
           beta  == chal.beta
           gamma == chal.gamma
           zeta  == chal.zeta
           uzeta == zeta (.) Root
           zn    == Power(zeta, s.n)
           e1    == Eval(x.S1, zeta)
           e2    == Eval(x.S2, zeta)
           plus(a, id) == a (+) beta (.) id (+) gamma
<1>2. alpha \in F /\ beta \in F /\ gamma \in F /\ zeta \in F
  BY DEF Challenged
<1>3. uzeta \in F /\ zn \in F /\ e1 \in F /\ e2 \in F
  <2>1. x.S1 \in Vec(s.n) /\ x.S2 \in Vec(s.n)
    BY DEF Complete, AllFields, Selectors
  <2> QED BY <1>1, <1>2, <2>1, PowerLaws, EvalType, Closed
<1>4. Scalars(l, r, o, zu)
        = [s1 |-> plus(l, e1) (.) plus(r, e2) (.) zu (.) beta (.) alpha,
           s2 |-> 0 (-) plus(l, zeta) (.) plus(r, uzeta) (.) plus(o, uzeta (.) Root) (.) alpha,
           rl |-> r (.) l, l |-> l, r |-> r, o |-> o,
           alpha2Lag |-> (zn (-) 1) (.) Inv(zeta (-) 1) (.) alpha (.) alpha (.) Inv(s.n),
           zhZeta |-> zn (-) 1,
           zetaNPlusTwo |-> zn (.) zeta (.) zeta]
  BY DEF Scalars
<1> HIDE DEF alpha, beta, gamma, zeta, uzeta, zn, e1, e2
<1>5. \A a, id \in F : plus(a, id) \in F
  BY <1>2, Closed
<1> HIDE DEF plus
<1>6. uzeta (.) Root \in F
  BY <1>1, <1>3, Closed
<1>7. plus(l, e1) (.) plus(r, e2) (.) zu (.) beta (.) alpha \in F
  <2>1. plus(l, e1) \in F /\ plus(r, e2) \in F
    BY <1>3, <1>5
  <2> QED BY <1>2, <2>1, Closed
<1>8. 0 (-) plus(l, zeta) (.) plus(r, uzeta) (.) plus(o, uzeta (.) Root) (.) alpha \in F
  <2>1. plus(l, zeta) \in F /\ plus(r, uzeta) \in F /\ plus(o, uzeta (.) Root) \in F
    BY <1>2, <1>3, <1>5, <1>6
  <2> QED BY <1>1, <1>2, <2>1, Closed
<1>9. (zn (-) 1) (.) Inv(zeta (-) 1) (.) alpha (.) alpha (.) Inv(s.n) \in F
  <2>1. zn (-) 1 \in F /\ Inv(zeta (-) 1) \in F /\ Inv(s.n) \in F
    BY <1>1, <1>2, <1>3, Closed, InvType
  <2> QED BY <1>2, <2>1, Closed
<1>10. r (.) l \in F /\ zn (-) 1 \in F /\ zn (.) zeta (.) zeta \in F
  BY <1>1, <1>2, <1>3, Closed
<1> QED BY <1>4, <1>7, <1>8, <1>9, <1>10 DEF Scaled

LEMMA OpeningsType ==
  ASSUME Instance, Complete(x), Blinders(bp), chal.zeta \in F, NEW m \in Nat, Commits = Upto(m)
  PROVE  Openings.l \in F /\ Openings.r \in F /\ Openings.o \in F /\ Openings.qcp \in Vec(m)
<1>1. s.n \in Nat /\ 2 \in Nat /\ Power(chal.zeta, s.n) (-) 1 \in F
  <2>1. s.n \in Nat
    BY InstanceIs
  <2> QED BY <2>1, PowerLaws, ZeroOne, Closed
<1>2. ASSUME NEW p \in Vec(s.n), NEW b \in Vec(2) PROVE evaluateBlinded(p, b, chal.zeta) \in F
  <2>1. Eval(p, chal.zeta) \in F /\ Eval(b, chal.zeta) \in F
    BY <1>1, EvalType
  <2> QED BY <1>1, <2>1, Closed DEF evaluateBlinded
<1>3. x.L \in Vec(s.n) /\ x.R \in Vec(s.n) /\ x.O \in Vec(s.n)
      /\ x.Qcp \in [Upto(m) -> Vec(s.n)]
  BY DEF Complete, AllFields, Vectors
<1>4. bp.L \in Vec(2) /\ bp.R \in Vec(2) /\ bp.O \in Vec(2)
  BY DEF Blinders
<1> DEFINE q == [j \in DOMAIN x.Qcp |-> Eval(x.Qcp[j], chal.zeta)]
<1>5. q \in Vec(m)
  <2>1. \A j \in Upto(m) : Eval(x.Qcp[j], chal.zeta) \in F
    BY <1>1, <1>3, EvalType
  <2> QED BY <1>3, <2>1 DEF Vec
<1>6. Openings.qcp = q
  BY DEF Openings
<1> HIDE DEF q
<1>7. /\ Openings.l = evaluateBlinded(x.L, bp.L, chal.zeta)
      /\ Openings.r = evaluateBlinded(x.R, bp.R, chal.zeta)
      /\ Openings.o = evaluateBlinded(x.O, bp.O, chal.zeta)
  BY DEF Openings
<1> QED BY <1>2, <1>3, <1>4, <1>5, <1>6, <1>7

-------------------------------------------------------------------------------
(* The device's linearised polynomial.                                     *)

LEMMA SumOfMods ==
  \A a, b \in Int : Mod(a) (+) Mod(b) = Mod(a + b) /\ Mod(a) (-) Mod(b) = Mod(a - b)
BY ModOps

\* The two orders in which the host and the kernel add the terms.
SameSum(a, b, c, d, e, g, k, t, y, w) ==
    a (+) b (+) (c (+) d (+) e (+) g (+) k (+) t) (+) (y (-) w)
      = ((a (+) y) (+) b (+) c (+) d (+) e (+) g (+) (k (-) w)) (+) t

LEMMA Rearranged ==
  ASSUME NEW a \in F, NEW b \in F, NEW c \in F, NEW d \in F, NEW e \in F, NEW g \in F,
         NEW k \in F, NEW t \in F, NEW y \in F, NEW w \in F
  PROVE  SameSum(a, b, c, d, e, g, k, t, y, w)
<1>1. /\ a = Mod(a) /\ b = Mod(b) /\ c = Mod(c) /\ d = Mod(d) /\ e = Mod(e) /\ g = Mod(g)
      /\ k = Mod(k) /\ t = Mod(t) /\ y = Mod(y) /\ w = Mod(w)
      /\ a \in Int /\ b \in Int /\ c \in Int /\ d \in Int /\ e \in Int /\ g \in Int
      /\ k \in Int /\ t \in Int /\ y \in Int /\ w \in Int
  BY ModOfElement
<1>2. c (+) d (+) e (+) g (+) k (+) t = Mod(c + d + e + g + k + t)
  <2>1. c (+) d = Mod(c + d)
    BY ONLY <1>1, SumOfMods
  <2>2. Mod(c + d) (+) e = Mod(c + d + e)
    BY ONLY <1>1, SumOfMods
  <2>3. Mod(c + d + e) (+) g = Mod(c + d + e + g)
    BY ONLY <1>1, SumOfMods
  <2>4. Mod(c + d + e + g) (+) k = Mod(c + d + e + g + k)
    BY ONLY <1>1, SumOfMods
  <2>5. Mod(c + d + e + g + k) (+) t = Mod(c + d + e + g + k + t)
    BY ONLY <1>1, SumOfMods
  <2> QED BY ONLY <2>1, <2>2, <2>3, <2>4, <2>5
<1>3. PICK u \in Int : u = c + d + e + g + k + t
  BY <1>1
<1>4. a (+) b (+) Mod(u) (+) (y (-) w) = Mod(a + b + u + (y - w))
  <2>1. a (+) b = Mod(a + b) /\ y (-) w = Mod(y - w)
    BY ONLY <1>1, SumOfMods
  <2>2. Mod(a + b) (+) Mod(u) = Mod(a + b + u)
    BY ONLY <1>1, u \in Int, SumOfMods
  <2>3. Mod(a + b + u) (+) Mod(y - w) = Mod(a + b + u + (y - w))
    BY ONLY <1>1, u \in Int, SumOfMods
  <2> QED BY ONLY <2>1, <2>2, <2>3
<1>5. (a (+) y) (+) b (+) c (+) d (+) e (+) g (+) (k (-) w)
        = Mod(a + y + b + c + d + e + g + (k - w))
  <2>1. a (+) y = Mod(a + y) /\ k (-) w = Mod(k - w)
    BY ONLY <1>1, SumOfMods
  <2>2. Mod(a + y) (+) b = Mod(a + y + b)
    BY ONLY <1>1, SumOfMods
  <2>3. Mod(a + y + b) (+) c = Mod(a + y + b + c)
    BY ONLY <1>1, SumOfMods
  <2>4. Mod(a + y + b + c) (+) d = Mod(a + y + b + c + d)
    BY ONLY <1>1, SumOfMods
  <2>5. Mod(a + y + b + c + d) (+) e = Mod(a + y + b + c + d + e)
    BY ONLY <1>1, SumOfMods
  <2>6. Mod(a + y + b + c + d + e) (+) g = Mod(a + y + b + c + d + e + g)
    BY ONLY <1>1, SumOfMods
  <2>7. Mod(a + y + b + c + d + e + g) (+) Mod(k - w) = Mod(a + y + b + c + d + e + g + (k - w))
    BY ONLY <1>1, SumOfMods
  <2> QED BY ONLY <2>1, <2>2, <2>3, <2>4, <2>5, <2>6, <2>7
<1>6. Mod(a + y + b + c + d + e + g + (k - w)) (+) t
        = Mod(a + y + b + c + d + e + g + (k - w) + t)
  BY ONLY <1>1, SumOfMods
<1>7. a + b + u + (y - w) = a + y + b + c + d + e + g + (k - w) + t
  BY ONLY <1>1, <1>3
<1> QED BY ONLY <1>2, <1>3, <1>4, <1>5, <1>6, <1>7 DEF SameSum

LEMMA RearrangedShort ==
  ASSUME NEW a \in F, NEW y \in F, NEW w \in F
  PROVE  a (+) 0 (+) 0 (+) (y (-) w)
           = ((a (+) y) (+) 0 (+) 0 (+) 0 (+) 0 (+) 0 (+) (0 (-) w)) (+) 0
<1>1. 0 \in F /\ 0 (+) 0 = 0
  BY ZeroOne, Neutral
<1>2. SameSum(a, 0, 0, 0, 0, 0, 0, 0, y, w)
  BY ONLY <1>1, a \in F, y \in F, w \in F, Rearranged
<1> QED BY ONLY <1>1, <1>2 DEF SameSum

LEMMA DeviceLinearizes ==
  ASSUME Instance, Complete(x), AllFields \subseteq DOMAIN x, NEW m \in Nat, Commits = Upto(m),
         h \in Vec(s.big), ~s.zk, NEW sc, Scaled(sc), NEW qz \in Vec(m), NEW bz \in Vec(s.n + 3)
  PROVE  LET hFolded == FoldQuotient(h1(h), h2(h), h3(h), sc.zetaNPlusTwo)
             device  == LinearizedPoly(bz, [x EXCEPT !.Qk = s.trace.Qk], hFolded, sc)
         IN  innerComputeLinearizedPoly(sc, qz, bz)
               = [k \in DOMAIN device |-> device[k] (+) (IF k < s.n THEN Bsb(k, qz) ELSE 0)]
<1> DEFINE hf  == FoldQuotient(h1(h), h2(h), h3(h), sc.zetaNPlusTwo)
           tt  == [x EXCEPT !.Qk = s.trace.Qk]
           dev == LinearizedPoly(bz, tt, hf, sc)
           host(k) == bz[k] (.) sc.s2 (+) At(x.S3, k) (.) sc.s1
                        (+) (IF k < s.n THEN Gates(k, sc, qz) ELSE 0) (+) bz[k] (.) sc.alpha2Lag
                        (-) Folded(k, sc) (.) sc.zhZeta
           kern(k) == bz[k] (.) (sc.s2 (+) sc.alpha2Lag) (+) At(tt.S3, k) (.) sc.s1
                        (+) At(tt.Qm, k) (.) sc.rl (+) At(tt.Ql, k) (.) sc.l
                        (+) At(tt.Qr, k) (.) sc.r (+) At(tt.Qo, k) (.) sc.o
                        (+) At(tt.Qk, k) (-) At(hf, k) (.) sc.zhZeta
<1>1. s.n \in Nat /\ s.n + 2 \in Nat /\ s.n + 3 \in Nat /\ DOMAIN bz = Upto(s.n + 3)
  BY InstanceIs, VecIs
<1>2. /\ tt.S3 = x.S3 /\ tt.Qm = x.Qm /\ tt.Ql = x.Ql /\ tt.Qr = x.Qr /\ tt.Qo = x.Qo
      /\ tt.Qk = s.trace.Qk
  BY DEF AllFields, Selectors
<1> HIDE DEF tt
<1>3. dev = [k \in Upto(s.n + 3) |-> kern(k)]
  BY <1>1 DEF LinearizedPoly, At
<1>4. innerComputeLinearizedPoly(sc, qz, bz) = [k \in Upto(s.n + 3) |-> host(k)]
  BY LinearizedTerms
<1>5. /\ Size(x.S3) = s.n /\ Size(x.Qm) = s.n /\ Size(x.Ql) = s.n /\ Size(x.Qr) = s.n
      /\ Size(x.Qo) = s.n /\ Size(s.trace.Qk) = s.n
  <2>1. s.trace.Qk \in Vec(s.n)
    BY InstanceIs, TraceType DEF Selectors
  <2> QED BY <1>1, <2>1, VecIs DEF Complete, AllFields, Selectors
<1>6. h1(h) \in Vec(s.n + 2) /\ h2(h) \in Vec(s.n + 2) /\ h3(h) \in Vec(s.n + 2)
  BY ShardsAre
<1>7. hf = [k \in Upto(s.n + 2) |-> (h3(h)[k] (.) sc.zetaNPlusTwo (+) h2(h)[k])
                                      (.) sc.zetaNPlusTwo (+) h1(h)[k]]
  BY <1>6 DEF FoldQuotient, Vec
<1>8. Size(hf) = s.n + 2 /\ Size(h3(h)) = s.n + 2
  <2>1. DOMAIN hf = Upto(s.n + 2)
    <3> HIDE DEF hf
    <3> QED BY <1>7
  <2> HIDE DEF hf
  <2> QED BY <1>1, <1>6, <2>1, SizeIs, VecIs
<1>9. \A k \in Upto(s.n + 3) : At(hf, k) = Folded(k, sc)
  <2> SUFFICES ASSUME NEW k \in Upto(s.n + 3) PROVE At(hf, k) = Folded(k, sc)
    OBVIOUS
  <2>1. k \in Nat
    BY <1>1, UptoIs
  <2>2. k < s.n + 2 => k \in Upto(s.n + 2)
    BY <1>1, <2>1, UptoIs
  <2> HIDE DEF hf
  <2> QED BY <1>7, <1>8, <2>2 DEF At, Folded
<1>10. /\ sc.s1 \in F /\ sc.s2 \in F /\ sc.rl \in F /\ sc.l \in F /\ sc.r \in F /\ sc.o \in F
       /\ sc.alpha2Lag \in F /\ sc.zhZeta \in F
  BY DEF Scaled
<1>11. ASSUME NEW k \in Upto(s.n + 3)
       PROVE  host(k) = kern(k) (+) (IF k < s.n THEN Bsb(k, qz) ELSE 0)
  <2>1. bz[k] \in F /\ At(x.S3, k) \in F /\ Folded(k, sc) \in F
    BY LinearizedTerms
  <2>2. PICK a \in F, y \in F, w \in F, b \in F :
          /\ a = bz[k] (.) sc.s2 /\ y = bz[k] (.) sc.alpha2Lag /\ w = Folded(k, sc) (.) sc.zhZeta
          /\ b = At(x.S3, k) (.) sc.s1
    BY <1>10, <2>1, Closed
  <2>3. bz[k] (.) (sc.s2 (+) sc.alpha2Lag) = a (+) y
    <3>1. PICK t \in F, u \in F, v \in F : t = bz[k] /\ u = sc.s2 /\ v = sc.alpha2Lag
      BY <1>10, <2>1
    <3>2. t (.) (u (+) v) = (t (.) u) (+) (t (.) v)
      BY Distributes
    <3> QED BY <2>2, <3>1, <3>2
  <2>4. CASE k < s.n
    <3>1. k \in Upto(s.n)
      BY <1>1, <2>4 DEF Upto
    <3>2. /\ x.Qm[k] \in F /\ x.Ql[k] \in F /\ x.Qr[k] \in F
          /\ x.Qo[k] \in F /\ s.trace.Qk[k] \in F /\ Bsb(k, qz) \in F
      BY <3>1, LinearizedTerms
    <3>3. PICK c \in F, d \in F, e \in F, g \in F, q \in F, t \in F :
            /\ c = x.Qm[k] (.) sc.rl /\ d = x.Ql[k] (.) sc.l /\ e = x.Qr[k] (.) sc.r
            /\ g = x.Qo[k] (.) sc.o /\ q = s.trace.Qk[k] /\ t = Bsb(k, qz)
      BY <1>10, <3>2, Closed
    <3>4. host(k) = a (+) b (+) (c (+) d (+) e (+) g (+) q (+) t) (+) (y (-) w)
      BY <2>2, <2>4, <3>3 DEF Gates
    <3>5. /\ At(tt.Qm, k) = x.Qm[k] /\ At(tt.Ql, k) = x.Ql[k] /\ At(tt.Qr, k) = x.Qr[k]
          /\ At(tt.Qo, k) = x.Qo[k] /\ At(tt.Qk, k) = s.trace.Qk[k] /\ At(tt.S3, k) = At(x.S3, k)
          /\ At(hf, k) = Folded(k, sc)
      BY <1>2, <1>5, <1>9, <2>4 DEF At
    <3>6. kern(k) = (a (+) y) (+) b (+) c (+) d (+) e (+) g (+) (q (-) w)
      BY <2>2, <2>3, <3>3, <3>5
    <3>7. SameSum(a, b, c, d, e, g, q, t, y, w)
      BY Rearranged
    <3> HIDE DEF host, kern
    <3> QED BY <2>4, <3>3, <3>4, <3>6, <3>7 DEF SameSum
  <2>5. CASE ~(k < s.n)
    <3>1. /\ At(tt.Qm, k) = 0 /\ At(tt.Ql, k) = 0 /\ At(tt.Qr, k) = 0
          /\ At(tt.Qo, k) = 0 /\ At(tt.Qk, k) = 0 /\ At(tt.S3, k) = 0 /\ At(x.S3, k) = 0
          /\ At(hf, k) = Folded(k, sc)
      BY <1>2, <1>5, <1>9, <2>5 DEF At
    <3>2. 0 (.) sc.s1 = 0 /\ 0 (.) sc.rl = 0 /\ 0 (.) sc.l = 0 /\ 0 (.) sc.r = 0 /\ 0 (.) sc.o = 0
      BY <1>10, Neutral
    <3>3. host(k) = a (+) 0 (+) 0 (+) (y (-) w)
      BY <2>2, <2>5, <3>1, <3>2
    <3>4. kern(k) = (a (+) y) (+) 0 (+) 0 (+) 0 (+) 0 (+) 0 (+) (0 (-) w)
      BY <2>2, <2>3, <3>1, <3>2
    <3> HIDE DEF host, kern
    <3> QED BY <2>5, <3>3, <3>4, RearrangedShort
  <2> QED BY <2>4, <2>5
<1> HIDE DEF host, kern, dev
<1>12. innerComputeLinearizedPoly(sc, qz, bz)
         = [k \in DOMAIN dev |-> dev[k] (+) (IF k < s.n THEN Bsb(k, qz) ELSE 0)]
  BY <1>3, <1>4, <1>11
<1> QED BY <1>12 DEF dev, tt

-------------------------------------------------------------------------------
(* The transform between coefficients and values, both ways.               *)

\* The sum of one term.
LEMMA TotalSingle == \A v \in Vec(1) : Total(v) = v[0]
<1> TAKE v \in Vec(1)
<1>1. v \in Vec(0 + 1)
  OBVIOUS
<1>2. /\ [k \in Upto(0) |-> v[k]] \in Vec(0) /\ v[0] \in F
      /\ Total(v) = Total([k \in Upto(0) |-> v[k]]) (+) v[0]
  BY <1>1, TotalSnoc
<1> QED BY <1>2, TotalEmpty, Neutral

\* A sum all of whose terms but one are 0.
LEMMA TotalOfOne ==
  ASSUME NEW n \in Nat, NEW k \in Nat, k < n, NEW v \in Vec(n),
         \A j \in Upto(n) : j # k => v[j] = 0
  PROVE  Total(v) = v[k]
<1>1. \A j \in Upto(n) : (j < k \/ j >= k + 1) => v[j] = 0
  BY DEF Upto
<1>2. k + 1 \in Nat /\ k <= k + 1 /\ k + 1 <= n /\ (k + 1) - k = 1
  OBVIOUS
<1> DEFINE u == [j \in Upto(1) |-> v[k + j]]
<1>3. u \in Vec(1) /\ Total(u) = Total(v)
  <2>1. u = [j \in Upto((k + 1) - k) |-> v[k + j]]
    BY <1>2
  <2> HIDE DEF u
  <2> QED BY <1>1, <1>2, <2>1, TotalWindow
<1>4. u[0] = v[k]
  BY DEF Upto
<1> QED BY <1>3, <1>4, TotalSingle

\* u generates a subgroup of order n.
Primitive(u, n) == /\ u \in F \ {0} /\ Power(u, n) = 1
                   /\ \A j \in Nat : 0 < j /\ j < n => Power(u, j) # 1

\* The inverse of a primitive root is one.
LEMMA PrimitiveInverse ==
  ASSUME NEW n \in Nat, NEW u, Primitive(u, n)
  PROVE  Primitive(Inv(u), n)
<1>1. u \in F \ {0} /\ Inv(u) \in F \ {0} /\ Power(Inv(u), n) = 1
  BY InverseIs, PowersOfInverse DEF Primitive
<1>2. ASSUME NEW j \in Nat, 0 < j, j < n, Power(Inv(u), j) = 1 PROVE FALSE
  <2>1. Power(u, j) \in F \ {0} /\ Inv(Power(u, j)) = 1
    BY <1>1, <1>2, PowersInvert
  <2>2. Power(u, j) (.) Inv(Power(u, j)) = 1
    BY <2>1, InverseIs
  <2>3. Power(u, j) = 1
    BY <2>1, <2>2, Neutral
  <2> QED BY <1>2, <2>3 DEF Primitive
<1> QED BY <1>1, <1>2 DEF Primitive

\* The powers of a nontrivial root of unity add up to nothing.
LEMMA RootsSum ==
  ASSUME NEW n, Order(n), NEW u, Primitive(u, n), NEW j \in Nat, NEW k \in Nat, j < n, k < n
  PROVE  LET q == Power(u, j) (.) Power(Inv(u), k)
         IN  /\ q \in F /\ [e \in Upto(n) |-> Power(q, e)] \in Vec(n)
             /\ Total([e \in Upto(n) |-> Power(q, e)]) = IF j = k THEN n ELSE 0
<1> DEFINE y == Inv(u)
           q == Power(u, j) (.) Power(y, k)
           t == Total([e \in Upto(n) |-> Power(q, e)])
<1>1. n \in Nat /\ n \in F \ {0} /\ n < Prime
  BY OrderIs, PrimeAssumption DEF Order
<1>2. u \in F \ {0} /\ y \in F \ {0} /\ Power(u, n) = 1 /\ Power(y, n) = 1
  BY <1>1, InverseIs, PowersOfInverse DEF Primitive
<1>3. \A e \in Nat : /\ Power(u, e) \in F \ {0} /\ Power(y, e) \in F \ {0}
                     /\ Power(u, e) (.) Power(y, e) = 1 /\ Power(y, e) (.) Power(u, e) = 1
  BY <1>2, PowersInvert, InverseIs
<1>4. q \in F
  BY <1>3, Closed
<1>5. /\ [e \in Upto(n) |-> Power(q, e)] \in Vec(n)
      /\ (q (-) 1) (.) t = Power(q, n) (-) 1
  BY <1>1, <1>4, Geometric
<1>6. t \in F
  BY <1>1, <1>5, TotalType
<1>7. CASE j = k
  <2>1. q = 1
    BY <1>3, <1>7
  <2>2. [e \in Upto(n) |-> Power(q, e)] = [e \in Upto(n) |-> 1]
    BY <2>1, PowerOne, UptoIs, <1>1
  <2>3. t = n
    BY <1>1, <2>2, TotalOnes
  <2> QED BY <1>4, <1>5, <1>7, <2>3
<1>8. CASE j # k
  <2>1. q # 1
    <3>1. CASE j > k
      <4>1. PICK d \in Nat : j = d + k /\ 0 < d /\ d < n
        <5>1. PICK d \in Nat : j = k + d
          BY <3>1, Gap
        <5>2. j = d + k /\ 0 < d /\ d < n
          BY <1>1, <3>1, <5>1
        <5> QED BY <5>2
      <4>2. Power(u, j) = Power(u, d) (.) Power(u, k)
        BY <1>2, <4>1, PowerLaws
      <4>3. q = Power(u, d) (.) (Power(u, k) (.) Power(y, k))
        BY <1>3, <4>1, <4>2, Associates
      <4>4. q = Power(u, d)
        BY <1>3, <4>1, <4>3, Neutral
      <4> QED BY <4>1, <4>4 DEF Primitive
    <3>2. CASE k > j
      <4>1. PICK d \in Nat : k = j + d /\ 0 < d /\ d < n
        <5>1. PICK d \in Nat : k = j + d
          BY <3>2, Gap
        <5>2. 0 < d /\ d < n
          BY <1>1, <3>2, <5>1
        <5> QED BY <5>1, <5>2
      <4>2. Power(y, k) = Power(y, j) (.) Power(y, d)
        BY <1>2, <4>1, PowerLaws
      <4>3. q = (Power(u, j) (.) Power(y, j)) (.) Power(y, d)
        BY <1>3, <4>1, <4>2, Associates
      <4>4. q = Power(y, d)
        BY <1>3, <4>1, <4>3, Neutral
      <4>5. Primitive(y, n)
        BY <1>1, PrimitiveInverse
      <4> QED BY <4>1, <4>4, <4>5 DEF Primitive
    <3> QED BY <1>8, <3>1, <3>2
  <2>2. Power(q, n) = 1
    <3>1. Power(q, n) = Power(Power(u, j), n) (.) Power(Power(y, k), n)
      <4>1. n \in Nat /\ Power(u, j) \in F /\ Power(y, k) \in F
        BY <1>1, <1>3
      <4> QED BY ONLY <4>1, PowerProduct
    <3>2. /\ Power(Power(u, j), n) = Power(u, j * n) /\ Power(Power(u, n), j) = Power(u, n * j)
          /\ Power(Power(y, k), n) = Power(y, k * n) /\ Power(Power(y, n), k) = Power(y, n * k)
      BY <1>1, <1>2, PowerPower
    <3>3. j * n = n * j /\ k * n = n * k
      BY <1>1
    <3>4. Power(Power(u, j), n) = 1 /\ Power(Power(y, k), n) = 1
      BY <1>2, <3>2, <3>3, PowerOne
    <3> QED BY <3>1, <3>4, ZeroOne, Neutral
  <2>3. q (-) 1 \in F \ {0}
    BY <1>4, <2>1, ZeroOne, Closed, SubZero
  <2>4. (q (-) 1) (.) t = 0
    BY <1>5, <2>2, ZeroOne, Neutral
  <2>5. t = 0
    BY <1>6, <2>3, <2>4, NonzeroProduct
  <2> QED BY <1>4, <1>5, <1>8, <2>5
<1> QED BY <1>7, <1>8

\* The values of p on the subgroup of u determine its coefficients.
LEMMA Inversion ==
  ASSUME NEW n, Order(n), NEW u, Primitive(u, n), NEW p \in Vec(n), NEW k \in Nat, k < n
  PROVE  /\ [j \in Upto(n) |-> Eval(p, Power(u, j))] \in Vec(n)
         /\ Inv(n) (.) Eval([j \in Upto(n) |-> Eval(p, Power(u, j))], Power(Inv(u), k)) = p[k]
<1> DEFINE y == Power(Inv(u), k)
           v == [j \in Upto(n) |-> Eval(p, Power(u, j))]
           q(b) == Power(u, b) (.) y
           a == [jb \in Upto(n) \X Upto(n) |-> p[jb[2]] (.) Power(q(jb[2]), jb[1])]
           inner(j) == [b \in Upto(n) |-> a[<<j, b>>]]
           outer(b) == [j \in Upto(n) |-> a[<<j, b>>]]
           r == [b \in Upto(n) |-> Total(outer(b))]
<1>1. n \in Nat /\ n \in F \ {0} /\ Inv(n) \in F \ {0} /\ Inv(n) (.) n = 1 /\ u \in F \ {0}
      /\ Inv(u) \in F \ {0} /\ y \in F
  BY OrderIs, InverseIs, PowersInvert DEF Primitive
<1>2. \A j \in Upto(n) : j \in Nat /\ j < n /\ Power(u, j) \in F /\ p[j] \in F /\ q(j) \in F
  BY <1>1, UptoIs, PowersInvert, Closed DEF Vec
<1>3. \A j \in Upto(n), b \in Upto(n) : Power(q(b), j) \in F /\ a[<<j, b>>] = p[b] (.) Power(q(b), j)
  BY <1>2, PowerLaws
<1>4. a \in [Upto(n) \X Upto(n) -> F]
  <2> HIDE DEF q
  <2> QED BY <1>2, <1>3, Closed
<1>5. v \in Vec(n)
  <2>1. \A j \in Upto(n) : Eval(p, Power(u, j)) \in F
    BY <1>1, <1>2, EvalType
  <2> QED BY <2>1 DEF Vec
<1>6. \A j \in Upto(n) : v[j] (.) Power(y, j) = Total(inner(j))
  <2> TAKE j \in Upto(n)
  <2> DEFINE c == [b \in Upto(n) |-> p[b] (.) Power(Power(u, j), b)]
             g == Power(y, j)
  <2>1. c \in Vec(n) /\ Eval(p, Power(u, j)) = Total(c) /\ g \in F /\ Total(c) \in F
    <3>1. n \in Nat /\ j \in Nat /\ Power(u, j) \in F
      BY <1>1, <1>2
    <3>2. c \in Vec(n) /\ Eval(p, Power(u, j)) = Total(c)
      BY ONLY <3>1, p \in Vec(n), EvalTotal
    <3>3. g \in F
      BY <1>1, <3>1, PowerLaws
    <3> QED BY <3>1, <3>2, <3>3, TotalType
  <2>2. g (.) Total(c) = Total([b \in Upto(n) |-> g (.) c[b]])
    <3> HIDE DEF c, g
    <3> QED BY <1>1, <2>1, TotalScale
  <2>3. \A b \in Upto(n) : g (.) c[b] = a[<<j, b>>]
    <3> TAKE b \in Upto(n)
    <3> DEFINE e == Power(Power(u, j), b)
    <3>1. e \in F /\ c[b] = p[b] (.) e
      BY <1>2, PowerLaws
    <3>2. e = Power(Power(u, b), j)
      <4>1. e = Power(u, j * b) /\ Power(Power(u, b), j) = Power(u, b * j)
        BY <1>1, <1>2, PowerPower
      <4>2. j * b = b * j
        BY <1>2
      <4> QED BY <4>1, <4>2
    <3>3. Power(q(b), j) = e (.) g
      <4>1. Power(Power(u, b) (.) y, j) = Power(Power(u, b), j) (.) Power(y, j)
        <5>1. Power(u, b) \in F /\ y \in F /\ j \in Nat
          BY <1>1, <1>2
        <5> HIDE DEF y
        <5> QED BY <5>1, PowerProduct
      <4> QED BY <3>2, <4>1
    <3>4. g (.) (p[b] (.) e) = p[b] (.) (e (.) g)
      <4> HIDE DEF e, g
      <4>1. g (.) (p[b] (.) e) = (p[b] (.) e) (.) g
        BY <1>2, <2>1, <3>1, Closed, Commutes
      <4> QED BY <1>2, <2>1, <3>1, <4>1, Associates
    <3> HIDE DEF a, q, c, e, g
    <3> QED BY <1>3, <3>1, <3>3, <3>4
  <2>4. [b \in Upto(n) |-> g (.) c[b]] = inner(j)
    BY <2>3
  <2>5. v[j] (.) g = g (.) Total(c)
    <3>1. v[j] = Total(c)
      BY <2>1
    <3> HIDE DEF c, g, v
    <3> QED BY <2>1, <3>1, Commutes
  <2> HIDE DEF v, c, a, inner
  <2> QED BY <2>2, <2>4, <2>5
<1>7. Eval(v, y) = Total([j \in Upto(n) |-> Total(inner(j))])
  <2>1. Eval(v, y) = Total([j \in Upto(n) |-> v[j] (.) Power(y, j)])
    <3> HIDE DEF v, y
    <3> QED BY <1>1, <1>5, EvalTotal
  <2>2. [j \in Upto(n) |-> v[j] (.) Power(y, j)] = [j \in Upto(n) |-> Total(inner(j))]
    BY <1>6
  <2> QED BY <2>1, <2>2
<1>8. Eval(v, y) = Total(r)
  <2> HIDE DEF a, v
  <2> QED BY <1>1, <1>4, <1>7, TotalSwap
<1>9. \A b \in Upto(n) : Total(outer(b)) = IF b = k THEN p[b] (.) n ELSE 0
  <2> TAKE b \in Upto(n)
  <2> DEFINE e == [j \in Upto(n) |-> Power(q(b), j)]
  <2>1. e \in Vec(n) /\ Total(e) = IF b = k THEN n ELSE 0
    BY <1>2, RootsSum
  <2>2. outer(b) = [j \in Upto(n) |-> p[b] (.) e[j]]
    BY <1>3
  <2>3. Total(outer(b)) = p[b] (.) Total(e)
    <3>1. PICK g \in F : g = p[b]
      BY <1>2
    <3> HIDE DEF e, a
    <3>2. Total([j \in Upto(n) |-> g (.) e[j]]) = g (.) Total(e)
      BY <1>1, <2>1, TotalScale
    <3> QED BY <2>2, <3>1, <3>2
  <2> HIDE DEF e, outer
  <2> QED BY <1>2, <2>1, <2>3, Neutral
<1>10. r \in Vec(n) /\ r[k] = p[k] (.) n /\ \A b \in Upto(n) : b # k => r[b] = 0
  <2>1. k \in Upto(n)
    BY <1>1, UptoIs
  <2>2. \A b \in Upto(n) : Total(outer(b)) \in F
    <3> HIDE DEF outer
    <3>1. \A b \in Upto(n) : p[b] (.) n \in F
      BY <1>1, <1>2, Closed
    <3> QED BY <1>9, <3>1, ZeroOne
  <2> HIDE DEF outer
  <2> QED BY <1>9, <2>1, <2>2 DEF Vec
<1>11. Total(r) = p[k] (.) n
  <2> HIDE DEF r
  <2> QED BY <1>1, <1>10, TotalOfOne
<1>12. Inv(n) (.) (p[k] (.) n) = p[k]
  <2>1. p[k] \in F
    BY <1>1, UptoIs DEF Vec
  <2>2. Inv(n) (.) (p[k] (.) n) = (Inv(n) (.) n) (.) p[k]
    <3>1. Inv(n) (.) (p[k] (.) n) = Inv(n) (.) (n (.) p[k])
      BY <1>1, <2>1, Commutes
    <3> QED BY <1>1, <2>1, <3>1, Associates
  <2> QED BY <1>1, <2>1, <2>2, Neutral
<1> QED BY <1>5, <1>8, <1>11, <1>12

\* The generator of a domain is a primitive root.
LEMMA GeneratorPrimitive == ASSUME NEW n, Order(n) PROVE Primitive(Generator(n), n)
BY GeneratorIs DEF Primitive

\* A vector in Lagrange form has its entries as the values of its polynomial.
LEMMA PolyAt ==
  ASSUME NEW n, Order(n), NEW v \in Vec(n), NEW k \in Nat, k < n
  PROVE  Eval(Poly(v), Power(Generator(n), k)) = v[k]
<1> DEFINE u == Generator(n)
           w == Inv(u)
           d == [j \in Upto(n) |-> Eval(v, Power(w, j))]
           z == Power(u, k)
<1>1. n \in Nat /\ Inv(n) \in F /\ u \in F \ {0} /\ z \in F /\ Primitive(w, n) /\ Inv(w) = u
  <2>1. n \in Nat /\ n \in F \ {0}
    BY OrderIs
  <2>2. Primitive(u, n) /\ u \in F \ {0} /\ u (.) w = 1 /\ w \in F
    BY GeneratorPrimitive, GeneratorIs, InverseIs
  <2>3. Inv(w) = u
    BY <2>2, OnlyInverse, Commutes
  <2> QED BY <2>1, <2>2, <2>3, PrimitiveInverse, InverseIs, PowersInvert
<1>2. d \in Vec(n) /\ Inv(n) (.) Eval(d, z) = v[k]
  <2> HIDE DEF u, w
  <2>1. z = Power(Inv(w), k)
    BY <1>1
  <2> HIDE DEF z
  <2> QED BY <1>1, <2>1, Inversion
<1>3. Poly(v) = [j \in Upto(n) |-> Inv(n) (.) d[j]] /\ Poly(v) \in Vec(n)
  BY PolyIs
<1>4. Eval(Poly(v), z) = Inv(n) (.) Eval(d, z)
  <2> HIDE DEF d, z
  <2>1. \A j \in Upto(n) : Poly(v)[j] (.) Power(z, j) = Inv(n) (.) (d[j] (.) Power(z, j))
    <3> TAKE j \in Upto(n)
    <3>1. j \in Nat /\ d[j] \in F /\ Power(z, j) \in F
      BY <1>1, <1>2, UptoIs, PowerLaws DEF Vec
    <3> QED BY <1>1, <1>3, <3>1, Associates
  <2> DEFINE t == [j \in Upto(n) |-> d[j] (.) Power(z, j)]
  <2>2. t \in Vec(n) /\ Eval(d, z) = Total(t)
    BY <1>1, <1>2, EvalTotal
  <2>3. Eval(Poly(v), z) = Total([j \in Upto(n) |-> Poly(v)[j] (.) Power(z, j)])
    BY <1>1, <1>3, EvalTotal
  <2>4. [j \in Upto(n) |-> Poly(v)[j] (.) Power(z, j)] = [j \in Upto(n) |-> Inv(n) (.) t[j]]
    BY <2>1
  <2>5. Total([j \in Upto(n) |-> Inv(n) (.) t[j]]) = Inv(n) (.) Total(t)
    <3> HIDE DEF t
    <3> QED BY <1>1, <2>2, TotalScale
  <2> QED BY <2>2, <2>3, <2>4, <2>5
<1> QED BY <1>2, <1>4

\* A polynomial is what its values on a coset interpolate to.
LEMMA InterpolateValues ==
  ASSUME NEW n, Order(n), NEW p \in Vec(n), NEW g \in F \ {0}
  PROVE  Interpolate([k \in Upto(n) |-> Eval(p, g (.) Power(Generator(n), k))], g) = p
<1> DEFINE u == Generator(n)
           w == Inv(u)
           v == [k \in Upto(n) |-> Eval(p, g (.) Power(u, k))]
           q == Rescale(p, g)
           c == [k \in Upto(n) |-> Inv(n) (.) Eval(v, Power(w, k))]
<1>1. n \in Nat /\ n \in F \ {0} /\ u \in F \ {0} /\ Primitive(u, n) /\ Inv(g) \in F \ {0} /\ g (.) Inv(g) = 1
  BY OrderIs, GeneratorPrimitive, GeneratorIs, InverseIs
<1>2. q \in Vec(n) /\ \A z \in F : Eval(q, z) = Eval(p, g (.) z)
  BY <1>1, RescaleIs, EvalRescale
<1>3. v = [k \in Upto(n) |-> Eval(q, Power(u, k))]
  BY <1>1, <1>2, UptoIs, PowersInvert
<1>4. v \in Vec(n) /\ \A k \in Upto(n) : c[k] = q[k]
  <2> HIDE DEF q
  <2> SUFFICES ASSUME NEW k \in Upto(n) PROVE v \in Vec(n) /\ c[k] = q[k]
    <3>1. 0 \in Upto(n)
      BY SizePositive, UptoIs
    <3> QED BY <3>1
  <2>1. k \in Nat /\ k < n
    BY <1>1, UptoIs
  <2> HIDE DEF v
  <2>2. v \in Vec(n) /\ Inv(n) (.) Eval(v, Power(Inv(u), k)) = q[k]
    BY <1>1, <1>2, <1>3, <2>1, Inversion
  <2> QED BY <2>2
<1>5. c = q
  <2> HIDE DEF q
  <2> QED BY <1>1, <1>2, <1>4, VecIs
<1>6. Interpolate(v, g) = Rescale(c, Inv(g))
  <2> HIDE DEF v
  <2> QED BY <1>4, InterpolateIs
<1>7. Rescale(q, Inv(g)) = p
  <2>1. Rescale(Rescale(p, g), Inv(g)) = Rescale(p, g (.) Inv(g))
    BY <1>1, RescaleTwice
  <2> QED BY <1>1, <2>1, RescaleOne
<1> QED BY <1>5, <1>6, <1>7

-------------------------------------------------------------------------------
(* Polynomial functions of bounded degree.                                 *)

\* The ring identities that the lemmas below need.
LEMMA SubNegated ==
  \A a, b \in F :
     a (-) (0 (-) b)
       = a (+) b
<1> TAKE a, b \in F
<1>1. /\ a \in Int /\ a = Mod(a)
      /\ b \in Int /\ b = Mod(b)
  BY ModOfElement
<1>2. 0 \in Int /\ 0 = Mod(0)
  BY ZeroOne, ModOfElement
<1>3. PICK i1 \in Int : i1 = 0 - b
  BY <1>2, <1>1
<1>4. 0 (-) b = Mod(i1) /\ i1 \in Int
  BY <1>2, <1>1, <1>3, ModOps
<1>5. PICK i2 \in Int : i2 = a - i1
  BY <1>1, <1>4
<1>6. a (-) (0 (-) b) = Mod(i2) /\ i2 \in Int
  BY <1>1, <1>4, <1>5, ModOps
<1>7. PICK i3 \in Int : i3 = a + b
  BY <1>1
<1>8. a (+) b = Mod(i3) /\ i3 \in Int
  BY <1>1, <1>7, ModOps
<1>9. i2 = i3
  BY <1>1, <1>3, <1>5, <1>7
<1> QED BY <1>6, <1>8, <1>9

LEMMA MulSplit ==
  \A a, z, f, g \in F :
     (a (+) z (.) f) (.) g
       = a (.) g (+) z (.) (f (.) g)
<1> TAKE a, z, f, g \in F
<1>1. /\ a \in Int /\ a = Mod(a)
      /\ z \in Int /\ z = Mod(z)
      /\ f \in Int /\ f = Mod(f)
      /\ g \in Int /\ g = Mod(g)
  BY ModOfElement
<1>2. PICK i1 \in Int : i1 = z * f
  BY <1>1
<1>3. z (.) f = Mod(i1) /\ i1 \in Int
  BY <1>1, <1>2, ModOps
<1>4. PICK i2 \in Int : i2 = a + i1
  BY <1>1, <1>3
<1>5. a (+) z (.) f = Mod(i2) /\ i2 \in Int
  BY <1>1, <1>3, <1>4, ModOps
<1>6. PICK i3 \in Int : i3 = i2 * g
  BY <1>5, <1>1
<1>7. (a (+) z (.) f) (.) g = Mod(i3) /\ i3 \in Int
  BY <1>5, <1>1, <1>6, ModOps
<1>8. PICK i4 \in Int : i4 = a * g
  BY <1>1
<1>9. a (.) g = Mod(i4) /\ i4 \in Int
  BY <1>1, <1>8, ModOps
<1>10. PICK i5 \in Int : i5 = f * g
  BY <1>1
<1>11. f (.) g = Mod(i5) /\ i5 \in Int
  BY <1>1, <1>10, ModOps
<1>12. PICK i6 \in Int : i6 = z * i5
  BY <1>1, <1>11
<1>13. z (.) (f (.) g) = Mod(i6) /\ i6 \in Int
  BY <1>1, <1>11, <1>12, ModOps
<1>14. PICK i7 \in Int : i7 = i4 + i6
  BY <1>9, <1>13
<1>15. a (.) g (+) z (.) (f (.) g) = Mod(i7) /\ i7 \in Int
  BY <1>9, <1>13, <1>14, ModOps
<1>16. i3 = i7
  BY <1>1, <1>2, <1>4, <1>6, <1>8, <1>10, <1>12, <1>14
<1> QED BY <1>7, <1>15, <1>16

\* A polynomial of one coefficient.
LEMMA EvalConstant ==
  ASSUME NEW a \in F
  PROVE  /\ [k \in Upto(1) |-> a] \in Vec(1)
         /\ \A z \in F : Eval([k \in Upto(1) |-> a], z) = a
<1> DEFINE o == [k \in Upto(1) |-> a]
<1>1. o \in Vec(1) /\ 1 \in Nat /\ 0 \in Upto(1)
  BY DEF Vec, Upto
<1>2. ASSUME NEW z \in F PROVE Eval(o, z) = a
  <2> DEFINE t == [k \in Upto(1) |-> o[k] (.) Power(z, k)]
  <2>1. t \in Vec(1) /\ Eval(o, z) = Total(t)
    <3> HIDE DEF o
    <3> QED BY <1>1, EvalTotal
  <2>2. t[0] = a
    BY <1>1, PowerLaws, Neutral
  <2> HIDE DEF t
  <2> QED BY <2>1, <2>2, TotalSingle
<1> QED BY <1>1, <1>2

Degree(d) == {g \in [F -> F] : \E p \in Vec(d + 1) : \A z \in F : g[z] = Eval(p, z)}

\* A vector of coefficients gives such a function.
LEMMA DegreeOf ==
  ASSUME NEW n \in Nat, NEW p \in Vec(n + 1)
  PROVE  [z \in F |-> Eval(p, z)] \in Degree(n)
<1>1. \A z \in F : Eval(p, z) \in F
  BY EvalType
<1> QED BY <1>1 DEF Degree

\* They are closed under sums, scaling, shifting by X and products.
LEMMA DegreeGrows ==
  ASSUME NEW d \in Nat, NEW e \in Nat, d <= e
  PROVE  Degree(d) \subseteq Degree(e)
<1> SUFFICES ASSUME NEW g \in Degree(d) PROVE g \in Degree(e)
  OBVIOUS
<1>1. PICK p \in Vec(d + 1) : \A z \in F : g[z] = Eval(p, z)
  BY DEF Degree
<1>2. PICK m \in Nat : e = d + m
  BY Gap
<1> DEFINE o == [k \in Upto(m) |-> 0]
           q == Concat(p, o)
<1>3. o \in Vec(m) /\ d + 1 \in Nat
  BY ZeroOne DEF Vec
<1>4. q \in Vec((d + 1) + m) /\ \A z \in F : Eval(q, z) = Eval(p, z) (+) (Power(z, d + 1) (.) Eval(o, z))
  <2> HIDE DEF o
  <2> QED BY <1>3, EvalConcat
<1>5. (d + 1) + m = e + 1
  BY <1>2
<1>6. \A z \in F : g[z] = Eval(q, z)
  <2> TAKE z \in F
  <2>1. Eval(o, z) = 0
    BY EvalZero
  <2>2. Power(z, d + 1) \in F /\ Eval(p, z) \in F
    BY <1>3, PowerLaws, EvalType
  <2> HIDE DEF o, q
  <2> QED BY <1>1, <1>4, <2>1, <2>2, Neutral
<1> HIDE DEF q
<1> QED BY <1>4, <1>5, <1>6 DEF Degree

LEMMA DegreeSub ==
  ASSUME NEW d \in Nat, NEW f \in Degree(d), NEW g \in Degree(d)
  PROVE  [z \in F |-> f[z] (-) g[z]] \in Degree(d)
<1>1. PICK p \in Vec(d + 1) : \A z \in F : f[z] = Eval(p, z)
  BY DEF Degree
<1>2. PICK q \in Vec(d + 1) : \A z \in F : g[z] = Eval(q, z)
  BY DEF Degree
<1> DEFINE r == [k \in Upto(d + 1) |-> p[k] (-) q[k]]
<1>3. r \in Vec(d + 1) /\ \A z \in F : Eval(r, z) = Eval(p, z) (-) Eval(q, z)
  <2>1. d + 1 \in Nat /\ 0 \in F
    BY ZeroOne
  <2> QED BY <2>1, EvalSub
<1> HIDE DEF r
<1>4. [z \in F |-> Eval(r, z)] \in Degree(d)
  BY <1>3, DegreeOf
<1>5. [z \in F |-> Eval(r, z)] = [z \in F |-> f[z] (-) g[z]]
  BY <1>1, <1>2, <1>3
<1> QED BY <1>4, <1>5

LEMMA DegreeType == \A d : \A f \in Degree(d), z \in F : f[z] \in F
BY DEF Degree

LEMMA DegreeZero == \A d \in Nat : [z \in F |-> 0] \in Degree(d)
<1> TAKE d \in Nat
<1> DEFINE o == [k \in Upto(d + 1) |-> 0]
<1>1. o \in Vec(d + 1)
  BY ZeroOne DEF Vec
<1>2. [z \in F |-> Eval(o, z)] = [z \in F |-> 0]
  BY EvalZero
<1> HIDE DEF o
<1> QED BY <1>1, <1>2, DegreeOf

LEMMA DegreeAdd ==
  ASSUME NEW d \in Nat, NEW f \in Degree(d), NEW g \in Degree(d)
  PROVE  [z \in F |-> f[z] (+) g[z]] \in Degree(d)
<1> DEFINE o == [z \in F |-> 0]
           m == [z \in F |-> o[z] (-) g[z]]
<1>1. o \in Degree(d)
  BY DegreeZero
<1>2. m \in Degree(d)
  <2> HIDE DEF o
  <2> QED BY <1>1, DegreeSub
<1>3. \A z \in F : f[z] (-) m[z] = f[z] (+) g[z]
  <2> TAKE z \in F
  <2>1. f[z] \in F /\ g[z] \in F /\ m[z] = 0 (-) g[z] /\ 0 \in F
    BY DegreeType, ZeroOne
  <2>2. \A a, b \in F : a (-) (0 (-) b) = a (+) b
    BY SubNegated
  <2> QED BY <2>1, <2>2
<1>4. [z \in F |-> f[z] (-) m[z]] \in Degree(d)
  <2> HIDE DEF m
  <2> QED BY <1>2, DegreeSub
<1>5. [z \in F |-> f[z] (-) m[z]] = [z \in F |-> f[z] (+) g[z]]
  BY <1>3
<1> QED BY <1>4, <1>5

LEMMA EvalScale ==
  ASSUME NEW n \in Nat, NEW p \in Vec(n), NEW c \in F, NEW z \in F
  PROVE  /\ [k \in Upto(n) |-> c (.) p[k]] \in Vec(n)
         /\ Eval([k \in Upto(n) |-> c (.) p[k]], z) = c (.) Eval(p, z)
<1> DEFINE q == [k \in Upto(n) |-> c (.) p[k]]
           t == [k \in Upto(n) |-> p[k] (.) Power(z, k)]
<1>1. q \in Vec(n)
  BY Closed DEF Vec
<1>2. t \in Vec(n) /\ Eval(p, z) = Total(t)
  BY EvalTotal
<1>3. \A k \in Upto(n) : q[k] (.) Power(z, k) = c (.) t[k]
  <2> TAKE k \in Upto(n)
  <2>1. k \in Nat /\ p[k] \in F /\ Power(z, k) \in F
    BY UptoIs, PowerLaws DEF Vec
  <2> QED BY <2>1, Associates
<1>4. [k \in Upto(n) |-> q[k] (.) Power(z, k)] = [k \in Upto(n) |-> c (.) t[k]]
  BY <1>3
<1>5. Eval(q, z) = Total([k \in Upto(n) |-> q[k] (.) Power(z, k)])
  <2> HIDE DEF q
  <2> QED BY <1>1, EvalTotal
<1>6. Total([k \in Upto(n) |-> c (.) t[k]]) = c (.) Total(t)
  <2> HIDE DEF t
  <2> QED BY <1>2, TotalScale
<1> QED BY <1>1, <1>2, <1>4, <1>5, <1>6

LEMMA DegreeScale ==
  ASSUME NEW d \in Nat, NEW c \in F, NEW f \in Degree(d)
  PROVE  [z \in F |-> c (.) f[z]] \in Degree(d)
<1>1. PICK p \in Vec(d + 1) : \A z \in F : f[z] = Eval(p, z)
  BY DEF Degree
<1> DEFINE r == [k \in Upto(d + 1) |-> c (.) p[k]]
<1>2. r \in Vec(d + 1) /\ \A z \in F : Eval(r, z) = c (.) Eval(p, z)
  <2>1. d + 1 \in Nat /\ 0 \in F
    BY ZeroOne
  <2> QED BY <2>1, EvalScale
<1> HIDE DEF r
<1>3. [z \in F |-> Eval(r, z)] \in Degree(d)
  BY <1>2, DegreeOf
<1>4. [z \in F |-> Eval(r, z)] = [z \in F |-> c (.) f[z]]
  BY <1>1, <1>2
<1> QED BY <1>3, <1>4

\* a + X f
LEMMA DegreeShift ==
  ASSUME NEW d \in Nat, NEW a \in F, NEW f \in Degree(d)
  PROVE  [z \in F |-> a (+) z (.) f[z]] \in Degree(d + 1)
<1>1. PICK p \in Vec(d + 1) : \A z \in F : f[z] = Eval(p, z)
  BY DEF Degree
<1> DEFINE o == [k \in Upto(1) |-> a]
           q == Concat(o, p)
<1>2. o \in Vec(1) /\ \A z \in F : Eval(o, z) = a
  BY EvalConstant
<1>3. q \in Vec((d + 1) + 1) /\ \A z \in F : Eval(q, z) = Eval(o, z) (+) (Power(z, 1) (.) Eval(p, z))
  <2>1. d + 1 \in Nat /\ 1 + (d + 1) = (d + 1) + 1
    OBVIOUS
  <2> HIDE DEF o
  <2> QED BY <1>2, <2>1, EvalConcat
<1> HIDE DEF o, q
<1>4. [z \in F |-> Eval(q, z)] \in Degree(d + 1)
  <2>1. d + 1 \in Nat
    OBVIOUS
  <2> QED BY <1>3, <2>1, DegreeOf
<1>5. [z \in F |-> Eval(q, z)] = [z \in F |-> a (+) z (.) f[z]]
  BY <1>1, <1>2, <1>3, PowerFirst
<1> QED BY <1>4, <1>5

LEMMA DegreeUnshift ==
  ASSUME NEW d \in Nat, NEW g \in Degree(d + 1)
  PROVE  \E a \in F : \E f \in Degree(d) : \A z \in F : g[z] = a (+) z (.) f[z]
<1>1. PICK p \in Vec((d + 1) + 1) : \A z \in F : g[z] = Eval(p, z)
  BY DEF Degree
<1> DEFINE a == p[0]
           o == [k \in Upto(1) |-> a]
           q == [k \in Upto(d + 1) |-> p[k + 1]]
<1>2. d + 1 \in Nat /\ 1 + (d + 1) = (d + 1) + 1
  OBVIOUS
<1>3. a \in F /\ q \in Vec(d + 1)
  <2>1. 0 \in Upto((d + 1) + 1) /\ \A k \in Upto(d + 1) : k + 1 \in Upto((d + 1) + 1)
    BY DEF Upto
  <2> QED BY <2>1 DEF Vec
<1>4. o \in Vec(1) /\ \A z \in F : Eval(o, z) = a
  BY <1>3, EvalConstant
<1>5. p = Concat(o, q)
  <2>1. Concat(o, q) = [k \in Upto(1 + (d + 1)) |-> IF k < 1 THEN o[k] ELSE q[k - 1]]
    <3> HIDE DEF o, q
    <3> QED BY <1>2, <1>3, <1>4, EvalConcat
  <2>2. \A k \in Upto((d + 1) + 1) : (IF k < 1 THEN o[k] ELSE q[k - 1]) = p[k]
    <3> TAKE k \in Upto((d + 1) + 1)
    <3>1. CASE k = 0
      BY <3>1 DEF Upto
    <3>2. CASE k # 0
      <4>1. ~(k < 1) /\ k - 1 \in Upto(d + 1) /\ (k - 1) + 1 = k
        BY <3>2 DEF Upto
      <4> QED BY <4>1
    <3> QED BY <3>1, <3>2
  <2>3. p = [k \in Upto((d + 1) + 1) |-> p[k]]
    BY DEF Vec
  <2> HIDE DEF o, q
  <2> QED BY <1>2, <2>1, <2>2, <2>3
<1> DEFINE f == [z \in F |-> Eval(q, z)]
<1>6. f \in Degree(d)
  <2> HIDE DEF q
  <2> QED BY <1>3, DegreeOf
<1>7. \A z \in F : g[z] = a (+) z (.) f[z]
  <2> TAKE z \in F
  <2>1. Eval(Concat(o, q), z) = Eval(o, z) (+) (Power(z, 1) (.) Eval(q, z))
    <3> HIDE DEF o, q
    <3> QED BY <1>2, <1>3, <1>4, EvalConcat
  <2> HIDE DEF o, q, a
  <2> QED BY <1>1, <1>4, <1>5, <2>1, PowerFirst
<1> HIDE DEF f, a
<1> QED BY <1>3, <1>6, <1>7

LEMMA DegreeMul ==
  ASSUME NEW d \in Nat, NEW e \in Nat, NEW f \in Degree(d), NEW g \in Degree(e)
  PROVE  [z \in F |-> f[z] (.) g[z]] \in Degree(d + e)
<1> DEFINE P == {c \in Nat : \A r \in Degree(c) : [z \in F |-> r[z] (.) g[z]] \in Degree(c + e)}
<1>1. 0 \in P
  <2> SUFFICES ASSUME NEW r \in Degree(0) PROVE [z \in F |-> r[z] (.) g[z]] \in Degree(0 + e)
    OBVIOUS
  <2>1. PICK p \in Vec(0 + 1) : \A z \in F : r[z] = Eval(p, z)
    BY DEF Degree
  <2>2. PICK a \in F : a = p[0]
    BY DEF Vec, Upto
  <2>3. p = [k \in Upto(1) |-> a]
    BY <2>2 DEF Vec, Upto
  <2>4. \A z \in F : r[z] = a
    BY <2>1, <2>3, EvalConstant
  <2>5. [z \in F |-> r[z] (.) g[z]] = [z \in F |-> a (.) g[z]]
    BY <2>4
  <2>6. [z \in F |-> a (.) g[z]] \in Degree(e)
    BY DegreeScale
  <2>7. 0 + e = e
    OBVIOUS
  <2> QED BY <2>5, <2>6, <2>7
<1>2. ASSUME NEW c \in Nat, c \in P PROVE c + 1 \in P
  <2> SUFFICES ASSUME NEW r \in Degree(c + 1)
               PROVE  [z \in F |-> r[z] (.) g[z]] \in Degree((c + 1) + e)
    OBVIOUS
  <2>1. PICK a \in F : \E y \in Degree(c) : \A z \in F : r[z] = a (+) z (.) y[z]
    BY DegreeUnshift
  <2>2. PICK y \in Degree(c) : \A z \in F : r[z] = a (+) z (.) y[z]
    BY <2>1
  <2> DEFINE u == [z \in F |-> y[z] (.) g[z]]
             v == [z \in F |-> 0 (+) z (.) u[z]]
             w == [z \in F |-> a (.) g[z]]
  <2>3. c + e \in Nat /\ (c + 1) + e = (c + e) + 1 /\ (c + 1) + e \in Nat /\ e <= (c + 1) + e
    OBVIOUS
  <2>4. u \in Degree(c + e)
    BY <1>2
  <2>5. v \in Degree((c + 1) + e)
    <3> HIDE DEF u
    <3> QED BY <2>3, <2>4, ZeroOne, DegreeShift
  <2>6. w \in Degree((c + 1) + e)
    <3>1. w \in Degree(e)
      BY DegreeScale
    <3> HIDE DEF w
    <3> QED BY <2>3, <3>1, DegreeGrows
  <2>7. [z \in F |-> w[z] (+) v[z]] \in Degree((c + 1) + e)
    <3> HIDE DEF v, w
    <3> QED BY <2>3, <2>5, <2>6, DegreeAdd
  <2>8. \A z \in F : w[z] (+) v[z] = r[z] (.) g[z]
    <3> TAKE z \in F
    <3>1. y[z] \in F /\ g[z] \in F
      BY DegreeType
    <3>2. z (.) (y[z] (.) g[z]) \in F
      BY <3>1, Closed
    <3>3. v[z] = z (.) (y[z] (.) g[z])
      BY <3>2, Neutral
    <3>4. (a (+) z (.) y[z]) (.) g[z] = a (.) g[z] (+) z (.) (y[z] (.) g[z])
      BY <3>1, MulSplit
    <3> QED BY <2>2, <3>3, <3>4
  <2>9. [z \in F |-> w[z] (+) v[z]] = [z \in F |-> r[z] (.) g[z]]
    BY <2>8
  <2> QED BY <2>7, <2>9
<1>3. Nat \subseteq P
  <2> HIDE DEF P
  <2> QED BY <1>1, <1>2, Induction
<1> QED BY <1>3

\* The steps of the division by X^n - 1.
LEMMA DivideStep ==
  \A r, b, y, a \in F :
     (r (+) b (.) a) (+) (b (.) a) (.) (y (-) 1)
       = r (+) (b (.) y) (.) a
<1> TAKE r, b, y, a \in F
<1>1. /\ r \in Int /\ r = Mod(r)
      /\ b \in Int /\ b = Mod(b)
      /\ y \in Int /\ y = Mod(y)
      /\ a \in Int /\ a = Mod(a)
  BY ModOfElement
<1>2. 1 \in Int /\ 1 = Mod(1)
  BY ZeroOne, ModOfElement
<1>3. PICK i1 \in Int : i1 = b * a
  BY <1>1
<1>4. b (.) a = Mod(i1) /\ i1 \in Int
  BY <1>1, <1>3, ModOps
<1>5. PICK i2 \in Int : i2 = r + i1
  BY <1>1, <1>4
<1>6. r (+) b (.) a = Mod(i2) /\ i2 \in Int
  BY <1>1, <1>4, <1>5, ModOps
<1>7. PICK i3 \in Int : i3 = y - 1
  BY <1>1, <1>2
<1>8. y (-) 1 = Mod(i3) /\ i3 \in Int
  BY <1>1, <1>2, <1>7, ModOps
<1>9. PICK i4 \in Int : i4 = i1 * i3
  BY <1>4, <1>8
<1>10. b (.) a (.) (y (-) 1) = Mod(i4) /\ i4 \in Int
  BY <1>4, <1>8, <1>9, ModOps
<1>11. PICK i5 \in Int : i5 = i2 + i4
  BY <1>6, <1>10
<1>12. r (+) b (.) a (+) b (.) a (.) (y (-) 1) = Mod(i5) /\ i5 \in Int
  BY <1>6, <1>10, <1>11, ModOps
<1>13. PICK i6 \in Int : i6 = b * y
  BY <1>1
<1>14. b (.) y = Mod(i6) /\ i6 \in Int
  BY <1>1, <1>13, ModOps
<1>15. PICK i7 \in Int : i7 = i6 * a
  BY <1>14, <1>1
<1>16. b (.) y (.) a = Mod(i7) /\ i7 \in Int
  BY <1>14, <1>1, <1>15, ModOps
<1>17. PICK i8 \in Int : i8 = r + i7
  BY <1>1, <1>16
<1>18. r (+) b (.) y (.) a = Mod(i8) /\ i8 \in Int
  BY <1>1, <1>16, <1>17, ModOps
<1>19. i5 = i8
  BY <1>1, <1>3, <1>5, <1>7, <1>9, <1>11, <1>13, <1>15, <1>17
<1> QED BY <1>12, <1>18, <1>19

LEMMA DivideJoin ==
  \A q, b, y, a \in F :
     q (.) (y (-) 1) (+) (b (.) a) (.) (y (-) 1)
       = (q (+) b (.) a) (.) (y (-) 1)
<1> TAKE q, b, y, a \in F
<1>1. /\ q \in Int /\ q = Mod(q)
      /\ b \in Int /\ b = Mod(b)
      /\ y \in Int /\ y = Mod(y)
      /\ a \in Int /\ a = Mod(a)
  BY ModOfElement
<1>2. 1 \in Int /\ 1 = Mod(1)
  BY ZeroOne, ModOfElement
<1>3. PICK i1 \in Int : i1 = y - 1
  BY <1>1, <1>2
<1>4. y (-) 1 = Mod(i1) /\ i1 \in Int
  BY <1>1, <1>2, <1>3, ModOps
<1>5. PICK i2 \in Int : i2 = q * i1
  BY <1>1, <1>4
<1>6. q (.) (y (-) 1) = Mod(i2) /\ i2 \in Int
  BY <1>1, <1>4, <1>5, ModOps
<1>7. PICK i3 \in Int : i3 = b * a
  BY <1>1
<1>8. b (.) a = Mod(i3) /\ i3 \in Int
  BY <1>1, <1>7, ModOps
<1>9. PICK i4 \in Int : i4 = i3 * i1
  BY <1>8, <1>4
<1>10. b (.) a (.) (y (-) 1) = Mod(i4) /\ i4 \in Int
  BY <1>8, <1>4, <1>9, ModOps
<1>11. PICK i5 \in Int : i5 = i2 + i4
  BY <1>6, <1>10
<1>12. q (.) (y (-) 1) (+) b (.) a (.) (y (-) 1) = Mod(i5) /\ i5 \in Int
  BY <1>6, <1>10, <1>11, ModOps
<1>13. PICK i6 \in Int : i6 = q + i3
  BY <1>1, <1>8
<1>14. q (+) b (.) a = Mod(i6) /\ i6 \in Int
  BY <1>1, <1>8, <1>13, ModOps
<1>15. PICK i7 \in Int : i7 = i6 * i1
  BY <1>14, <1>4
<1>16. (q (+) b (.) a) (.) (y (-) 1) = Mod(i7) /\ i7 \in Int
  BY <1>14, <1>4, <1>15, ModOps
<1>17. i5 = i7
  BY <1>1, <1>3, <1>5, <1>7, <1>9, <1>11, <1>13, <1>15
<1> QED BY <1>12, <1>16, <1>17

LEMMA SubProduct ==
  \A r, b, a \in F :
     r (-) b (.) (0 (-) a)
       = r (+) b (.) a
<1> TAKE r, b, a \in F
<1>1. /\ r \in Int /\ r = Mod(r)
      /\ b \in Int /\ b = Mod(b)
      /\ a \in Int /\ a = Mod(a)
  BY ModOfElement
<1>2. 0 \in Int /\ 0 = Mod(0)
  BY ZeroOne, ModOfElement
<1>3. PICK i1 \in Int : i1 = 0 - a
  BY <1>2, <1>1
<1>4. 0 (-) a = Mod(i1) /\ i1 \in Int
  BY <1>2, <1>1, <1>3, ModOps
<1>5. PICK i2 \in Int : i2 = b * i1
  BY <1>1, <1>4
<1>6. b (.) (0 (-) a) = Mod(i2) /\ i2 \in Int
  BY <1>1, <1>4, <1>5, ModOps
<1>7. PICK i3 \in Int : i3 = r - i2
  BY <1>1, <1>6
<1>8. r (-) b (.) (0 (-) a) = Mod(i3) /\ i3 \in Int
  BY <1>1, <1>6, <1>7, ModOps
<1>9. PICK i4 \in Int : i4 = b * a
  BY <1>1
<1>10. b (.) a = Mod(i4) /\ i4 \in Int
  BY <1>1, <1>9, ModOps
<1>11. PICK i5 \in Int : i5 = r + i4
  BY <1>1, <1>10
<1>12. r (+) b (.) a = Mod(i5) /\ i5 \in Int
  BY <1>1, <1>10, <1>11, ModOps
<1>13. i3 = i5
  BY <1>1, <1>3, <1>5, <1>7, <1>9, <1>11
<1> QED BY <1>8, <1>12, <1>13

LEMMA DomainPower ==
  ASSUME NEW n, Order(n), NEW k \in Nat
  PROVE  /\ Power(Generator(n), k) \in F \ {0}
         /\ Power(Power(Generator(n), k), n) = 1
<1>1. n \in Nat /\ Generator(n) \in F \ {0} /\ Power(Generator(n), n) = 1
  BY SizePositive, GeneratorIs
<1>2. Power(Power(Generator(n), k), n) = Power(Power(Generator(n), n), k)
  <2>1. /\ Power(Power(Generator(n), k), n) = Power(Generator(n), k * n)
        /\ Power(Power(Generator(n), n), k) = Power(Generator(n), n * k)
    BY <1>1, PowerPower
  <2>2. k * n = n * k
    BY <1>1
  <2> QED BY <2>1, <2>2
<1> QED BY <1>1, <1>2, PowerOne, PowersInvert

\* X^k.
LEMMA EvalMonomial ==
  ASSUME NEW n \in Nat, NEW m \in Nat, m < n, NEW a \in F, NEW z \in F
  PROVE  /\ [k \in Upto(n) |-> IF k = m THEN a ELSE 0] \in Vec(n)
         /\ Eval([k \in Upto(n) |-> IF k = m THEN a ELSE 0], z) = Power(z, m) (.) a
<1> DEFINE v == [k \in Upto(n) |-> IF k = m THEN a ELSE 0]
           t == [k \in Upto(n) |-> v[k] (.) Power(z, k)]
<1>1. v \in Vec(n) /\ m \in Upto(n) /\ v[m] = a /\ \A k \in Upto(n) : k # m => v[k] = 0
  BY ZeroOne, UptoIs DEF Vec
<1>2. t \in Vec(n) /\ Eval(v, z) = Total(t)
  <2> HIDE DEF v
  <2> QED BY <1>1, EvalTotal
<1>3. t[m] = Power(z, m) (.) a /\ \A k \in Upto(n) : k # m => t[k] = 0
  <2>1. \A k \in Upto(n) : Power(z, k) \in F
    BY UptoIs, PowerLaws
  <2> HIDE DEF v
  <2> QED BY <1>1, <2>1, Neutral, Commutes
<1>4. Total(t) = t[m]
  <2> HIDE DEF t
  <2> QED BY <1>2, <1>3, TotalOfOne
<1> QED BY <1>1, <1>2, <1>3, <1>4

\* A polynomial that vanishes on the subgroup of order n is a multiple of X^n - 1.
LEMMA Division ==
  ASSUME NEW n, Order(n), NEW m \in Nat, NEW p \in Vec(n + m),
         \A k \in Nat : k < n => Eval(p, Power(Generator(n), k)) = 0
  PROVE  \E q \in Vec(m) : \A z \in F : Eval(p, z) = Eval(q, z) (.) (Power(z, n) (-) 1)
<1> DEFINE u == Generator(n)
           Vanishes(r) == \A k \in Nat : k < n => Eval(r, Power(u, k)) = 0
           Multiple(r, e) == \E q \in Vec(e) : \A z \in F : Eval(r, z) = Eval(q, z) (.) (Power(z, n) (-) 1)
           P == {e \in Nat : \A r \in Vec(n + e) : Vanishes(r) => Multiple(r, e)}
<1>1. /\ n \in Nat /\ n > 0 /\ u \in F \ {0}
      /\ \A k \in Nat : Power(u, k) \in F /\ Power(Power(u, k), n) = 1
  BY SizePositive, DomainPower, GeneratorIs
<1>2. 0 \in P
  <2> SUFFICES ASSUME NEW r \in Vec(n + 0), Vanishes(r) PROVE Multiple(r, 0)
    OBVIOUS
  <2>1. r \in Vec(n)
    BY <1>1
  <2> DEFINE v == [j \in Upto(n) |-> Eval(r, Power(u, j))]
  <2>2. v = [j \in Upto(n) |-> 0]
    BY <1>1, UptoIs
  <2>3. \A k \in Upto(n) : r[k] = 0
    <3> TAKE k \in Upto(n)
    <3>1. k \in Nat /\ k < n
      BY <1>1, UptoIs
    <3>2. Inv(n) (.) Eval(v, Power(Inv(u), k)) = r[k]
      BY <2>1, <3>1, GeneratorPrimitive, Inversion
    <3>3. Power(Inv(u), k) \in F /\ Inv(n) \in F
      <4>1. Inv(u) \in F /\ n \in F
        BY <1>1, InverseIs, OrderIs
      <4> QED BY <3>1, <4>1, PowerLaws, InvType
    <3>4. Eval(v, Power(Inv(u), k)) = 0
      BY <1>1, <2>2, <3>3, EvalZero
    <3> QED BY <3>2, <3>3, <3>4, Neutral
  <2>4. r = [k \in Upto(n) |-> 0]
    BY <2>1, <2>3 DEF Vec
  <2> DEFINE q == [k \in Upto(0) |-> 0]
  <2>5. q \in Vec(0)
    BY ZeroOne DEF Vec
  <2>6. \A z \in F : Eval(r, z) = Eval(q, z) (.) (Power(z, n) (-) 1)
    <3> TAKE z \in F
    <3>1. Eval(r, z) = 0 /\ Eval(q, z) = 0
      BY <1>1, <2>4, EvalZero
    <3>2. Power(z, n) (-) 1 \in F
      BY <1>1, PowerLaws, ZeroOne, Closed
    <3> HIDE DEF q
    <3> QED BY <3>1, <3>2, Neutral
  <2> HIDE DEF q
  <2> QED BY <2>5, <2>6
<1>3. ASSUME NEW e \in Nat, e \in P PROVE e + 1 \in P
  <2> SUFFICES ASSUME NEW r \in Vec(n + (e + 1)), Vanishes(r) PROVE Multiple(r, e + 1)
    OBVIOUS
  <2>0. PICK ne \in Nat : ne = n + e /\ ne + 1 = n + (e + 1) /\ e < ne
    BY <1>1
  <2> DEFINE a  == r[ne]
             o  == [k \in Upto(1) |-> a]
             r0 == [k \in Upto(ne) |-> r[k]]
             mono == [k \in Upto(ne) |-> IF k = e THEN 0 (-) a ELSE 0]
             y == [k \in Upto(ne) |-> r0[k] (-) mono[k]]
  <2>1. r0 \in Vec(ne) /\ a \in F
    <3>1. r \in Vec(ne + 1)
      BY <2>0
    <3> QED BY <3>1, TotalSnoc
  <2>2. o \in Vec(1) /\ \A z \in F : Eval(o, z) = a
    BY <2>1, EvalConstant
  <2>3. 0 (-) a \in F
    BY <2>1, ZeroOne, Closed
  <2>4. mono \in Vec(ne) /\ \A z \in F : Eval(mono, z) = Power(z, e) (.) (0 (-) a)
    <3>1. PICK b \in F : b = 0 (-) a
      BY <2>3
    <3> HIDE DEF a
    <3> QED BY <2>0, <3>1, ZeroOne, EvalMonomial
  <2>5. y \in Vec(ne) /\ \A z \in F : Eval(y, z) = Eval(r0, z) (-) Eval(mono, z)
    <3> HIDE DEF r0, mono
    <3> QED BY <2>1, <2>4, ZeroOne, EvalSub
  <2>6. r = Concat(r0, o)
    <3>1. Concat(r0, o) = [k \in Upto(ne + 1) |-> IF k < ne THEN r0[k] ELSE o[k - ne]]
      <4> HIDE DEF r0, o
      <4> QED BY <2>1, <2>2, EvalConcat
    <3>2. \A k \in Upto(ne + 1) : (IF k < ne THEN r0[k] ELSE o[k - ne]) = r[k]
      <4> TAKE k \in Upto(ne + 1)
      <4>1. CASE k < ne
        BY <4>1 DEF Upto
      <4>2. CASE ~(k < ne)
        <5>1. k = ne /\ k - ne \in Upto(1)
          BY <4>2 DEF Upto
        <5> QED BY <4>2, <5>1
      <4> QED BY <4>1, <4>2
    <3>3. r = [k \in Upto(ne + 1) |-> r[k]]
      BY <2>0 DEF Vec
    <3> HIDE DEF r0, o
    <3> QED BY <3>1, <3>2, <3>3
  <2>7. ASSUME NEW z \in F
        PROVE  Eval(r, z) = Eval(y, z) (+) (Power(z, e) (.) a) (.) (Power(z, n) (-) 1)
    <3> DEFINE zn == Power(z, n)
               b  == Power(z, e)
               w  == Eval(r0, z)
    <3>1. zn \in F /\ b \in F /\ w \in F /\ Power(z, ne) = b (.) zn
      <4>1. zn \in F /\ b \in F /\ w \in F
        BY <1>1, <2>1, PowerLaws, EvalType
      <4>2. Power(z, n + e) = zn (.) b
        BY <1>1, PowerLaws
      <4> HIDE DEF zn, b
      <4> QED BY <2>0, <4>1, <4>2, Commutes
    <3>2. Eval(r, z) = w (+) ((b (.) zn) (.) a)
      <4>1. Eval(Concat(r0, o), z) = Eval(r0, z) (+) (Power(z, ne) (.) Eval(o, z))
        <5> HIDE DEF r0, o
        <5> QED BY <2>1, <2>2, EvalConcat
      <4> HIDE DEF r0, o
      <4> QED BY <2>2, <2>6, <3>1, <4>1
    <3>3. Eval(y, z) = w (-) (b (.) (0 (-) a))
      BY <2>4, <2>5
    <3> HIDE DEF zn, b, w, y, a
    <3>4. Eval(y, z) = w (+) b (.) a
      BY <2>1, <3>1, <3>3, SubProduct
    <3>5. (w (+) b (.) a) (+) (b (.) a) (.) (zn (-) 1) = w (+) (b (.) zn) (.) a
      BY <2>1, <3>1, DivideStep
    <3> QED BY <3>2, <3>4, <3>5 DEF zn, b
  <2>8. Vanishes(y)
    <3> SUFFICES ASSUME NEW k \in Nat, k < n PROVE Eval(y, Power(u, k)) = 0
      OBVIOUS
    <3> DEFINE z == Power(u, k)
    <3> HIDE DEF y, a, u
    <3>1. z \in F /\ Power(z, n) = 1 /\ Eval(r, z) = 0
      BY <1>1
    <3>2. Power(z, e) (.) a \in F /\ Eval(y, z) \in F
      <4>1. y \in Vec(ne)
        BY <2>5
      <4> HIDE DEF z
      <4> QED BY <2>1, <3>1, <4>1, PowerLaws, Closed, EvalType
    <3> HIDE DEF z
    <3>3. (Power(z, e) (.) a) (.) (Power(z, n) (-) 1) = 0
      BY <3>1, <3>2, ZeroOne, Neutral
    <3>4. Eval(y, z) = 0
      BY <2>7, <3>1, <3>2, <3>3, Neutral
    <3> QED BY <3>4 DEF z
  <2>9. Multiple(y, e)
    <3> HIDE DEF y, Vanishes, Multiple
    <3> QED BY <1>3, <2>0, <2>5, <2>8
  <2>10. PICK q \in Vec(e) : \A z \in F : Eval(y, z) = Eval(q, z) (.) (Power(z, n) (-) 1)
    BY <2>9
  <2>11. Concat(q, o) \in Vec(e + 1)
    <3> HIDE DEF o
    <3> QED BY <2>2, EvalConcat
  <2>12. ASSUME NEW z \in F
         PROVE  Eval(r, z) = Eval(Concat(q, o), z) (.) (Power(z, n) (-) 1)
    <3> HIDE DEF o, y, a
    <3>1. Eval(Concat(q, o), z) = Eval(q, z) (+) (Power(z, e) (.) Eval(o, z))
      BY <2>2, EvalConcat
    <3>2. Eval(q, z) \in F /\ Power(z, e) \in F /\ Power(z, n) \in F
      BY <1>1, EvalType, PowerLaws
    <3>3. PICK qz \in F, b \in F, zn \in F : qz = Eval(q, z) /\ b = Power(z, e) /\ zn = Power(z, n)
      BY <3>2
    <3>4. qz (.) (zn (-) 1) (+) (b (.) a) (.) (zn (-) 1) = (qz (+) b (.) a) (.) (zn (-) 1)
      BY <2>1, <3>3, DivideJoin
    <3> QED BY <2>2, <2>7, <2>10, <3>1, <3>3, <3>4
  <2> QED BY <2>11, <2>12
<1>4. m \in P
  <2>1. Nat \subseteq P
    <3> HIDE DEF P
    <3> QED BY <1>2, <1>3, Induction
  <2> QED BY <2>1
<1> QED BY <1>4

-------------------------------------------------------------------------------
(* Bit reversal undoes itself.                                             *)

\* One bit of a reversal table: f are the powers of two.
LEMMA ReversalBit ==
  ASSUME NEW n \in Nat, NEW rev, IsReversal(rev, n), NEW f, Doubles(f), NEW e \in Nat,
         f[e + 1] <= n
  PROVE  /\ f[e] \in Nat /\ f[e + 1] = 2 * f[e] /\ f[e] <= n
         /\ \A j \in 0 .. n : rev[f[e + 1]][j] = (j % 2) * f[e] + rev[f[e]][j \div 2]
<1>1. PICK q \in Nat : q = f[e] /\ q >= 1 /\ f[e + 1] = 2 * q
  <2>1. f[e] \in Nat /\ f[e] > e
    BY DoublesAre
  <2>2. f[e + 1] = 2 * f[e]
    BY DEF Doubles
  <2> QED BY <2>1, <2>2
<1>2. (2 * q) \div 2 = q /\ 2 * q \in 0 .. n /\ 2 * q > 1 /\ q <= n
  BY <1>1
<1>3. \A m \in 0 .. n, j \in 0 .. n :
        rev[m][j] = IF m <= 1 THEN 0 ELSE (j % 2) * (m \div 2) + rev[m \div 2][j \div 2]
  BY DEF IsReversal
<1>4. PICK m \in 0 .. n : m = 2 * q /\ ~ m <= 1 /\ m \div 2 = q
  BY <1>2
<1>5. ASSUME NEW j \in 0 .. n PROVE rev[m][j] = (j % 2) * q + rev[q][j \div 2]
  <2>1. rev[m][j] = IF m <= 1 THEN 0 ELSE (j % 2) * (m \div 2) + rev[m \div 2][j \div 2]
    BY ONLY <1>3, m \in 0 .. n, <1>5
  <2> QED BY ONLY <2>1, <1>4
<1>6. \A j \in 0 .. n : rev[m][j] = (j % 2) * q + rev[q][j \div 2]
  BY <1>5
<1> QED BY ONLY <1>1, <1>2, <1>4, <1>6

\* The reversal of at most one bit, its range and that it undoes itself.
LEMMA ReversalOne ==
  ASSUME NEW n \in Nat \ {0}, NEW rev, IsReversal(rev, n)
  PROVE  \A j \in 0 .. n : rev[1][j] = 0
<1>1. 1 \in 0 .. n
  OBVIOUS
<1> QED BY <1>1 DEF IsReversal

LEMMA ReversalRange ==
  ASSUME NEW n \in Nat \ {0}, NEW rev, IsReversal(rev, n), NEW f, Doubles(f)
  PROVE  \A e \in Nat : f[e] <= n =>
            \A j \in 0 .. n : rev[f[e]][j] \in Nat /\ rev[f[e]][j] < f[e]
<1> DEFINE P == {e \in Nat : f[e] <= n =>
                   \A j \in 0 .. n : rev[f[e]][j] \in Nat /\ rev[f[e]][j] < f[e]}
<1>1. 0 \in P
  BY ReversalOne DEF Doubles
<1>2. ASSUME NEW e \in Nat, e \in P PROVE e + 1 \in P
  <2> SUFFICES ASSUME f[e + 1] <= n, NEW j \in 0 .. n
               PROVE  rev[f[e + 1]][j] \in Nat /\ rev[f[e + 1]][j] < f[e + 1]
    OBVIOUS
  <2>1. /\ f[e] \in Nat /\ f[e + 1] = 2 * f[e] /\ f[e] <= n
        /\ rev[f[e + 1]][j] = (j % 2) * f[e] + rev[f[e]][j \div 2]
    BY ReversalBit
  <2>2. j \div 2 \in 0 .. n /\ j % 2 \in {0, 1}
    BY Half
  <2>3. rev[f[e]][j \div 2] \in Nat /\ rev[f[e]][j \div 2] < f[e]
    BY <1>2, <2>1, <2>2
  <2>4. PICK b \in {0, 1}, r \in Nat, q \in Nat : b = j % 2 /\ r = rev[f[e]][j \div 2] /\ q = f[e]
    BY <2>1, <2>2, <2>3
  <2>5. rev[f[e + 1]][j] = b * q + r /\ r < q /\ f[e + 1] = 2 * q
    BY ONLY <2>1, <2>3, <2>4
  <2>6. b * q + r \in Nat /\ b * q + r < 2 * q
    <3>1. CASE b = 0
      BY ONLY <2>5, <3>1, q \in Nat, r \in Nat
    <3>2. CASE b = 1
      BY ONLY <2>5, <3>2, q \in Nat, r \in Nat
    <3> QED BY <3>1, <3>2
  <2> QED BY <2>5, <2>6
<1>3. Nat \subseteq P
  <2> HIDE DEF P
  <2> QED BY <1>1, <1>2, Induction
<1> QED BY <1>3

\* The first bit of the argument is the last of the result.
LEMMA ReversalHigh ==
  ASSUME NEW n \in Nat \ {0}, NEW rev, IsReversal(rev, n), NEW f, Doubles(f)
  PROVE  \A e \in Nat : f[e + 1] <= n =>
            \A a \in {0, 1}, b \in Nat : b < f[e] =>
               rev[f[e + 1]][a * f[e] + b] = 2 * rev[f[e]][b] + a
<1> DEFINE P == {e \in Nat : f[e + 1] <= n =>
                   \A a \in {0, 1}, b \in Nat : b < f[e] =>
                      rev[f[e + 1]][a * f[e] + b] = 2 * rev[f[e]][b] + a}
<1>1. 0 \in P
  <2> SUFFICES ASSUME f[0 + 1] <= n, NEW a \in {0, 1}, NEW b \in Nat, b < f[0]
               PROVE  rev[f[0 + 1]][a * f[0] + b] = 2 * rev[f[0]][b] + a
    OBVIOUS
  <2>1. f[0] = 1 /\ b = 0 /\ a * f[0] + b = a
    BY DEF Doubles
  <2>2. a \in 0 .. n /\ 0 \in 0 .. n
    BY <2>1, ReversalBit
  <2>3. rev[f[0 + 1]][a] = (a % 2) * f[0] + rev[f[0]][a \div 2]
    BY <2>2, ReversalBit
  <2>4. a % 2 = a /\ a \div 2 = 0
    OBVIOUS
  <2>5. rev[1][0] = 0
    BY <2>2, ReversalOne
  <2> QED BY <2>1, <2>3, <2>4, <2>5
<1>2. ASSUME NEW e \in Nat, e \in P PROVE e + 1 \in P
  <2> SUFFICES ASSUME f[e + 1 + 1] <= n, NEW a \in {0, 1}, NEW b \in Nat, b < f[e + 1]
               PROVE  rev[f[e + 1 + 1]][a * f[e + 1] + b] = 2 * rev[f[e + 1]][b] + a
    OBVIOUS
  <2>1. f[e + 1] \in Nat /\ f[e + 1 + 1] = 2 * f[e + 1] /\ f[e + 1] <= n
    BY ReversalBit
  <2>2. f[e] \in Nat /\ f[e + 1] = 2 * f[e] /\ f[e] <= n
    BY <2>1, ReversalBit
  <2>21. \A j \in 0 .. n : /\ rev[f[e + 1]][j] = (j % 2) * f[e] + rev[f[e]][j \div 2]
                           /\ rev[f[e + 1 + 1]][j] = (j % 2) * f[e + 1] + rev[f[e + 1]][j \div 2]
    <3>1. e + 1 \in Nat
      OBVIOUS
    <3>2. \A j \in 0 .. n : rev[f[e + 1 + 1]][j] = (j % 2) * f[e + 1] + rev[f[e + 1]][j \div 2]
      BY <3>1, ReversalBit
    <3>3. \A j \in 0 .. n : rev[f[e + 1]][j] = (j % 2) * f[e] + rev[f[e]][j \div 2]
      BY <2>1, ReversalBit
    <3> QED BY ONLY <3>2, <3>3
  <2>3. PICK q \in Nat : q = f[e] /\ f[e + 1] = 2 * q /\ f[e + 1 + 1] = 4 * q
    BY <2>1, <2>2
  <2>4. PICK c \in {0, 1}, d \in Nat : c = b % 2 /\ d = b \div 2 /\ b = 2 * d + c
    BY Half
  <2>5. d < q
    BY <2>3, <2>4
  <2>6. PICK g \in Nat : g = a * q + d
    BY <2>3, <2>4
  <2>7. PICK k \in Nat : k = a * (2 * q) + b /\ k = 2 * g + c /\ k \in 0 .. n /\ b \in 0 .. n
    <3>1. CASE a = 0
      BY <3>1, <2>1, <2>3, <2>4, <2>6
    <3>2. CASE a = 1
      BY <3>2, <2>1, <2>3, <2>4, <2>6
    <3> QED BY <3>1, <3>2
  <2>8. k % 2 = c /\ k \div 2 = g
    BY <2>7
  <2>9. rev[4 * q][k] = c * (2 * q) + rev[2 * q][g]
    <3>1. rev[f[e + 1 + 1]][k] = (k % 2) * f[e + 1] + rev[f[e + 1]][k \div 2]
      BY ONLY <2>7, <2>21
    <3> QED BY ONLY <3>1, <2>3, <2>8
  <2>10. rev[2 * q][b] = c * q + rev[q][d]
    <3>1. rev[f[e + 1]][b] = (b % 2) * f[e] + rev[f[e]][b \div 2]
      <4>1. b \in 0 .. n
        BY ONLY <2>7
      <4> QED BY ONLY <4>1, <2>21
    <3> QED BY ONLY <3>1, <2>3, <2>4
  <2>11. rev[2 * q][g] = 2 * rev[q][d] + a
    <3>1. rev[f[e + 1]][a * f[e] + d] = 2 * rev[f[e]][d] + a
      BY <1>2, <2>1, <2>3, <2>4, <2>5
    <3> QED BY ONLY <3>1, <2>3, <2>6
  <2>12. rev[q][d] \in Nat
    <3>1. d \in 0 .. n
      BY <2>4, <2>5, <2>2, <2>3
    <3> QED BY <2>2, <2>3, <3>1, ReversalRange
  <2>13. PICK r \in Nat : r = rev[q][d]
    BY <2>12
  <2>14. c * (2 * q) + (2 * r + a) = 2 * (c * q + r) + a
    <3>1. CASE c = 0
      BY <3>1
    <3>2. CASE c = 1
      BY <3>2
    <3> QED BY <3>1, <3>2
  <2> QED BY ONLY <2>3, <2>7, <2>9, <2>10, <2>11, <2>13, <2>14
<1>3. Nat \subseteq P
  <2> HIDE DEF P
  <2> QED BY <1>1, <1>2, Induction
<1> QED BY <1>3

LEMMA ReversalTwice ==
  ASSUME NEW n \in Nat \ {0}, NEW rev, IsReversal(rev, n), NEW f, Doubles(f)
  PROVE  \A e \in Nat : f[e] <= n =>
            \A j \in Nat : j < f[e] => rev[f[e]][rev[f[e]][j]] = j
<1> DEFINE P == {e \in Nat : f[e] <= n =>
                   \A j \in Nat : j < f[e] => rev[f[e]][rev[f[e]][j]] = j}
<1>1. 0 \in P
  BY ReversalOne DEF Doubles
<1>2. ASSUME NEW e \in Nat, e \in P PROVE e + 1 \in P
  <2> SUFFICES ASSUME f[e + 1] <= n, NEW j \in Nat, j < f[e + 1]
               PROVE  rev[f[e + 1]][rev[f[e + 1]][j]] = j
    OBVIOUS
  <2>1. j \in 0 .. n
    BY ReversalBit
  <2>2. /\ f[e] \in Nat /\ f[e + 1] = 2 * f[e] /\ f[e] <= n
        /\ rev[f[e + 1]][j] = (j % 2) * f[e] + rev[f[e]][j \div 2]
    BY <2>1, ReversalBit
  <2>3. PICK c \in {0, 1}, d \in Nat : c = j % 2 /\ d = j \div 2 /\ j = 2 * d + c
    BY Half
  <2>4. d < f[e] /\ d \in 0 .. n
    BY <2>1, <2>2, <2>3
  <2>5. rev[f[e]][d] \in Nat /\ rev[f[e]][d] < f[e]
    BY <2>2, <2>4, ReversalRange
  <2>6. rev[f[e + 1]][c * f[e] + rev[f[e]][d]] = 2 * rev[f[e]][rev[f[e]][d]] + c
    BY <2>5, ReversalHigh
  <2>7. rev[f[e]][rev[f[e]][d]] = d
    BY <1>2, <2>2, <2>4
  <2> QED BY ONLY <2>2, <2>3, <2>6, <2>7
<1>3. Nat \subseteq P
  <2> HIDE DEF P
  <2> QED BY <1>1, <1>2, Induction
<1> QED BY <1>3

LEMMA BitReverseTwice ==
  ASSUME NEW n \in Nat \ {0}, PowerOfTwo(n), NEW k \in Upto(n)
  PROVE  BitReverse(BitReverse(k, n), n) = k
<1> DEFINE rev == CHOOSE rev : IsReversal(rev, n)
<1>1. IsReversal(rev, n)
  BY ReversalExists
<1>2. \A j : BitReverse(j, n) = rev[n][j]
  BY DEF BitReverse, IsReversal
<1> HIDE DEF rev
<1>3. PICK f : Doubles(f)
  BY DoublesExist
<1>4. PICK e \in Nat : n = f[e]
  BY <1>3, PowersOfTwoAre
<1>5. k \in Nat /\ k < n
  BY UptoIs
<1>6. rev[n][rev[n][k]] = k
  BY <1>1, <1>3, <1>4, <1>5, ReversalTwice
<1> QED BY <1>2, <1>6

-------------------------------------------------------------------------------
(* Products, and that they do not depend on the order.                     *)

\* Reassociations of products.
LEMMA MulSwap ==
  \A p, q, r, t \in F :
     (p (.) q) (.) (r (.) t)
       = (p (.) r) (.) (q (.) t)
<1> TAKE p, q, r, t \in F
<1>1. /\ p \in Int /\ p = Mod(p)
      /\ q \in Int /\ q = Mod(q)
      /\ r \in Int /\ r = Mod(r)
      /\ t \in Int /\ t = Mod(t)
  BY ModOfElement
<1>2. PICK i1 \in Int : i1 = p * q
  BY <1>1
<1>3. p (.) q = Mod(i1) /\ i1 \in Int
  BY <1>1, <1>2, ModOps
<1>4. PICK i2 \in Int : i2 = r * t
  BY <1>1
<1>5. r (.) t = Mod(i2) /\ i2 \in Int
  BY <1>1, <1>4, ModOps
<1>6. PICK i3 \in Int : i3 = i1 * i2
  BY <1>3, <1>5
<1>7. p (.) q (.) (r (.) t) = Mod(i3) /\ i3 \in Int
  BY <1>3, <1>5, <1>6, ModOps
<1>8. PICK i4 \in Int : i4 = p * r
  BY <1>1
<1>9. p (.) r = Mod(i4) /\ i4 \in Int
  BY <1>1, <1>8, ModOps
<1>10. PICK i5 \in Int : i5 = q * t
  BY <1>1
<1>11. q (.) t = Mod(i5) /\ i5 \in Int
  BY <1>1, <1>10, ModOps
<1>12. PICK i6 \in Int : i6 = i4 * i5
  BY <1>9, <1>11
<1>13. p (.) r (.) (q (.) t) = Mod(i6) /\ i6 \in Int
  BY <1>9, <1>11, <1>12, ModOps
<1>14. i3 = i6
  BY <1>1, <1>2, <1>4, <1>6, <1>8, <1>10, <1>12
<1> QED BY <1>7, <1>13, <1>14

LEMMA MulLast ==
  \A p, q, r \in F :
     (p (.) q) (.) r
       = (p (.) r) (.) q
<1> TAKE p, q, r \in F
<1>1. /\ p \in Int /\ p = Mod(p)
      /\ q \in Int /\ q = Mod(q)
      /\ r \in Int /\ r = Mod(r)
  BY ModOfElement
<1>2. PICK i1 \in Int : i1 = p * q
  BY <1>1
<1>3. p (.) q = Mod(i1) /\ i1 \in Int
  BY <1>1, <1>2, ModOps
<1>4. PICK i2 \in Int : i2 = i1 * r
  BY <1>3, <1>1
<1>5. p (.) q (.) r = Mod(i2) /\ i2 \in Int
  BY <1>3, <1>1, <1>4, ModOps
<1>6. PICK i3 \in Int : i3 = p * r
  BY <1>1
<1>7. p (.) r = Mod(i3) /\ i3 \in Int
  BY <1>1, <1>6, ModOps
<1>8. PICK i4 \in Int : i4 = i3 * q
  BY <1>7, <1>1
<1>9. p (.) r (.) q = Mod(i4) /\ i4 \in Int
  BY <1>7, <1>1, <1>8, ModOps
<1>10. i2 = i4
  BY <1>1, <1>2, <1>4, <1>6, <1>8
<1> QED BY <1>5, <1>9, <1>10

\* p[k] is the product of the first k entries of v.
IsPartial(p, v) == p \in [Nat -> F] /\ p[0] = 1 /\ \A k \in Nat : p[k + 1] = p[k] (.) v[k]
Partial(v) == CHOOSE p : IsPartial(p, v)

\* The partial products exist, and two sequences with equal terms have the same.
LEMMA PartialIs == ASSUME NEW v \in [Nat -> F] PROVE IsPartial(Partial(v), v)
<1> DEFINE G == [q \in Nat \X F |-> q[2] (.) v[q[1]]]
<1>1. G \in [Nat \X F -> F]
  <2>1. \A q \in Nat \X F : q[2] \in F /\ q[1] \in Nat
    OBVIOUS
  <2> QED BY <2>1, Closed
<1>2. \A n \in Nat, b \in F : G[<<n, b>>] = b (.) v[n]
  OBVIOUS
<1> HIDE DEF G
<1>3. IsStep(F, 1, G)
  BY <1>1, ZeroOne DEF IsStep
<1>4. PICK p : Follows(p, F, 1, G)
  BY <1>3, Recursion
<1>5. IsPartial(p, v)
  BY <1>2, <1>4 DEF Follows, IsPartial
<1> QED BY <1>5 DEF Partial

LEMMA PartialSame ==
  ASSUME NEW v \in [Nat -> F], NEW u \in [Nat -> F], NEW n \in Nat,
         \A k \in Nat : k < n => v[k] = u[k]
  PROVE  Partial(v)[n] = Partial(u)[n]
<1>1. IsPartial(Partial(v), v) /\ IsPartial(Partial(u), u)
  BY PartialIs
<1> DEFINE P == {k \in Nat : k <= n => Partial(v)[k] = Partial(u)[k]}
<1>2. 0 \in P
  BY <1>1 DEF IsPartial
<1>3. ASSUME NEW k \in Nat, k \in P PROVE k + 1 \in P
  BY <1>1, <1>3 DEF IsPartial
<1>4. Nat \subseteq P
  <2> HIDE DEF P
  <2> QED BY <1>2, <1>3, Induction
<1> QED BY <1>4

\* Products of products, and of a sequence cut in two.
LEMMA PartialMul ==
  ASSUME NEW u \in [Nat -> F], NEW v \in [Nat -> F]
  PROVE  /\ [k \in Nat |-> u[k] (.) v[k]] \in [Nat -> F]
         /\ \A n \in Nat : Partial([k \in Nat |-> u[k] (.) v[k]])[n] = Partial(u)[n] (.) Partial(v)[n]
<1>1. [k \in Nat |-> u[k] (.) v[k]] \in [Nat -> F]
  BY Closed
<1>2. PICK y \in [Nat -> F] : y = [k \in Nat |-> u[k] (.) v[k]]
  BY <1>1
<1>3. IsPartial(Partial(v), v) /\ IsPartial(Partial(u), u) /\ IsPartial(Partial(y), y)
  BY PartialIs
<1>4. PICK p, q, r \in [Nat -> F] : p = Partial(u) /\ q = Partial(v) /\ r = Partial(y)
  BY <1>3 DEF IsPartial
<1>5. IsPartial(p, u) /\ IsPartial(q, v) /\ IsPartial(r, y)
  BY <1>3, <1>4
<1> DEFINE P == {k \in Nat : r[k] = p[k] (.) q[k]}
<1>6. 0 \in P
  BY <1>5, ZeroOne, Neutral DEF IsPartial
<1>7. ASSUME NEW k \in Nat, k \in P PROVE k + 1 \in P
  <2>1. r[k + 1] = (p[k] (.) q[k]) (.) (u[k] (.) v[k])
    BY <1>2, <1>5, <1>7 DEF IsPartial
  <2>2. (p[k] (.) q[k]) (.) (u[k] (.) v[k]) = (p[k] (.) u[k]) (.) (q[k] (.) v[k])
    <3>1. p[k] \in F /\ q[k] \in F /\ u[k] \in F /\ v[k] \in F
      OBVIOUS
    <3> QED BY <3>1, MulSwap
  <2>3. p[k + 1] = p[k] (.) u[k] /\ q[k + 1] = q[k] (.) v[k] /\ k + 1 \in Nat
    BY <1>5 DEF IsPartial
  <2> QED BY <2>1, <2>2, <2>3
<1>8. Nat \subseteq P
  <2> HIDE DEF P
  <2> QED BY <1>6, <1>7, Induction
<1> QED BY <1>1, <1>2, <1>4, <1>8

LEMMA PartialSplit ==
  ASSUME NEW v \in [Nat -> F], NEW m \in Nat
  PROVE  /\ [k \in Nat |-> v[m + k]] \in [Nat -> F]
         /\ \A n \in Nat : Partial(v)[m + n] = Partial(v)[m] (.) Partial([k \in Nat |-> v[m + k]])[n]
<1>1. [k \in Nat |-> v[m + k]] \in [Nat -> F]
  OBVIOUS
<1>2. PICK y \in [Nat -> F] : y = [k \in Nat |-> v[m + k]]
  BY <1>1
<1>3. IsPartial(Partial(v), v) /\ IsPartial(Partial(y), y)
  BY PartialIs
<1>4. PICK p, r \in [Nat -> F] : p = Partial(v) /\ r = Partial(y)
  BY <1>3 DEF IsPartial
<1>5. IsPartial(p, v) /\ IsPartial(r, y)
  BY <1>3, <1>4
<1> DEFINE P == {k \in Nat : p[m + k] = p[m] (.) r[k]}
<1>6. 0 \in P
  BY <1>5, Neutral DEF IsPartial
<1>7. ASSUME NEW k \in Nat, k \in P PROVE k + 1 \in P
  <2>1. p[m + k + 1] = p[m + k] (.) v[m + k]
    BY <1>5 DEF IsPartial
  <2>2. r[k + 1] = r[k] (.) v[m + k]
    BY <1>2, <1>5 DEF IsPartial
  <2>3. (p[m] (.) r[k]) (.) v[m + k] = p[m] (.) (r[k] (.) v[m + k])
    <3>1. p[m] \in F /\ r[k] \in F /\ v[m + k] \in F
      OBVIOUS
    <3> QED BY <3>1, Associates
  <2>4. m + (k + 1) = m + k + 1
    OBVIOUS
  <2> QED BY <1>7, <2>1, <2>2, <2>3, <2>4
<1>8. Nat \subseteq P
  <2> HIDE DEF P
  <2> QED BY <1>6, <1>7, Induction
<1> QED BY <1>1, <1>2, <1>4, <1>8

\* One entry changed.
LEMMA PartialChange ==
  ASSUME NEW v \in [Nat -> F], NEW m \in Nat, NEW a \in F
  PROVE  /\ [v EXCEPT ![m] = a] \in [Nat -> F]
         /\ \A n \in Nat : m < n =>
              Partial(v)[n] (.) a = Partial([v EXCEPT ![m] = a])[n] (.) v[m]
<1>1. PICK y \in [Nat -> F] : y = [v EXCEPT ![m] = a]
  OBVIOUS
<1>2. IsPartial(Partial(v), v) /\ IsPartial(Partial(y), y)
  BY PartialIs
<1>3. PICK p, r \in [Nat -> F] : p = Partial(v) /\ r = Partial(y)
  BY <1>2 DEF IsPartial
<1>4. IsPartial(p, v) /\ IsPartial(r, y)
  BY <1>2, <1>3
<1>5. p[m] = r[m]
  <2>1. \A k \in Nat : k < m => v[k] = y[k]
    BY <1>1
  <2> QED BY <1>3, <2>1, PartialSame
<1> DEFINE P == {n \in Nat : m < n => p[n] (.) a = r[n] (.) v[m]}
<1>6. 0 \in P
  OBVIOUS
<1>7. ASSUME NEW n \in Nat, n \in P PROVE n + 1 \in P
  <2> SUFFICES ASSUME m < n + 1 PROVE p[n + 1] (.) a = r[n + 1] (.) v[m]
    OBVIOUS
  <2>1. p[n + 1] = p[n] (.) v[n] /\ r[n + 1] = r[n] (.) y[n]
    BY <1>4 DEF IsPartial
  <2>2. p[n] \in F /\ r[n] \in F /\ v[n] \in F /\ y[n] \in F /\ v[m] \in F
    OBVIOUS
  <2>3. CASE n = m
    <3>1. y[n] = a /\ r[n] = p[n]
      BY <1>1, <1>5, <2>3
    <3> QED BY <2>1, <2>2, <2>3, <3>1, MulLast
  <2>4. CASE m < n
    <3>1. y[n] = v[n] /\ p[n] (.) a = r[n] (.) v[m]
      BY <1>1, <1>7, <2>4
    <3>2. (p[n] (.) v[n]) (.) a = (p[n] (.) a) (.) v[n]
      BY <2>2, MulLast
    <3>3. (r[n] (.) v[n]) (.) v[m] = (r[n] (.) v[m]) (.) v[n]
      BY <2>2, MulLast
    <3> QED BY <2>1, <3>1, <3>2, <3>3
  <2> QED BY <2>3, <2>4
<1>8. Nat \subseteq P
  <2> HIDE DEF P
  <2> QED BY <1>6, <1>7, Induction
<1> QED BY <1>1, <1>3, <1>8

Injective(f) == \A j, k \in DOMAIN f : f[j] = f[k] => j = k

\* An injection of 0 .. n - 1 into itself hits every number.
LEMMA InjectiveHits ==
  ASSUME NEW n \in Nat, NEW f \in [Upto(n) -> Upto(n)], Injective(f), NEW k \in Upto(n)
  PROVE  \E j \in Upto(n) : f[j] = k
<1> SUFFICES ASSUME \A j \in Upto(n) : f[j] # k PROVE FALSE
  OBVIOUS
<1>1. n > 0
  BY UptoIs
<1>2. IsFiniteSet(Upto(n)) /\ Cardinality(Upto(n)) = n
  BY FS_Interval DEF Upto
<1>3. IsFiniteSet(Upto(n) \ {k}) /\ Cardinality(Upto(n) \ {k}) = n - 1
  BY <1>2, FS_RemoveElement
<1>4. f \in [Upto(n) -> Upto(n) \ {k}]
  OBVIOUS
<1>5. Cardinality(Upto(n) \ {k}) < Cardinality(Upto(n))
  BY <1>2, <1>3
<1>6. \E a, b \in Upto(n) : a # b /\ f[a] = f[b]
  BY <1>2, <1>3, <1>4, <1>5, FS_PigeonHole
<1> QED BY <1>6 DEF Injective

\* The entries of v in the order of f.
Arranged(v, f, n) == [k \in Nat |-> IF k < n THEN v[f[k]] ELSE 1]

LEMMA ArrangedType ==
  ASSUME NEW v \in [Nat -> F], NEW n \in Nat, NEW f \in [Upto(n) -> Nat]
  PROVE  Arranged(v, f, n) \in [Nat -> F]
BY UptoIs, ZeroOne DEF Arranged

\* Products over a rearrangement.
LEMMA PartialArranged ==
  ASSUME NEW v \in [Nat -> F]
  PROVE  \A n \in Nat : \A f \in [Upto(n) -> Upto(n)] :
            Injective(f) => Partial(Arranged(v, f, n))[n] = Partial(v)[n]
<1> DEFINE P == {n \in Nat : \A f \in [Upto(n) -> Upto(n)] :
                   Injective(f) => Partial(Arranged(v, f, n))[n] = Partial(v)[n]}
<1>1. 0 \in P
  <2> SUFFICES ASSUME NEW f \in [Upto(0) -> Upto(0)] PROVE Partial(Arranged(v, f, 0))[0] = Partial(v)[0]
    OBVIOUS
  <2>1. f \in [Upto(0) -> Nat]
    BY DEF Upto
  <2> QED BY <2>1, ArrangedType, PartialSame
<1>2. ASSUME NEW n \in Nat, n \in P PROVE n + 1 \in P
  <2> SUFFICES ASSUME NEW f \in [Upto(n + 1) -> Upto(n + 1)], Injective(f)
               PROVE  Partial(Arranged(v, f, n + 1))[n + 1] = Partial(v)[n + 1]
    OBVIOUS
  <2>1. n \in Upto(n + 1) /\ (\A k : k \in Upto(n + 1) <=> k \in Nat /\ k < n + 1)
        /\ (\A k : k \in Upto(n) <=> k \in Nat /\ k < n)
    BY UptoIs
  <2>2. PICK m \in Upto(n + 1) : f[m] = n
    BY <2>1, InjectiveHits
  <2>3. f \in [Upto(n + 1) -> Nat] /\ \A k \in Nat : k < n + 1 => f[k] \in Nat /\ f[k] < n + 1
    BY <2>1
  <2>4. PICK u \in [Nat -> F] : u = Arranged(v, f, n + 1)
    BY <2>3, ArrangedType
  <2>5. \A k \in Nat : k < n + 1 => u[k] = v[f[k]]
    BY <2>4 DEF Arranged
  <2>6. IsPartial(Partial(u), u) /\ IsPartial(Partial(v), v)
    BY PartialIs
  <2>7. PICK g \in [Upto(n) -> Upto(n)] :
           /\ \A k \in Upto(n) : g[k] = IF k = m THEN f[n] ELSE f[k]
           /\ Injective(g)
    <3> DEFINE g == [k \in Upto(n) |-> IF k = m THEN f[n] ELSE f[k]]
    <3>1. ASSUME NEW k \in Upto(n) PROVE g[k] \in Upto(n)
      <4>1. k \in Nat /\ k < n /\ n \in Nat
        BY <2>1
      <4>2. CASE k = m
        <5>1. f[n] # n
          BY <2>1, <2>2, <4>1, <4>2 DEF Injective
        <5> QED BY <2>1, <2>3, <4>1, <4>2, <5>1
      <4>3. CASE k # m
        <5>1. f[k] # n
          BY <2>1, <2>2, <4>1, <4>3 DEF Injective
        <5> QED BY <2>1, <2>3, <4>1, <4>3, <5>1
      <4> QED BY <4>2, <4>3
    <3>2. Injective(g)
      <4> SUFFICES ASSUME NEW j \in Upto(n), NEW k \in Upto(n), g[j] = g[k] PROVE j = k
        BY DEF Injective
      <4>1. j \in Upto(n + 1) /\ k \in Upto(n + 1) /\ j # n /\ k # n /\ n \in Upto(n + 1)
        BY <2>1
      <4>2. \A a, b \in Upto(n + 1) : f[a] = f[b] => a = b
        BY DEF Injective
      <4> QED BY <4>1, <4>2
    <3>3. g \in [Upto(n) -> Upto(n)]
      BY <3>1
    <3> QED BY <3>2, <3>3
  <2>8. g \in [Upto(n) -> Nat]
    BY <2>1
  <2>9. PICK y \in [Nat -> F] : y = Arranged(v, g, n)
    BY <2>8, ArrangedType
  <2>10. Partial(y)[n] = Partial(v)[n]
    BY <1>2, <2>7, <2>9
  <2>11. Partial(v)[n + 1] = Partial(v)[n] (.) v[n] /\ Partial(u)[n + 1] = Partial(u)[n] (.) u[n]
    BY <2>6 DEF IsPartial
  <2>12. CASE m = n
    <3>1. \A k \in Nat : k < n => u[k] = y[k]
      BY <2>1, <2>5, <2>7, <2>9, <2>12 DEF Arranged
    <3>2. Partial(u)[n] = Partial(y)[n]
      BY <3>1, PartialSame
    <3>3. u[n] = v[n]
      BY <2>2, <2>5, <2>12
    <3> QED BY <2>4, <2>10, <2>11, <3>2, <3>3
  <2>13. CASE m # n
    <3>1. m \in Nat /\ m < n
      BY <2>1, <2>13
    <3>2. PICK a \in F : a = u[n] /\ u[m] = v[n]
      BY <2>2, <2>5, <3>1
    <3>3. PICK t \in [Nat -> F] : t = [u EXCEPT ![m] = a]
      OBVIOUS
    <3>4. Partial(u)[n] (.) a = Partial(t)[n] (.) u[m]
      <4>1. \A k \in Nat : m < k =>
               Partial(u)[k] (.) a = Partial([u EXCEPT ![m] = a])[k] (.) u[m]
        BY <3>1, PartialChange
      <4> QED BY <3>1, <3>3, <4>1
    <3>5. \A k \in Nat : k < n => t[k] = y[k]
      <4> SUFFICES ASSUME NEW k \in Nat, k < n PROVE t[k] = y[k]
        OBVIOUS
      <4>1. y[k] = v[g[k]] /\ k \in Upto(n) /\ u[k] = v[f[k]] /\ u[n] = v[f[n]]
        BY <2>1, <2>5, <2>9 DEF Arranged
      <4>2. g[k] = IF k = m THEN f[n] ELSE f[k]
        BY <2>7, <4>1
      <4> QED BY <3>2, <3>3, <4>1, <4>2
    <3>6. Partial(t)[n] = Partial(y)[n]
      BY <3>5, PartialSame
    <3> QED BY <2>4, <2>10, <2>11, <3>2, <3>4, <3>6
  <2> QED BY <2>12, <2>13
<1>3. Nat \subseteq P
  <2> HIDE DEF P
  <2> QED BY <1>1, <1>2, Induction
<1> QED BY <1>3

-------------------------------------------------------------------------------
(* The copy constraints permute the cells, so that the product of the      *)
(* ratios comes back to 1.                                                 *)

\* The next element of S after a, or its first.
Successor(S, a) ==
    LET later == {b \in S : b > a}
        A     == IF later = {} THEN S ELSE later
    IN  CHOOSE b \in A : \A d \in A : b <= d

\* Each cell of a wire has a next one, and no two the same.
LEMMA SuccessorIs ==
  ASSUME NEW S \in SUBSET Nat, NEW a \in S
  PROVE  LET t == Successor(S, a)
         IN  /\ t \in S
             /\ \/ t > a /\ \A d \in S : d > a => t <= d
                \/ \A d \in S : d <= a /\ t <= d
<1> DEFINE later == {b \in S : b > a}
           A     == IF later = {} THEN S ELSE later
           t     == CHOOSE b \in A : \A d \in A : b <= d
<1>1. A \in SUBSET Nat /\ A # {}
  OBVIOUS
<1>2. t \in A /\ \A d \in A : t <= d
  <2> HIDE DEF A
  <2>1. \E b \in A : \A d \in A : b <= d
    BY <1>1, Least
  <2> QED BY <2>1
<1>3. t = Successor(S, a)
  BY DEF Successor
<1> HIDE DEF t
<1>4. CASE later = {}
  <2>1. A = S
    BY <1>4
  <2>2. \A d \in S : ~(d > a)
    BY <1>4
  <2>3. \A d \in S : d \in Nat /\ a \in Nat
    OBVIOUS
  <2> QED BY <1>2, <1>3, <2>1, <2>2, <2>3
<1>5. CASE later # {}
  <2>1. A = later
    BY <1>5
  <2> QED BY <1>2, <1>3, <2>1
<1> QED BY <1>4, <1>5

LEMMA SuccessorInjective ==
  ASSUME NEW S \in SUBSET Nat, NEW a \in S, NEW b \in S, Successor(S, a) = Successor(S, b)
  PROVE  a = b
<1>1. PICK t \in S : t = Successor(S, a) /\ t = Successor(S, b)
  BY SuccessorIs
<1>2. \/ t > a /\ \A d \in S : d > a => t <= d
      \/ \A d \in S : d <= a /\ t <= d
  BY <1>1, SuccessorIs
<1>3. \/ t > b /\ \A d \in S : d > b => t <= d
      \/ \A d \in S : d <= b /\ t <= d
  BY <1>1, SuccessorIs
<1>4. a \in Nat /\ b \in Nat /\ t \in Nat
  OBVIOUS
<1> QED BY <1>2, <1>3, <1>4

CellWire(c, n, q) == LET row == Row(c, q % n) IN <<row.l, row.r, row.o>>[1 + q \div n]
Cells(c, n, q)    == {a \in Upto(3 * n) : CellWire(c, n, a) = CellWire(c, n, q)}
CellId(n, q)      == Power(Generator(n), q % n) (.) Power(Root, q \div n)
Target(c, n)      == [q \in Upto(3 * n) |-> Successor(Cells(c, n, q), q)]

\* The permutation's target is the next cell on the wire.
LEMMA TargetIs ==
  ASSUME NEW c, NEW n \in Nat \ {0}
  PROVE  /\ Target(c, n) \in [Upto(3 * n) -> Upto(3 * n)] /\ Injective(Target(c, n))
         /\ \A q \in Upto(3 * n) : CellWire(c, n, Target(c, n)[q]) = CellWire(c, n, q)
         /\ \A q \in Upto(3 * n) : Permuted(c, n, q) = CellId(n, Target(c, n)[q])
<1> DEFINE N == 3 * n
<1>1. N \in Nat /\ (\A q \in Upto(N) : q \in Nat)
  BY DEF Upto
<1>2. DOMAIN Target(c, n) = Upto(N) /\ \A q \in Upto(N) : Target(c, n)[q] = Successor(Cells(c, n, q), q)
  BY DEF Target
<1>3. \A q \in Upto(N) : Permuted(c, n, q) = CellId(n, Target(c, n)[q])
  <2>1. \A q \in Upto(N) : Permuted(c, n, q) = CellId(n, Successor(Cells(c, n, q), q))
    BY DEF Permuted, CellId, Successor, Cells, CellWire
  <2> QED BY <1>2, <2>1
<1> HIDE DEF N
<1>4. ASSUME NEW q \in Upto(N)
      PROVE  Cells(c, n, q) \in SUBSET Nat /\ q \in Cells(c, n, q)
  BY <1>1 DEF Cells, N
<1>5. ASSUME NEW q \in Upto(N)
      PROVE  Target(c, n)[q] \in Cells(c, n, q)
  BY <1>2, <1>4, SuccessorIs
<1>6. \A q \in Upto(N) : /\ Target(c, n)[q] \in Upto(N)
                         /\ CellWire(c, n, Target(c, n)[q]) = CellWire(c, n, q)
  BY <1>5 DEF Cells, N
<1>7. Injective(Target(c, n))
  <2> SUFFICES ASSUME NEW a \in Upto(N), NEW b \in Upto(N), Target(c, n)[a] = Target(c, n)[b]
               PROVE  a = b
    BY <1>2 DEF Injective
  <2>1. CellWire(c, n, a) = CellWire(c, n, b)
    BY <1>6
  <2>2. Cells(c, n, a) = Cells(c, n, b)
    BY <2>1 DEF Cells
  <2>3. PICK S \in SUBSET Nat : S = Cells(c, n, a) /\ a \in S /\ b \in S
    BY <1>4, <2>2
  <2>4. Successor(S, a) = Successor(S, b)
    BY <1>2, <2>2, <2>3
  <2> QED BY <2>3, <2>4, SuccessorInjective
<1>8. Target(c, n) \in [Upto(N) -> Upto(N)]
  BY <1>6 DEF Target, N
<1> QED BY <1>3, <1>6, <1>7, <1>8 DEF N

\* The row and the column of a cell.
LEMMA CellIs ==
  ASSUME NEW n \in Nat \ {0}, NEW k \in Nat, k < n, NEW col \in {0, 1, 2}
  PROVE  /\ col * n + k \in Upto(3 * n) /\ (col * n + k) % n = k /\ (col * n + k) \div n = col
<1>1. PICK q \in Nat : q = col * n + k /\ q < 3 * n /\ q = n * col + k
  <2>1. CASE col = 0
    BY <2>1
  <2>2. CASE col = 1
    BY <2>2
  <2>3. CASE col = 2
    BY <2>3
  <2> QED BY <2>1, <2>2, <2>3
<1>2. n \in Nat /\ n # 0 /\ q \in Int /\ col \in Int /\ k \in 0 .. n - 1
  BY <1>1
<1>3. q % n = k
  BY ONLY <1>1, <1>2, ModIs
<1>4. q % n \in 0 .. n - 1 /\ q \div n \in Int /\ q = n * (q \div n) + (q % n)
  BY ONLY <1>2, ModRange
<1>5. PICK d \in Int : d = q \div n
  BY <1>4
<1>6. n * d + k = n * col + k
  BY ONLY <1>1, <1>3, <1>4, <1>5
<1>7. n * (d - col) + k = k
  BY ONLY <1>6, d \in Int, col \in Int, n \in Nat, k \in Nat
<1>8. d - col = 0
  <2>1. d - col \in Int
    BY <1>2
  <2> QED BY ONLY <1>2, <1>7, <2>1, ModSmall
<1>9. q \div n = col
  BY ONLY <1>2, <1>5, <1>8, d \in Int
<1>10. q \in Upto(3 * n)
  BY <1>1, UptoIs
<1> QED BY ONLY <1>1, <1>3, <1>9, <1>10

\* Identities and the cancellation that the running product needs.
LEMMA MulTurn ==
  \A p, q, r \in F :
     p (.) (q (.) r)
       = (p (.) r) (.) q
<1> TAKE p, q, r \in F
<1>1. /\ p \in Int /\ p = Mod(p)
      /\ q \in Int /\ q = Mod(q)
      /\ r \in Int /\ r = Mod(r)
  BY ModOfElement
<1>2. PICK i1 \in Int : i1 = q * r
  BY <1>1
<1>3. q (.) r = Mod(i1) /\ i1 \in Int
  BY <1>1, <1>2, ModOps
<1>4. PICK i2 \in Int : i2 = p * i1
  BY <1>1, <1>3
<1>5. p (.) (q (.) r) = Mod(i2) /\ i2 \in Int
  BY <1>1, <1>3, <1>4, ModOps
<1>6. PICK i3 \in Int : i3 = p * r
  BY <1>1
<1>7. p (.) r = Mod(i3) /\ i3 \in Int
  BY <1>1, <1>6, ModOps
<1>8. PICK i4 \in Int : i4 = i3 * q
  BY <1>7, <1>1
<1>9. p (.) r (.) q = Mod(i4) /\ i4 \in Int
  BY <1>7, <1>1, <1>8, ModOps
<1>10. i2 = i4
  BY <1>1, <1>2, <1>4, <1>6, <1>8
<1> QED BY <1>5, <1>9, <1>10

LEMMA MulFront ==
  \A p, q, r \in F :
     (p (.) q) (.) r
       = q (.) (p (.) r)
<1> TAKE p, q, r \in F
<1>1. /\ p \in Int /\ p = Mod(p)
      /\ q \in Int /\ q = Mod(q)
      /\ r \in Int /\ r = Mod(r)
  BY ModOfElement
<1>2. PICK i1 \in Int : i1 = p * q
  BY <1>1
<1>3. p (.) q = Mod(i1) /\ i1 \in Int
  BY <1>1, <1>2, ModOps
<1>4. PICK i2 \in Int : i2 = i1 * r
  BY <1>3, <1>1
<1>5. p (.) q (.) r = Mod(i2) /\ i2 \in Int
  BY <1>3, <1>1, <1>4, ModOps
<1>6. PICK i3 \in Int : i3 = p * r
  BY <1>1
<1>7. p (.) r = Mod(i3) /\ i3 \in Int
  BY <1>1, <1>6, ModOps
<1>8. PICK i4 \in Int : i4 = q * i3
  BY <1>1, <1>7
<1>9. q (.) (p (.) r) = Mod(i4) /\ i4 \in Int
  BY <1>1, <1>7, <1>8, ModOps
<1>10. i2 = i4
  BY <1>1, <1>2, <1>4, <1>6, <1>8
<1> QED BY <1>5, <1>9, <1>10

LEMMA Cancels == \A a \in F \ {0}, b, c \in F : a (.) b = a (.) c => b = c
<1> TAKE a \in F \ {0}, b, c \in F
<1> HAVE a (.) b = a (.) c
<1>1. Inv(a) \in F /\ Inv(a) (.) a = 1
  BY InverseIs
<1>2. (Inv(a) (.) a) (.) b = Inv(a) (.) (a (.) b) /\ (Inv(a) (.) a) (.) c = Inv(a) (.) (a (.) c)
  BY <1>1, Associates
<1> QED BY <1>1, <1>2, Neutral

\* A running ratio whose products agree goes round.
LEMMA GoesRound ==
  ASSUME NEW n \in Nat \ {0}, NEW num \in [Nat -> F], NEW den \in [Nat -> F], NEW z \in Vec(n),
         Partial(num)[n] = Partial(den)[n], z[0] = 1,
         \A k \in Nat : k + 1 < n => den[k] # 0 /\ z[k + 1] = z[k] (.) num[k] (.) Inv(den[k])
  PROVE  /\ \A k \in Nat : k + 1 < n => z[k + 1] (.) den[k] = z[k] (.) num[k]
         /\ z[0] (.) den[n - 1] = z[n - 1] (.) num[n - 1]
<1>1. IsPartial(Partial(num), num) /\ IsPartial(Partial(den), den)
  BY PartialIs
<1>2. PICK p, q \in [Nat -> F] : p = Partial(num) /\ q = Partial(den)
  BY <1>1 DEF IsPartial
<1>3. IsPartial(p, num) /\ IsPartial(q, den)
  BY <1>1, <1>2
<1>4. \A k \in Nat : k < n => z[k] \in F
  BY VecIs
<1>5. \A k \in Nat : k + 1 < n => z[k + 1] (.) den[k] = z[k] (.) num[k]
  <2> SUFFICES ASSUME NEW k \in Nat, k + 1 < n PROVE z[k + 1] (.) den[k] = z[k] (.) num[k]
    OBVIOUS
  <2>1. den[k] \in F \ {0} /\ num[k] \in F /\ z[k] \in F
    BY <1>4
  <2>2. z[k] (.) num[k] \in F
    BY <2>1, Closed
  <2>3. Inv(den[k]) \in F /\ Inv(den[k]) (.) den[k] = 1
    BY <2>1, InverseIs
  <2>4. ((z[k] (.) num[k]) (.) Inv(den[k])) (.) den[k] = (z[k] (.) num[k]) (.) (Inv(den[k]) (.) den[k])
    BY <2>1, <2>2, <2>3, Associates
  <2> QED BY <2>2, <2>3, <2>4, Neutral
<1> DEFINE P == {k \in Nat : k < n => z[k] (.) q[k] = p[k] /\ q[k] # 0}
<1>6. 0 \in P
  BY <1>3, ZeroOne, Neutral DEF IsPartial
<1>7. ASSUME NEW k \in Nat, k \in P PROVE k + 1 \in P
  <2> SUFFICES ASSUME k + 1 < n PROVE z[k + 1] (.) q[k + 1] = p[k + 1] /\ q[k + 1] # 0
    OBVIOUS
  <2>1. p[k + 1] = p[k] (.) num[k] /\ q[k + 1] = q[k] (.) den[k]
    BY <1>3 DEF IsPartial
  <2>2. z[k] (.) q[k] = p[k] /\ q[k] # 0 /\ den[k] # 0
    BY <1>7
  <2>3. q[k] \in F /\ den[k] \in F /\ num[k] \in F /\ z[k] \in F /\ z[k + 1] \in F
    BY <1>4
  <2>4. z[k + 1] (.) (q[k] (.) den[k]) = (z[k + 1] (.) den[k]) (.) q[k]
    BY <2>3, MulTurn
  <2>5. (z[k] (.) num[k]) (.) q[k] = (z[k] (.) q[k]) (.) num[k]
    BY <2>3, MulLast
  <2>6. q[k] (.) den[k] # 0
    BY <2>2, <2>3, NonzeroProduct
  <2> QED BY <1>5, <2>1, <2>2, <2>4, <2>5, <2>6
<1>8. Nat \subseteq P
  <2> HIDE DEF P
  <2> QED BY <1>6, <1>7, Induction
<1>9. PICK m \in Nat : n = m + 1 /\ m = n - 1 /\ m < n
  <2>1. n - 1 \in Nat /\ n = (n - 1) + 1 /\ n - 1 < n
    OBVIOUS
  <2> QED BY <2>1
<1>10. z[0] (.) den[m] = z[m] (.) num[m]
  <2>1. p[n] = p[m] (.) num[m] /\ q[n] = q[m] (.) den[m]
    BY <1>3, <1>9 DEF IsPartial
  <2>2. p[n] = q[n]
    BY <1>2
  <2>3. z[m] (.) q[m] = p[m] /\ q[m] # 0
    BY <1>8, <1>9
  <2>4. q[m] \in F \ {0} /\ den[m] \in F /\ num[m] \in F /\ z[m] \in F
    BY <1>4, <1>9, <2>3
  <2>5. z[m] (.) num[m] \in F
    BY <2>4, Closed
  <2>6. q[m] (.) den[m] = q[m] (.) (z[m] (.) num[m])
    <3>1. (z[m] (.) q[m]) (.) num[m] = q[m] (.) (z[m] (.) num[m])
      BY <2>4, MulFront
    <3> QED BY <2>1, <2>2, <2>3, <3>1
  <2>7. den[m] = z[m] (.) num[m]
    BY <2>4, <2>5, <2>6, Cancels
  <2> QED BY <2>4, <2>7, Neutral
<1> QED BY <1>5, <1>9, <1>10

\* The product over three blocks of n.
LEMMA PartialThree ==
  ASSUME NEW n \in Nat, NEW y \in [Nat -> F], NEW u \in [Nat -> F],
         \A k \in Nat : k < n => u[k] = y[k] (.) y[n + k] (.) y[2 * n + k]
  PROVE  Partial(y)[3 * n] = Partial(u)[n]
<1>1. PICK y1, y2 \in [Nat -> F] : y1 = [k \in Nat |-> y[n + k]] /\ y2 = [k \in Nat |-> y1[n + k]]
  <2>1. [k \in Nat |-> y[n + k]] \in [Nat -> F]
    BY PartialSplit
  <2>2. PICK y1 \in [Nat -> F] : y1 = [k \in Nat |-> y[n + k]]
    BY <2>1
  <2>3. [k \in Nat |-> y1[n + k]] \in [Nat -> F]
    BY PartialSplit
  <2> QED BY <2>2, <2>3
<1>2. Partial(y)[n + (n + n)] = Partial(y)[n] (.) Partial(y1)[n + n]
  <2>1. \A k \in Nat : Partial(y)[n + k] = Partial(y)[n] (.) Partial([j \in Nat |-> y[n + j]])[k]
    BY PartialSplit
  <2>2. n + n \in Nat
    OBVIOUS
  <2> QED BY <1>1, <2>1, <2>2
<1>3. Partial(y1)[n + n] = Partial(y1)[n] (.) Partial(y2)[n]
  <2>1. \A k \in Nat : Partial(y1)[n + k] = Partial(y1)[n] (.) Partial([j \in Nat |-> y1[n + j]])[k]
    BY PartialSplit
  <2> QED BY <1>1, <2>1
<1>4. PICK t \in [Nat -> F] : t = [k \in Nat |-> y[k] (.) y1[k]]
  BY PartialMul
<1>5. PICK r \in [Nat -> F] : r = [k \in Nat |-> t[k] (.) y2[k]]
  BY PartialMul
<1>6. Partial(t)[n] = Partial(y)[n] (.) Partial(y1)[n]
  BY <1>4, PartialMul
<1>7. Partial(r)[n] = Partial(t)[n] (.) Partial(y2)[n]
  BY <1>5, PartialMul
<1>8. Partial(r)[n] = Partial(u)[n]
  <2> SUFFICES ASSUME NEW k \in Nat, k < n PROVE r[k] = u[k]
    BY PartialSame
  <2>1. y1[k] = y[n + k] /\ y2[k] = y1[n + k] /\ y1[n + k] = y[n + (n + k)]
    BY <1>1
  <2>2. n + (n + k) = 2 * n + k
    OBVIOUS
  <2> QED BY <1>4, <1>5, <2>1, <2>2
<1>9. Partial(y)[n] \in F /\ Partial(y1)[n] \in F /\ Partial(y2)[n] \in F
  BY PartialIs DEF IsPartial
<1>10. n + (n + n) = 3 * n
  OBVIOUS
<1>11. PICK a, b, c \in F : a = Partial(y)[n] /\ b = Partial(y1)[n] /\ c = Partial(y2)[n]
  BY <1>9
<1>12. (a (.) b) (.) c = a (.) (b (.) c)
  BY Associates
<1>13. Partial(y)[3 * n] = a (.) (b (.) c)
  BY ONLY <1>2, <1>3, <1>10, <1>11
<1>14. Partial(u)[n] = (a (.) b) (.) c
  BY ONLY <1>6, <1>7, <1>8, <1>11
<1> QED BY <1>12, <1>13, <1>14

CellValue(v, q) == s.circuit.witness[v][CellWire(s.circuit, s.n, q)]

RatioNum(v, k, beta, gamma) ==
  (WireOf(v, k, "l") (+) beta (.) Power(s.w, k) (+) gamma)
    (.) (WireOf(v, k, "r") (+) beta (.) (Root (.) Power(s.w, k)) (+) gamma)
    (.) (WireOf(v, k, "o") (+) beta (.) (Root (.) Root (.) Power(s.w, k)) (+) gamma)

RatioDen(v, k, beta, gamma) ==
  (WireOf(v, k, "l") (+) beta (.) Permuted(s.circuit, s.n, k) (+) gamma)
    (.) (WireOf(v, k, "r") (+) beta (.) Permuted(s.circuit, s.n, s.n + k) (+) gamma)
    (.) (WireOf(v, k, "o") (+) beta (.) Permuted(s.circuit, s.n, 2 * s.n + k) (+) gamma)

\* Cell q is in row q % n of column q / n.
LEMMA CellsAre ==
  ASSUME Instance, NEW v \in Values, NEW k \in Nat, k < s.n
  PROVE  /\ CellValue(v, k) = WireOf(v, k, "l") /\ CellId(s.n, k) = Power(s.w, k)
         /\ CellValue(v, s.n + k) = WireOf(v, k, "r")
         /\ CellId(s.n, s.n + k) = Root (.) Power(s.w, k)
         /\ CellValue(v, 2 * s.n + k) = WireOf(v, k, "o")
         /\ CellId(s.n, 2 * s.n + k) = Root (.) Root (.) Power(s.w, k)
         /\ k \in Upto(3 * s.n) /\ s.n + k \in Upto(3 * s.n) /\ 2 * s.n + k \in Upto(3 * s.n)
         /\ WireOf(v, k, "l") \in F /\ WireOf(v, k, "r") \in F /\ WireOf(v, k, "o") \in F
<1>1. s.n \in Nat \ {0} /\ Order(s.n) /\ s.w = Generator(s.n) /\ s.n \in Nat
  BY InstanceIs, SizePositive
<1>2. PICK n \in Nat \ {0} : n = s.n
  BY <1>1
<1>3. /\ k \in Upto(3 * n) /\ k % n = k /\ k \div n = 0
      /\ n + k \in Upto(3 * n) /\ (n + k) % n = k /\ (n + k) \div n = 1
      /\ 2 * n + k \in Upto(3 * n) /\ (2 * n + k) % n = k /\ (2 * n + k) \div n = 2
  <2>1. 0 * n + k = k /\ 1 * n + k = n + k
    OBVIOUS
  <2>2. \A col \in {0, 1, 2} :
          col * n + k \in Upto(3 * n) /\ (col * n + k) % n = k /\ (col * n + k) \div n = col
    BY <1>2, CellIs
  <2>3. 0 * n + k \in Upto(3 * n) /\ (0 * n + k) % n = k /\ (0 * n + k) \div n = 0
    BY ONLY <2>2
  <2>4. 1 * n + k \in Upto(3 * n) /\ (1 * n + k) % n = k /\ (1 * n + k) \div n = 1
    BY ONLY <2>2
  <2>5. 2 * n + k \in Upto(3 * n) /\ (2 * n + k) % n = k /\ (2 * n + k) \div n = 2
    BY ONLY <2>2
  <2> QED BY ONLY <2>1, <2>3, <2>4, <2>5
<1>4. \A q, d \in Nat : q % n = k /\ q \div n = d =>
         /\ CellWire(s.circuit, n, q) = <<Row(s.circuit, k).l, Row(s.circuit, k).r, Row(s.circuit, k).o>>[1 + d]
         /\ CellId(n, q) = Power(Generator(n), k) (.) Power(Root, d)
  BY DEF CellWire, CellId
<1>5. n + k \in Nat /\ 2 * n + k \in Nat
  OBVIOUS
<1>6. /\ CellWire(s.circuit, n, k) = Row(s.circuit, k).l
      /\ CellId(n, k) = Power(Generator(n), k) (.) Power(Root, 0)
  <2>1. /\ CellWire(s.circuit, n, k) = <<Row(s.circuit, k).l, Row(s.circuit, k).r, Row(s.circuit, k).o>>[1 + 0]
        /\ CellId(n, k) = Power(Generator(n), k) (.) Power(Root, 0)
    BY ONLY <1>3, <1>4, <1>5, k \in Nat
  <2> QED BY <2>1
<1>7. /\ CellWire(s.circuit, n, n + k) = Row(s.circuit, k).r
      /\ CellId(n, n + k) = Power(Generator(n), k) (.) Power(Root, 1)
  <2>1. /\ CellWire(s.circuit, n, n + k) = <<Row(s.circuit, k).l, Row(s.circuit, k).r, Row(s.circuit, k).o>>[1 + 1]
        /\ CellId(n, n + k) = Power(Generator(n), k) (.) Power(Root, 1)
    BY ONLY <1>3, <1>4, <1>5, k \in Nat
  <2> QED BY <2>1
<1>8. /\ CellWire(s.circuit, n, 2 * n + k) = Row(s.circuit, k).o
      /\ CellId(n, 2 * n + k) = Power(Generator(n), k) (.) Power(Root, 2)
  <2>1. /\ CellWire(s.circuit, n, 2 * n + k)
             = <<Row(s.circuit, k).l, Row(s.circuit, k).r, Row(s.circuit, k).o>>[1 + 2]
        /\ CellId(n, 2 * n + k) = Power(Generator(n), k) (.) Power(Root, 2)
    BY ONLY <1>3, <1>4, <1>5, k \in Nat
  <2> QED BY <2>1
<1>9. Power(Root, 0) = 1 /\ Power(Root, 1) = Root /\ Power(Root, 2) = Root (.) Root /\ Root \in F
  <2>1. Root \in F
    BY RootIs
  <2>2. Power(Root, 0) = 1 /\ Power(Root, 1) = Root /\ Power(Root, 1 + 1) = Root (.) Power(Root, 1)
    BY <2>1, PowerLaws, PowerFirst
  <2> QED BY <2>1, <2>2
<1>10. Power(Generator(n), k) \in F
  BY <1>1, <1>2, GeneratorIs, PowerLaws
<1>11. Root (.) Root \in F
  BY <1>9, Closed
<1>12. WireOf(v, k, "l") \in F /\ WireOf(v, k, "r") \in F /\ WireOf(v, k, "o") \in F
  <2>1. k \in Upto(s.n)
    BY <1>1, UptoIs
  <2>2. \A f \in {"l", "r", "o"} : [j \in Upto(s.n) |-> WireOf(v, j, f)] \in Vec(s.n)
    BY WiresAre
  <2>3. \A f \in {"l", "r", "o"} : WireOf(v, k, f) \in F
    BY <2>1, <2>2 DEF Vec
  <2> QED BY <2>3
<1>13. /\ CellId(n, k) = Power(Generator(n), k)
       /\ CellId(n, n + k) = Root (.) Power(Generator(n), k)
       /\ CellId(n, 2 * n + k) = Root (.) Root (.) Power(Generator(n), k)
  <2>1. PICK p \in F : p = Power(Generator(n), k)
    BY <1>10
  <2>2. p (.) 1 = p /\ p (.) Root = Root (.) p /\ p (.) (Root (.) Root) = (Root (.) Root) (.) p
    BY <1>9, <1>11, Neutral, Commutes
  <2> QED BY <1>6, <1>7, <1>8, <1>9, <2>1, <2>2
<1>14. /\ CellValue(v, k) = WireOf(v, k, "l") /\ CellValue(v, n + k) = WireOf(v, k, "r")
       /\ CellValue(v, 2 * n + k) = WireOf(v, k, "o")
  BY <1>2, <1>6, <1>7, <1>8 DEF CellValue, WireOf
<1>15. s.w = Generator(n)
  BY <1>1, <1>2
<1> QED BY ONLY <1>2, <1>3, <1>12, <1>13, <1>14, <1>15

\* The identity the permutation gives a cell is that of its target.
LEMMA PermutedIs ==
  ASSUME Instance, NEW q \in Upto(3 * s.n)
  PROVE  Permuted(s.circuit, s.n, q) \in F /\ CellId(s.n, q) \in F
<1>1. s.n \in Nat \ {0} /\ Order(s.n) /\ s.n \in Nat
  BY InstanceIs, SizePositive
<1>2. q \in Nat /\ q < 3 * s.n
  BY <1>1 DEF Upto
<1>3. Permuted(s.circuit, s.n, q) \in F
  BY <1>1, <1>2, PermutedType
<1>4. PICK n \in Nat \ {0} : n = s.n
  BY <1>1
<1>5. q % n \in Nat /\ q \div n \in Nat
  <2>1. n \in Nat /\ n # 0 /\ q \in Int
    BY <1>2
  <2>2. q % n \in 0 .. n - 1 /\ q \div n \in Int /\ q = n * (q \div n) + (q % n)
    BY ONLY <2>1, ModRange
  <2>3. PICK d \in Int, r \in 0 .. n - 1 : d = q \div n /\ q = n * d + r
    BY <2>2
  <2>4. d >= 0
    <3>1. CASE d <= -1
      <4>1. n * d <= -n
        BY ONLY <2>1, <3>1, d \in Int
      <4> QED BY ONLY <1>2, <2>1, <2>3, <4>1
    <3> QED BY <3>1
  <2> QED BY <2>2, <2>3, <2>4
<1>6. Generator(n) \in F /\ Root \in F
  BY <1>1, <1>4, GeneratorIs, RootIs
<1>7. Power(Generator(n), q % n) \in F /\ Power(Root, q \div n) \in F
  BY <1>5, <1>6, PowerLaws
<1> QED BY <1>3, <1>4, <1>7, Closed DEF CellId

\* Numerators and denominators are field elements.
LEMMA RatioTermsType ==
  ASSUME Instance, NEW v \in Values, NEW beta \in F, NEW gamma \in F, NEW k \in Nat, k < s.n
  PROVE  RatioNum(v, k, beta, gamma) \in F /\ RatioDen(v, k, beta, gamma) \in F
<1>1. /\ WireOf(v, k, "l") \in F /\ WireOf(v, k, "r") \in F /\ WireOf(v, k, "o") \in F
      /\ CellId(s.n, k) = Power(s.w, k) /\ CellId(s.n, s.n + k) = Root (.) Power(s.w, k)
      /\ CellId(s.n, 2 * s.n + k) = Root (.) Root (.) Power(s.w, k)
      /\ k \in Upto(3 * s.n) /\ s.n + k \in Upto(3 * s.n) /\ 2 * s.n + k \in Upto(3 * s.n)
  BY CellsAre
<1>2. /\ Power(s.w, k) \in F /\ Root (.) Power(s.w, k) \in F /\ Root (.) Root (.) Power(s.w, k) \in F
      /\ Permuted(s.circuit, s.n, k) \in F /\ Permuted(s.circuit, s.n, s.n + k) \in F
      /\ Permuted(s.circuit, s.n, 2 * s.n + k) \in F
  BY <1>1, PermutedIs
<1>3. \A a, b \in F : a (+) beta (.) b (+) gamma \in F
  BY Closed
<1>4. /\ WireOf(v, k, "l") (+) beta (.) Power(s.w, k) (+) gamma \in F
      /\ WireOf(v, k, "r") (+) beta (.) (Root (.) Power(s.w, k)) (+) gamma \in F
      /\ WireOf(v, k, "o") (+) beta (.) (Root (.) Root (.) Power(s.w, k)) (+) gamma \in F
  BY <1>1, <1>2, <1>3
<1>5. /\ WireOf(v, k, "l") (+) beta (.) Permuted(s.circuit, s.n, k) (+) gamma \in F
      /\ WireOf(v, k, "r") (+) beta (.) Permuted(s.circuit, s.n, s.n + k) (+) gamma \in F
      /\ WireOf(v, k, "o") (+) beta (.) Permuted(s.circuit, s.n, 2 * s.n + k) (+) gamma \in F
  BY <1>1, <1>2, <1>3
<1> QED BY <1>4, <1>5, Closed DEF RatioNum, RatioDen

\* A row's terms as an infinite sequence.
Numerators(v, beta, gamma)   == [k \in Nat |-> IF k < s.n THEN RatioNum(v, k, beta, gamma) ELSE 1]
Denominators(v, beta, gamma) == [k \in Nat |-> IF k < s.n THEN RatioDen(v, k, beta, gamma) ELSE 1]

\* The product of all numerators is that of all denominators.
LEMMA ProductsAgree ==
  ASSUME Instance, NEW v \in Values, NEW beta \in F, NEW gamma \in F
  PROVE  /\ Numerators(v, beta, gamma) \in [Nat -> F] /\ Denominators(v, beta, gamma) \in [Nat -> F]
         /\ Partial(Numerators(v, beta, gamma))[s.n] = Partial(Denominators(v, beta, gamma))[s.n]
<1>1. s.n \in Nat \ {0} /\ s.n \in Nat /\ 3 * s.n \in Nat
  BY InstanceIs, SizePositive
<1> DEFINE t == Target(s.circuit, s.n)
           term(q) == CellValue(v, q) (+) beta (.) CellId(s.n, q) (+) gamma
<1>2. /\ t \in [Upto(3 * s.n) -> Upto(3 * s.n)] /\ Injective(t)
      /\ \A q \in Upto(3 * s.n) : CellWire(s.circuit, s.n, t[q]) = CellWire(s.circuit, s.n, q)
      /\ \A q \in Upto(3 * s.n) : Permuted(s.circuit, s.n, q) = CellId(s.n, t[q])
  BY <1>1, TargetIs
<1>3. ASSUME NEW q \in Upto(3 * s.n) PROVE CellValue(v, q) \in F
  <2>1. s.circuit \in Circuits
    BY InstanceIs
  <2>2. q \in Nat /\ q < 3 * s.n
    BY <1>1 DEF Upto
  <2>3. PICK k \in Nat : k < s.n /\ (q = k \/ q = s.n + k \/ q = 2 * s.n + k)
    <3>1. PICK n \in Nat : n = s.n
      BY <1>1
    <3>2. CASE q < n
      BY <2>2, <3>1, <3>2
    <3>3. CASE n <= q /\ q < 2 * n
      <4>1. q - n \in Nat /\ q - n < n /\ q = n + (q - n)
        BY <2>2, <3>3
      <4> QED BY <3>1, <4>1
    <3>4. CASE 2 * n <= q
      <4>1. q - 2 * n \in Nat /\ q - 2 * n < n /\ q = 2 * n + (q - 2 * n)
        BY <2>2, <3>1, <3>4
      <4> QED BY <3>1, <4>1
    <3> QED BY <2>2, <3>1, <3>2, <3>3, <3>4
  <2> QED BY <2>3, CellsAre
<1>4. ASSUME NEW q \in Upto(3 * s.n) PROVE term(q) \in F
  BY <1>3, <1>4, PermutedIs, Closed
<1>5. PICK a \in [Nat -> F] : a = [q \in Nat |-> IF q < 3 * s.n THEN term(q) ELSE 1]
  <2> HIDE DEF term
  <2>1. \A q \in Nat : q < 3 * s.n => term(q) \in F
    BY <1>1, <1>4, UptoIs
  <2> QED BY <2>1, ZeroOne
<1>6. t \in [Upto(3 * s.n) -> Nat]
  BY <1>1, <1>2 DEF Upto
<1> HIDE DEF t
<1>7. PICK d \in [Nat -> F] : d = Arranged(a, t, 3 * s.n)
  BY <1>1, <1>6, ArrangedType
<1>8. Partial(d)[3 * s.n] = Partial(a)[3 * s.n]
  BY <1>1, <1>2, <1>7, PartialArranged
<1>9. ASSUME NEW q \in Upto(3 * s.n)
      PROVE  /\ a[q] = CellValue(v, q) (+) beta (.) CellId(s.n, q) (+) gamma
             /\ d[q] = CellValue(v, q) (+) beta (.) Permuted(s.circuit, s.n, q) (+) gamma
  <2>1. q \in Nat /\ q < 3 * s.n /\ t[q] \in Nat /\ t[q] < 3 * s.n /\ t[q] \in Upto(3 * s.n)
    <3>1. t[q] \in Upto(3 * s.n)
      BY <1>2
    <3> QED BY <1>1, <3>1, UptoIs
  <2>2. a[q] = term(q) /\ a[t[q]] = term(t[q])
    BY <1>5, <2>1
  <2>3. d[q] = a[t[q]]
    BY <1>7, <2>1 DEF Arranged
  <2>4. CellValue(v, t[q]) = CellValue(v, q)
    BY <1>2 DEF CellValue
  <2> QED BY <1>2, <2>2, <2>3, <2>4
<1>10. ASSUME NEW k \in Nat, k < s.n
       PROVE  /\ RatioNum(v, k, beta, gamma) = a[k] (.) a[s.n + k] (.) a[2 * s.n + k]
              /\ RatioDen(v, k, beta, gamma) = d[k] (.) d[s.n + k] (.) d[2 * s.n + k]
  BY <1>9, <1>10, CellsAre DEF RatioNum, RatioDen
<1>11. PICK num, den \in [Nat -> F] : num = Numerators(v, beta, gamma) /\ den = Denominators(v, beta, gamma)
  <2>1. \A k \in Nat : k < s.n => RatioNum(v, k, beta, gamma) \in F /\ RatioDen(v, k, beta, gamma) \in F
    BY RatioTermsType
  <2>2. Numerators(v, beta, gamma) \in [Nat -> F] /\ Denominators(v, beta, gamma) \in [Nat -> F]
    BY <2>1, ZeroOne DEF Numerators, Denominators
  <2> QED BY <2>2
<1>12. \A k \in Nat : k < s.n => num[k] = RatioNum(v, k, beta, gamma) /\ den[k] = RatioDen(v, k, beta, gamma)
  BY <1>11 DEF Numerators, Denominators
<1>13. Partial(a)[3 * s.n] = Partial(num)[s.n]
  <2>1. \A k \in Nat : k < s.n => num[k] = a[k] (.) a[s.n + k] (.) a[2 * s.n + k]
    BY <1>10, <1>12
  <2> QED BY <1>1, <2>1, PartialThree
<1>14. Partial(d)[3 * s.n] = Partial(den)[s.n]
  <2>1. \A k \in Nat : k < s.n => den[k] = d[k] (.) d[s.n + k] (.) d[2 * s.n + k]
    BY <1>10, <1>12
  <2> QED BY <1>1, <2>1, PartialThree
<1> QED BY <1>8, <1>11, <1>13, <1>14

-------------------------------------------------------------------------------
(***************************************************************************)
(* The inductive invariant.                                                *)
(***************************************************************************)
Late    == {"openZ", "linearise", "open", "done"}
Opening == {"linearise", "open", "done"}
Stages  == {"solve", "ratio", "alpha", "coset"} \cup Late

FieldsAt(stage) ==
    IF stage = "solve" THEN TraceFields
    ELSE IF stage = "ratio" THEN TraceFields \cup {"L", "R", "O", "Pi2"}
    ELSE AllFields \cup {"Qcp", "Pi2"}

FieldsOK(xs, stage, n, cm) ==
    /\ DOMAIN xs = FieldsAt(stage)
    /\ \A f \in FieldsAt(stage) \ {"Qcp", "Pi2"} : xs[f] \in Vec(n)
    /\ xs.Qcp \in [cm -> Vec(n)]
    /\ stage # "solve" => xs.Pi2 \in [cm -> Vec(n)]

ChallengesOK(ch, stage) ==
    /\ stage \notin {"solve", "ratio"} => ch.gamma \in F /\ ch.beta \in F
    /\ stage \notin {"solve", "ratio", "alpha"} => ch.alpha \in F
    /\ stage \in Late => ch.zeta \in F \ {0}
    /\ stage = "coset" => DOMAIN ch = {"gamma", "beta", "alpha"}

\* The shift after j iterations of the loop.
CosetAt(j, big) == IF j = 0 THEN 1 ELSE Root (.) Power(Generator(big), j - 1)

Typed ==
    /\ Instance /\ pc \in Stages
    /\ FieldsOK(x, pc, s.n, Commits) /\ Blinders(bp) /\ ChallengesOK(chal, pc)
    /\ DOMAIN proof = {"bsb", "LRO", "Z", "H", "zu"}
    /\ cres = NotYet \/ cres \in Vec(s.big)
    /\ pc = "coset" => cres \in Vec(s.big)
    /\ pc \in Late => h \in Vec(s.big)
    /\ blindedZ = NotYet \/ blindedZ \in Vec(s.n + 3)
    /\ pc \in Opening => blindedZ \in Vec(s.n + 3) /\ proof.zu \in F
    /\ i \in 0 .. s.rho /\ coset = CosetAt(i, s.big)
    /\ pc \in {"solve", "ratio", "alpha"} => i = 0

\* What is left of the shift on the polynomials of s.x and s.bp.
Scale == IF pc = "coset" THEN coset ELSE 1

Matches ==
    /\ Rescale(x.S1, Inv(Scale)) = s.trace.S1 /\ Rescale(x.S2, Inv(Scale)) = s.trace.S2
    /\ pc # "solve" => \A m \in Commits : proof.bsb[m] = Eval(x.Pi2[m], Inv(Scale) (.) Tau)
    /\ pc \notin {"solve", "done"} =>
         /\ proof.LRO[1] = BlindCommit(x.L, bp.L, Inv(Scale) (.) Tau)
         /\ proof.LRO[2] = BlindCommit(x.R, bp.R, Inv(Scale) (.) Tau)
         /\ proof.LRO[3] = BlindCommit(x.O, bp.O, Inv(Scale) (.) Tau)
    /\ pc \in {"alpha", "coset", "openZ"} =>
         proof.Z = BlindCommit(x.Z, bp.Z, Inv(Scale) (.) Tau)
    /\ pc = "linearise" => /\ proof.Z = Commit(blindedZ)
                           /\ proof.zu = Eval(blindedZ, chal.zeta (.) s.w)
    /\ pc = "done" => /\ proof.LRO[1] = Commit(opened[2]) /\ proof.LRO[2] = Commit(opened[3])
                      /\ proof.LRO[3] = Commit(opened[4])
                      /\ opened[5] = s.trace.S1 /\ opened[6] = s.trace.S2

\* The product that the openings will be taken of, while L, R and O are what it
\* was computed from.
Product ==
    pc = "alpha" =>
      /\ x.Z = Poly(CopyRatio(chal.beta, chal.gamma))
      /\ \A k \in Upto(s.n - 1) : Denominator(k, chal.beta, chal.gamma) # 0

IInv == Typed /\ Matches /\ Product

LEMMA ShifterIs ==
  ASSUME Instance, NEW j \in Nat, j < s.rho
  PROVE  /\ Shifter(j) \in F \ {0} /\ CosetAt(j, s.big) \in F \ {0}
         /\ CosetAt(j + 1, s.big) = CosetAt(j, s.big) (.) Shifter(j)
         /\ CosetAt(j + 1, s.big) \in F \ {0}
         /\ Power(CosetAt(j + 1, s.big), s.n) (-) 1 \in F \ {0}
<1>1. /\ Order(s.big) /\ Order(s.n) /\ s.n \in Nat \ {0} /\ s.big \in Nat \ {0} /\ s.rho \in Nat \ {0}
      /\ s.big = s.n * s.rho
  BY InstanceIs, SizePositive
<1> DEFINE g == Generator(s.big)
<1>2. g \in F \ {0} /\ Root \in F \ {0} /\ 1 \in F \ {0}
  BY <1>1, GeneratorIs, RootIs, ZeroOne
<1>3. \A k \in Nat : Power(g, k) \in F \ {0} /\ Power(g, k + 1) = g (.) Power(g, k)
                     /\ Root (.) Power(g, k) \in F \ {0}
  BY <1>2, PowersInvert, PowerLaws, NonzeroProduct
<1>4. Shifter(j) \in F \ {0}
  BY <1>2 DEF Shifter
<1>5. CosetAt(j + 1, s.big) = Root (.) Power(g, j)
  <2>1. j + 1 # 0 /\ (j + 1) - 1 = j
    OBVIOUS
  <2> QED BY <2>1 DEF CosetAt
<1>6. CosetAt(j, s.big) \in F \ {0} /\ CosetAt(j + 1, s.big) = CosetAt(j, s.big) (.) Shifter(j)
  <2>1. CASE j = 0
    <3>1. Power(g, 0) = 1
      BY <1>2, PowerLaws
    <3> QED BY <1>2, <1>5, <2>1, <3>1, Neutral DEF CosetAt, Shifter
  <2>2. CASE j # 0
    <3>1. PICK k \in Nat : j = k + 1 /\ j - 1 = k
      <4>1. j - 1 \in Nat /\ j = (j - 1) + 1
        BY <2>2
      <4> QED BY <4>1
    <3>2. CosetAt(j, s.big) = Root (.) Power(g, k) /\ Shifter(j) = g
      BY <2>2, <3>1 DEF CosetAt, Shifter
    <3>3. Power(g, j) = g (.) Power(g, k) /\ Power(g, k) \in F
      BY <1>3, <3>1
    <3>4. Root (.) (g (.) Power(g, k)) = (Root (.) Power(g, k)) (.) g
      BY <1>2, <3>3, Associates, Commutes
    <3> QED BY <1>3, <1>5, <3>2, <3>3, <3>4
  <2> QED BY <2>1, <2>2
<1>7. Power(CosetAt(j + 1, s.big), s.n) # 1
  <2>1. PICK q \in Nat : q * s.big = Prime - 1 /\ q >= 2 /\ g = Power(Root, q)
    BY <1>1, OrderIs
  <2>2. Power(g, j) = Power(Root, q * j)
    BY <1>2, <2>1, PowerPower
  <2>3. PICK qj \in Nat : qj = q * j
    BY <2>1
  <2>4. Root (.) Power(Root, qj) = Power(Root, qj + 1)
    BY <1>2, PowerLaws
  <2>5. Power(CosetAt(j + 1, s.big), s.n) = Power(Root, (qj + 1) * s.n)
    <3>1. PICK t \in Nat : t = qj + 1
      OBVIOUS
    <3>2. PICK n \in Nat : n = s.n
      BY <1>1
    <3>3. Power(Power(Root, t), n) = Power(Root, t * n)
      BY <1>2, PowerPower
    <3> QED BY <1>5, <2>2, <2>3, <2>4, <3>1, <3>2, <3>3
  <2>6. PICK e \in Nat : e = (qj + 1) * s.n
    BY <1>1
  <2>7. 0 < e /\ e < Prime - 1
    <3>1. PICK n \in Nat \ {0}, r \in Nat \ {0} : n = s.n /\ r = s.rho
      BY <1>1
    <3>2. e = (q * j) * n + n /\ q * (n * r) = Prime - 1 /\ j + 1 <= r
      <4>1. e = (qj + 1) * n /\ qj = q * j /\ s.big = n * r /\ q * s.big = Prime - 1 /\ j < r
        BY <1>1, <2>1, <2>3, <2>6, <3>1
      <4>2. (qj + 1) * n = qj * n + n
        BY ONLY qj \in Nat, n \in Nat
      <4>3. j + 1 <= r
        BY ONLY <4>1, j \in Nat, r \in Nat
      <4> QED BY <4>1, <4>2, <4>3
    <3>3. (q * j) * n + q * n = q * (n * (j + 1))
      BY ONLY q \in Nat, j \in Nat, n \in Nat
    <3>4. q * (n * (j + 1)) <= q * (n * r)
      <4>1. n * (j + 1) <= n * r
        BY ONLY <3>2, j \in Nat, n \in Nat \ {0}, r \in Nat \ {0}
      <4>2. PICK a \in Nat, b \in Nat : a = n * (j + 1) /\ b = n * r /\ a <= b
        BY <4>1
      <4>3. q * a <= q * b
        BY ONLY <4>2, q \in Nat
      <4> QED BY <4>2, <4>3
    <3>5. n < q * n
      BY ONLY <2>1, n \in Nat \ {0}, q \in Nat
    <3>6. PICK y \in Nat : y = (q * j) * n
      OBVIOUS
    <3>7. PICK t \in Nat : t = q * n
      OBVIOUS
    <3>8. e = y + n /\ y + t <= q * (n * r) /\ n < t
      BY ONLY <3>2, <3>3, <3>4, <3>5, <3>6, <3>7
    <3>9. Prime \in Nat
      BY PrimeAssumption
    <3>10. PICK pp \in Int : pp = q * (n * r) /\ pp = Prime - 1
      BY <3>2, <3>9
    <3>11. 0 < e /\ e < pp
      BY ONLY <3>8, <3>10, y \in Nat, t \in Nat, n \in Nat \ {0}, e \in Nat, pp \in Int
    <3> QED BY <3>10, <3>11
  <2> QED BY <2>5, <2>6, <2>7, RootIs
<1>8. Power(CosetAt(j + 1, s.big), s.n) (-) 1 \in F \ {0}
  <2>1. Power(CosetAt(j + 1, s.big), s.n) \in F
    BY <1>1, <1>3, <1>5, PowerLaws
  <2> QED BY <1>7, <2>1, ZeroOne, Closed, SubZero
<1> QED BY <1>3, <1>4, <1>5, <1>6, <1>8

LEMMA CosetNonzero ==
  ASSUME Instance, NEW j \in Nat, j <= s.rho
  PROVE  CosetAt(j, s.big) \in F \ {0}
<1>1. CASE j = 0
  BY <1>1, ZeroOne DEF CosetAt
<1>2. CASE j # 0
  <2>1. j - 1 \in Nat /\ j - 1 < s.rho /\ (j - 1) + 1 = j
    BY <1>2, InstanceIs
  <2>2. PICK k \in Nat : k = j - 1
    BY <2>1
  <2>3. CosetAt(k + 1, s.big) \in F \ {0}
    BY <2>1, <2>2, ShifterIs
  <2> QED BY <2>1, <2>2, <2>3
<1> QED BY <1>1, <1>2

LEMMA UnshiftIs ==
  ASSUME Instance
  PROVE  Unshift = Inv(CosetAt(s.rho, s.big))
<1>1. s.rho \in Nat \ {0}
  BY InstanceIs
<1> QED BY <1>1 DEF Unshift, CosetAt

-------------------------------------------------------------------------------
(***************************************************************************)
(* The initial states, and the facts the steps share.                      *)
(***************************************************************************)
\* The fields that Typed speaks of hold one polynomial each.
Single(stage) == FieldsAt(stage) \ {"Qcp", "Pi2"}

LEMMA FieldsAre ==
  /\ Single("solve") = Selectors /\ Single("ratio") = Selectors \cup {"L", "R", "O"}
  /\ \A stage \in Stages \ {"solve", "ratio"} :
       FieldsAt(stage) = AllFields \cup {"Qcp", "Pi2"} /\ Single(stage) = AllFields
BY DEF Single, FieldsAt, TraceFields, AllFields, Selectors, Stages, Late

\* From the ratio on, the fields are what the lemmas on the quotient ask for.
LEMMA CompleteIs ==
  ASSUME NEW xs, NEW stage \in Stages \ {"solve", "ratio"}, FieldsOK(xs, stage, s.n, Commits)
  PROVE  Complete(xs) /\ DOMAIN xs = AllFields \cup {"Qcp", "Pi2"}
BY FieldsAre DEF FieldsOK, Complete, Vectors, Single

LEMMA FieldsFrom ==
  ASSUME NEW xs, NEW stage \in Stages \ {"solve", "ratio"}, Complete(xs),
         DOMAIN xs = AllFields \cup {"Qcp", "Pi2"}
  PROVE  FieldsOK(xs, stage, s.n, Commits)
BY FieldsAre DEF FieldsOK, Complete, Vectors, Single

LEMMA BlindersIs ==
  ASSUME Instance, bp \in Blindings
  PROVE  Blinders(bp)
<1>1. /\ DOMAIN bp = {"L", "R", "O", "Z"}
      /\ \A f \in DOMAIN bp : bp[f] \in [Upto(IF f = "Z" THEN 3 ELSE 2) -> F]
  BY ValuesAssumption
<1>2. bp.L \in Vec(2) /\ bp.R \in Vec(2) /\ bp.O \in Vec(2) /\ bp.Z \in Vec(3)
  BY <1>1 DEF Vec
<1> QED BY <1>1, <1>2 DEF Blinders

LEMMA InitIInv == Init => IInv
<1> SUFFICES ASSUME Init PROVE IInv
  OBVIOUS
<1>1. pc = "solve" /\ x = s.trace /\ i = 0 /\ coset = 1 /\ cres = NotYet /\ blindedZ = NotYet
  BY DEF Init
<1>2. Instance
  BY DEF Init, Instance
<1>3. /\ s.circuit \in Circuits /\ Order(s.n) /\ Order(s.big) /\ s.n \in Nat /\ s.rho \in Nat
      /\ s.trace = Trace(s.circuit, s.n)
  BY <1>2, InstanceIs
<1>4. /\ DOMAIN x = TraceFields /\ \A f \in Selectors : x[f] \in Vec(s.n)
      /\ x.Qcp \in [Commits -> Vec(s.n)]
  BY <1>1, <1>3, TraceType DEF Commits
<1>5. Typed
  <2>1. FieldsOK(x, pc, s.n, Commits)
    BY <1>1, <1>4, FieldsAre DEF FieldsOK, FieldsAt, Single
  <2>2. Blinders(bp)
    BY <1>2, BlindersIs DEF Init
  <2>3. ChallengesOK(chal, pc)
    BY <1>1 DEF ChallengesOK, Late
  <2>4. DOMAIN proof = {"bsb", "LRO", "Z", "H", "zu"}
    BY DEF Init
  <2>5. coset = CosetAt(i, s.big) /\ i \in 0 .. s.rho
    BY <1>1, <1>3 DEF CosetAt
  <2> QED BY <1>1, <1>2, <2>1, <2>2, <2>3, <2>4, <2>5 DEF Typed, Stages, Late, Opening
<1>6. Matches
  <2>1. Scale = 1 /\ Inv(Scale) = 1
    BY <1>1, InvOne DEF Scale
  <2>2. x.S1 \in Vec(s.n) /\ x.S2 \in Vec(s.n)
    BY <1>4 DEF Selectors
  <2>3. Rescale(x.S1, Inv(Scale)) = s.trace.S1 /\ Rescale(x.S2, Inv(Scale)) = s.trace.S2
    BY <1>1, <1>3, <2>1, <2>2, RescaleOne
  <2> QED BY <1>1, <2>3 DEF Matches
<1>7. Product
  BY <1>1 DEF Product
<1> QED BY <1>5, <1>6, <1>7 DEF IInv

-------------------------------------------------------------------------------
(***************************************************************************)
(* The steps.  None changes s.                                             *)
(***************************************************************************)
LEMMA SameInstance ==
  ASSUME Instance, s' = s
  PROVE  Instance' /\ Commits' = Commits /\ Zh' = Zh
BY DEF Instance, Commits, Zh

\* What Typed and Matches say outside the coset loop, where nothing is scaled.
LEMMA Unscaled ==
  ASSUME Typed, pc # "coset"
  PROVE  /\ Scale = 1 /\ Inv(Scale) = 1 /\ Inv(Scale) (.) Tau = Tau
         /\ Rescale(x.S1, Inv(Scale)) = x.S1 /\ Rescale(x.S2, Inv(Scale)) = x.S2
<1>1. Scale = 1 /\ Inv(Scale) = 1
  BY InvOne DEF Scale
<1>2. Tau \in F /\ 1 (.) Tau = Tau
  BY TauIs, Neutral DEF Typed
<1>3. x.S1 \in Vec(s.n) /\ x.S2 \in Vec(s.n)
  <2>1. "S1" \in FieldsAt(pc) \ {"Qcp", "Pi2"} /\ "S2" \in FieldsAt(pc) \ {"Qcp", "Pi2"}
    BY DEF FieldsAt, TraceFields, AllFields, Selectors
  <2> QED BY <2>1 DEF Typed, FieldsOK
<1> QED BY <1>1, <1>2, <1>3, RescaleOne, InstanceIs DEF Typed

LEMMA SolveStep ==
  ASSUME IInv, Solve
  PROVE  IInv'
<1>1. /\ pc = "solve" /\ pc' = "ratio" /\ s' = s /\ bp' = bp /\ chal' = chal /\ i' = i
      /\ coset' = coset /\ cres' = cres /\ blindedZ' = blindedZ
  BY DEF Solve
<1>2. Typed /\ Instance /\ Blinders(bp) /\ FieldsOK(x, "solve", s.n, Commits)
  BY <1>1 DEF IInv, Typed
<1>3. Instance' /\ Commits' = Commits /\ Zh' = Zh
  BY <1>1, <1>2, SameInstance
<1>4. Order(s.n) /\ s.n \in Nat /\ s.circuit.nbPublic \in Nat
      /\ s.circuit.nbPublic <= s.offset /\ 0 <= s.offset
  <2>1. Size(s.circuit.gates) \in Nat /\ s.circuit.nbPublic \in Nat
    BY <1>2, InstanceIs, CircuitIs
  <2> QED BY <1>2, <2>1, InstanceIs
<1>5. PICK r \in Randomizers, v \in Values :
         LET wl  == [k \in Upto(s.n) |-> WireOf(v, k, "l")]
             wr  == [k \in Upto(s.n) |-> WireOf(v, k, "r")]
             wo  == [k \in Upto(s.n) |-> WireOf(v, k, "o")]
             pi2 == [m \in Commits |-> CommittedValues(m, wl, r[1], r[2])]
         IN  /\ x' = [f \in DOMAIN x \cup {"L", "R", "O", "Pi2"} |->
                         CASE f = "L" -> Poly(wl) [] f = "R" -> Poly(wr)
                           [] f = "O" -> Poly(wo) [] f = "Qk" -> Poly(QkOf(v))
                           [] f = "Pi2" -> [m \in DOMAIN pi2 |-> Poly(pi2[m])]
                           [] OTHER -> x[f]]
             /\ proof' = [proof EXCEPT
                     !.bsb = [m \in DOMAIN pi2 |-> LagrangeMultiExp(pi2[m], 0, s.n)],
                     !.LRO = commitToLRO(wl, wr, wo, v)]
  BY DEF Solve, WireOf, QkOf, Values, Commits
<1>6. PICK wl, wr, wo, qk, pi2 :
         /\ wl = [k \in Upto(s.n) |-> WireOf(v, k, "l")]
         /\ wr = [k \in Upto(s.n) |-> WireOf(v, k, "r")]
         /\ wo = [k \in Upto(s.n) |-> WireOf(v, k, "o")] /\ qk = QkOf(v)
         /\ pi2 = [m \in Commits |-> CommittedValues(m, wl, r[1], r[2])]
  OBVIOUS
<1>7. /\ x' = [f \in DOMAIN x \cup {"L", "R", "O", "Pi2"} |->
                  CASE f = "L" -> Poly(wl) [] f = "R" -> Poly(wr)
                    [] f = "O" -> Poly(wo) [] f = "Qk" -> Poly(qk)
                    [] f = "Pi2" -> [m \in Commits |-> Poly(pi2[m])]
                    [] OTHER -> x[f]]
      /\ proof' = [proof EXCEPT
              !.bsb = [m \in Commits |-> LagrangeMultiExp(pi2[m], 0, s.n)],
              !.LRO = commitToLRO(wl, wr, wo, v)]
  BY <1>5, <1>6
<1>8. /\ wl \in Vec(s.n) /\ wr \in Vec(s.n) /\ wo \in Vec(s.n) /\ qk \in Vec(s.n)
      /\ \A m \in Commits : pi2[m] \in Vec(s.n)
  <2>1. wl \in Vec(s.n) /\ wr \in Vec(s.n) /\ wo \in Vec(s.n)
    BY <1>2, <1>6, WiresAre
  <2>2. r[1] \in F /\ r[2] \in F
    BY ValuesAssumption
  <2>3. qk \in Vec(s.n)
    BY <1>2, <1>6, QkType
  <2> QED BY <1>2, <1>6, <2>1, <2>2, <2>3, CommittedValuesType
<1>9. /\ Poly(wl) \in Vec(s.n) /\ Poly(wr) \in Vec(s.n) /\ Poly(wo) \in Vec(s.n)
      /\ Poly(qk) \in Vec(s.n) /\ \A m \in Commits : Poly(pi2[m]) \in Vec(s.n)
  BY <1>4, <1>8, PolyIs
<1>10. /\ DOMAIN x = TraceFields /\ \A f \in Selectors : x[f] \in Vec(s.n)
       /\ x.Qcp \in [Commits -> Vec(s.n)]
  BY <1>2, FieldsAre DEF FieldsOK, FieldsAt, Single
<1>11. /\ DOMAIN x' = TraceFields \cup {"L", "R", "O", "Pi2"}
       /\ x'.L = Poly(wl) /\ x'.R = Poly(wr) /\ x'.O = Poly(wo) /\ x'.Qk = Poly(qk)
       /\ x'.Pi2 = [m \in Commits |-> Poly(pi2[m])] /\ x'.Qcp = x.Qcp
       /\ \A f \in Selectors \ {"Qk"} : x'[f] = x[f]
  BY <1>7, <1>10 DEF TraceFields, Selectors
<1>12. Typed'
  <2>1. FieldsOK(x', "ratio", s.n, Commits)
    <3>1. \A f \in Selectors \cup {"L", "R", "O"} : x'[f] \in Vec(s.n)
      <4> SUFFICES ASSUME NEW f \in Selectors \cup {"L", "R", "O"} PROVE x'[f] \in Vec(s.n)
        OBVIOUS
      <4>1. CASE f \in Selectors \ {"Qk"}
        BY <1>10, <1>11, <4>1
      <4>2. CASE f \in {"Qk", "L", "R", "O"}
        BY <1>9, <1>11, <4>2
      <4> QED BY <4>1, <4>2
    <3>2. x'.Pi2 \in [Commits -> Vec(s.n)]
      BY <1>9, <1>11
    <3>3. FieldsAt("ratio") = TraceFields \cup {"L", "R", "O", "Pi2"}
      BY DEF FieldsAt
    <3> QED BY <1>10, <1>11, <3>1, <3>2, <3>3, FieldsAre DEF FieldsOK, Single
  <2>2. DOMAIN proof' = {"bsb", "LRO", "Z", "H", "zu"}
    BY <1>2, <1>7 DEF Typed
  <2>3. ChallengesOK(chal, "ratio")
    BY DEF ChallengesOK, Late
  <2> QED BY <1>1, <1>2, <1>3, <2>1, <2>2, <2>3 DEF Typed, Stages, Late, Opening, Blinders
<1>13. Matches'
  <2>1. /\ Inv(Scale)' = 1 /\ 1 (.) Tau = Tau
        /\ \A p \in Vec(s.n) : Rescale(p, 1) = p
    BY <1>1, <1>2, <1>4, TauIs, Neutral, InvOne, RescaleOne DEF Scale
  <2>2. Rescale(x.S1, 1) = s.trace.S1 /\ Rescale(x.S2, 1) = s.trace.S2
    BY <1>1, <1>2, Unscaled DEF IInv, Matches
  <2>3. x'.S1 = x.S1 /\ x'.S2 = x.S2
    BY <1>11 DEF Selectors
  <2>4. /\ proof'.bsb = [m \in Commits |-> LagrangeMultiExp(pi2[m], 0, s.n)]
        /\ proof'.LRO = commitToLRO(wl, wr, wo, v)
    BY <1>2, <1>7 DEF Typed
  <2>5. \A m \in Commits : proof'.bsb[m] = Eval(x'.Pi2[m], Tau)
    BY <1>2, <1>8, <1>11, <2>4, CommitAll
  <2>6. PICK s0 \in F : s0 = s.circuit.witness[v][0]
    BY <1>2, WiresAre
  <2>7. PICK lo \in Nat : lo = s.circuit.nbPublic
    BY <1>4
  <2>8. proof'.LRO = <<CommitWire(wl, 0, s0, bp.L), CommitWire(wr, lo, s0, bp.R),
                       CommitWire(wo, lo, s0, bp.O)>>
    BY <2>4, <2>6, <2>7 DEF commitToLRO
  <2>9. /\ \A k \in Upto(s.n) : (k < 0 \/ k >= s.offset) => wl[k] = s0
        /\ \A k \in Upto(s.n) : (k < lo \/ k >= s.offset) => wr[k] = s0
        /\ \A k \in Upto(s.n) : (k < lo \/ k >= s.offset) => wo[k] = s0
    <3>1. \A k \in Upto(s.n) : k \in Nat
      BY <1>4, UptoIs
    <3> QED BY <1>2, <1>6, <2>6, <2>7, <3>1, WiresAre
  <2>10. bp.L \in Vec(2) /\ bp.R \in Vec(2) /\ bp.O \in Vec(2)
    BY <1>2 DEF Blinders
  <2>11. CommitWire(wl, 0, s0, bp.L) = BlindCommit(Poly(wl), bp.L, Tau)
    BY <1>2, <1>4, <1>8, <2>9, <2>10, CommitWireIs
  <2>12. CommitWire(wr, lo, s0, bp.R) = BlindCommit(Poly(wr), bp.R, Tau)
    BY <1>2, <1>4, <1>8, <2>7, <2>9, <2>10, CommitWireIs
  <2>13. CommitWire(wo, lo, s0, bp.O) = BlindCommit(Poly(wo), bp.O, Tau)
    BY <1>2, <1>4, <1>8, <2>7, <2>9, <2>10, CommitWireIs
  <2>14. /\ proof'.LRO[1] = BlindCommit(x'.L, bp.L, Tau)
         /\ proof'.LRO[2] = BlindCommit(x'.R, bp.R, Tau)
         /\ proof'.LRO[3] = BlindCommit(x'.O, bp.O, Tau)
    BY <1>11, <2>8, <2>11, <2>12, <2>13
  <2> QED BY <1>1, <1>3, <2>1, <2>2, <2>3, <2>5, <2>14 DEF Matches, BlindCommit
<1>14. Product'
  BY <1>1 DEF Product
<1> QED BY <1>12, <1>13, <1>14 DEF IInv

LEMMA BuildRatioStep ==
  ASSUME IInv, BuildRatio
  PROVE  IInv'
<1>1. /\ pc = "ratio" /\ pc' = "alpha" /\ s' = s /\ bp' = bp /\ i' = i
      /\ coset' = coset /\ cres' = cres /\ blindedZ' = blindedZ
  BY DEF BuildRatio
<1>2. Typed /\ Instance /\ Blinders(bp) /\ FieldsOK(x, "ratio", s.n, Commits)
  BY <1>1 DEF IInv, Typed
<1>3. Instance' /\ Commits' = Commits /\ Zh' = Zh
  BY <1>1, <1>2, SameInstance
<1>4. Order(s.n) /\ s.n \in Nat
  BY <1>2, InstanceIs
<1>5. PICK gb \in GammaBetas :
         /\ \A k \in Upto(s.n - 1) : Denominator(k, gb[2], gb[1]) # 0
         /\ chal' = [gamma |-> gb[1], beta |-> gb[2]]
         /\ x' = [f \in DOMAIN x \cup {"Z"} |->
                    IF f = "Z" THEN Poly(CopyRatio(gb[2], gb[1])) ELSE x[f]]
         /\ proof' = [proof EXCEPT !.Z = commitToPolyAndBlinding(CopyRatio(gb[2], gb[1]), bp.Z)]
  BY DEF BuildRatio
<1>6. PICK beta \in F, gamma \in F : beta = gb[2] /\ gamma = gb[1]
  BY ValuesAssumption
<1>7. PICK z : z = CopyRatio(beta, gamma)
  OBVIOUS
<1>8. /\ DOMAIN x = TraceFields \cup {"L", "R", "O", "Pi2"}
      /\ \A f \in Selectors \cup {"L", "R", "O"} : x[f] \in Vec(s.n)
      /\ x.Qcp \in [Commits -> Vec(s.n)] /\ x.Pi2 \in [Commits -> Vec(s.n)]
  BY <1>2, FieldsAre DEF FieldsOK, FieldsAt, Single
<1>9. RatioInputs
  <2>1. s.trace.S1 \in Vec(s.n) /\ s.trace.S2 \in Vec(s.n) /\ s.trace.S3 \in Vec(s.n)
    BY <1>2, InstanceIs, TraceType DEF Selectors
  <2> QED BY <1>8, <2>1 DEF RatioInputs
<1>10. z \in Vec(s.n) /\ Poly(z) \in Vec(s.n)
  BY <1>2, <1>4, <1>7, <1>9, CopyRatioIs, PolyIs
<1>11. /\ DOMAIN x' = AllFields \cup {"Qcp", "Pi2"} /\ x'.Z = Poly(z)
       /\ \A f \in (AllFields \cup {"Qcp", "Pi2"}) \ {"Z"} : x'[f] = x[f]
  BY <1>5, <1>6, <1>7, <1>8 DEF TraceFields, AllFields, Selectors
<1>12. Typed'
  <2>1. Complete(x')
    <3>1. \A f \in AllFields : x'[f] \in Vec(s.n)
      BY <1>8, <1>10, <1>11 DEF AllFields, Selectors
    <3>2. x'.Qcp = x.Qcp /\ x'.Pi2 = x.Pi2
      BY <1>11 DEF AllFields, Selectors
    <3> QED BY <1>8, <3>1, <3>2 DEF Complete, Vectors
  <2>2. FieldsOK(x', "alpha", s.n, Commits)
    BY <1>11, <2>1, FieldsFrom DEF Stages
  <2>3. DOMAIN proof' = {"bsb", "LRO", "Z", "H", "zu"}
    BY <1>2, <1>5 DEF Typed
  <2>4. ChallengesOK(chal', "alpha")
    BY <1>5, <1>6 DEF ChallengesOK, Late
  <2> QED BY <1>1, <1>2, <1>3, <2>2, <2>3, <2>4 DEF Typed, Stages, Late, Opening, Blinders
<1>13. Matches'
  <2>1. Inv(Scale)' = 1 /\ 1 (.) Tau = Tau
    BY <1>1, <1>2, TauIs, Neutral, InvOne DEF Scale
  <2>2. /\ x'.S1 = x.S1 /\ x'.S2 = x.S2 /\ x'.L = x.L /\ x'.R = x.R /\ x'.O = x.O
        /\ x'.Pi2 = x.Pi2
    BY <1>11 DEF AllFields, Selectors
  <2>3. proof'.bsb = proof.bsb /\ proof'.LRO = proof.LRO
        /\ proof'.Z = commitToPolyAndBlinding(z, bp.Z)
    BY <1>2, <1>5, <1>6, <1>7 DEF Typed
  <2>4. bp.Z \in Vec(3)
    BY <1>2 DEF Blinders
  <2>5. proof'.Z = BlindCommit(x'.Z, bp.Z, Tau)
    BY <1>2, <1>10, <1>11, <2>3, <2>4, CommitBlindedIs
  <2>6. /\ Rescale(x.S1, 1) = s.trace.S1 /\ Rescale(x.S2, 1) = s.trace.S2
        /\ \A m \in Commits : proof.bsb[m] = Eval(x.Pi2[m], Tau)
        /\ proof.LRO[1] = BlindCommit(x.L, bp.L, Tau)
        /\ proof.LRO[2] = BlindCommit(x.R, bp.R, Tau)
        /\ proof.LRO[3] = BlindCommit(x.O, bp.O, Tau)
    BY <1>1, <1>2, Unscaled DEF IInv, Matches
  <2> QED BY <1>1, <1>3, <2>1, <2>2, <2>3, <2>5, <2>6 DEF Matches, BlindCommit
<1>14. Product'
  <2>1. x'.L = x.L /\ x'.R = x.R /\ x'.O = x.O
    BY <1>11 DEF AllFields, Selectors
  <2>2. /\ CopyRatio(beta, gamma)' = CopyRatio(beta, gamma)
        /\ \A k : Denominator(k, beta, gamma)' = Denominator(k, beta, gamma)
    BY <1>1, <2>1 DEF CopyRatio, Numerator, Denominator, Factors, twiddles0
  <2>3. chal'.beta = beta /\ chal'.gamma = gamma
    BY <1>5, <1>6
  <2>4. x'.Z = Poly(CopyRatio(beta, gamma)')
    BY <1>7, <1>11, <2>2
  <2>5. \A k \in Upto(s.n - 1) : Denominator(k, beta, gamma)' # 0
    BY <1>5, <1>6, <2>2
  <2>6. CopyRatio(chal.beta, chal.gamma)' = CopyRatio(beta, gamma)'
    BY <2>3 DEF CopyRatio, Numerator, Denominator, Factors, twiddles0
  <2>7. \A k : Denominator(k, chal.beta, chal.gamma)' = Denominator(k, beta, gamma)'
    BY <2>3 DEF Denominator, Factors, twiddles0
  <2> QED BY <1>1, <2>4, <2>5, <2>6, <2>7 DEF Product
<1> QED BY <1>12, <1>13, <1>14 DEF IInv

LEMMA StartQuotientStep ==
  ASSUME IInv, StartQuotient
  PROVE  IInv'
<1>1. /\ pc = "alpha" /\ pc' = "coset" /\ s' = s /\ bp' = bp /\ i' = i /\ x' = x
      /\ coset' = coset /\ blindedZ' = blindedZ /\ proof' = proof
      /\ cres' = [k \in Upto(s.big) |-> 0]
  BY DEF StartQuotient
<1>2. Typed /\ Instance /\ FieldsOK(x, "alpha", s.n, Commits) /\ i = 0 /\ coset = 1
      /\ chal.gamma \in F /\ chal.beta \in F
  BY <1>1 DEF IInv, Typed, ChallengesOK, Late, CosetAt
<1>3. Instance' /\ Commits' = Commits /\ Zh' = Zh
  BY <1>1, <1>2, SameInstance
<1>4. PICK alpha \in F : chal' = [gamma |-> chal.gamma, beta |-> chal.beta, alpha |-> alpha]
  BY ValuesAssumption DEF StartQuotient
<1>5. Typed'
  <2>1. FieldsOK(x, "coset", s.n, Commits)
    BY <1>2, CompleteIs, FieldsFrom DEF Stages
  <2>2. ChallengesOK(chal', "coset")
    BY <1>2, <1>4 DEF ChallengesOK, Late
  <2>3. cres' \in Vec(s.big)
    BY <1>1, ZeroOne DEF Vec
  <2> QED BY <1>1, <1>2, <1>3, <2>1, <2>2, <2>3 DEF Typed, Stages, Late, Opening, Blinders
<1>6. Matches'
  <2>1. Scale' = 1 /\ Scale = 1
    BY <1>1, <1>2 DEF Scale
  <2> QED BY <1>1, <1>3, <2>1 DEF IInv, Matches, BlindCommit
<1>7. Product'
  BY <1>1 DEF Product
<1> QED BY <1>5, <1>6, <1>7 DEF IInv

LEMMA StutterStep ==
  ASSUME IInv, UNCHANGED vars
  PROVE  IInv'
<1>1. /\ pc' = pc /\ s' = s /\ x' = x /\ bp' = bp /\ val' = val /\ chal' = chal /\ proof' = proof
      /\ i' = i /\ coset' = coset /\ cres' = cres /\ h' = h /\ blindedZ' = blindedZ
      /\ opened' = opened
  BY DEF vars
<1>2. Typed'
  BY <1>1 DEF IInv, Typed, Instance, Commits, Blinders
<1>3. Matches'
  BY <1>1 DEF IInv, Matches, BlindCommit, Zh, Scale, Commits, Commit
<1>4. Product'
  <2>1. /\ CopyRatio(chal.beta, chal.gamma)' = CopyRatio(chal.beta, chal.gamma)
        /\ \A k : Denominator(k, chal.beta, chal.gamma)' = Denominator(k, chal.beta, chal.gamma)
    BY <1>1 DEF CopyRatio, Numerator, Denominator, Factors, twiddles0
  <2> QED BY <1>1, <2>1 DEF IInv, Product
<1> QED BY <1>2, <1>3, <1>4 DEF IInv

-------------------------------------------------------------------------------
(***************************************************************************)
(* The coset loop and its end, which rescale every polynomial.             *)
(***************************************************************************)
LEMMA RescaleAllIs ==
  ASSUME Instance, NEW xs, Complete(xs), DOMAIN xs = AllFields \cup {"Qcp", "Pi2"}, NEW c \in F
  PROVE  LET ys == RescaleAll(xs, c)
         IN  /\ Complete(ys) /\ DOMAIN ys = AllFields \cup {"Qcp", "Pi2"}
             /\ \A f \in AllFields : ys[f] = Rescale(xs[f], c)
             /\ \A m \in Commits : ys.Pi2[m] = Rescale(xs.Pi2[m], c)
<1>1. PICK ys : ys = RescaleAll(xs, c)
  OBVIOUS
<1>2. /\ DOMAIN ys = AllFields \cup {"Qcp", "Pi2"}
      /\ \A f \in AllFields : ys[f] = Rescale(xs[f], c)
      /\ ys.Qcp = [m \in DOMAIN xs.Qcp |-> Rescale(xs.Qcp[m], c)]
      /\ ys.Pi2 = [m \in DOMAIN xs.Pi2 |-> Rescale(xs.Pi2[m], c)]
  BY <1>1 DEF RescaleAll, AllFields, Selectors
<1>3. s.n \in Nat /\ \A p \in Vec(s.n) : Rescale(p, c) \in Vec(s.n)
  BY InstanceIs, RescaleIs
<1>4. /\ \A f \in AllFields : xs[f] \in Vec(s.n)
      /\ xs.Qcp \in [Commits -> Vec(s.n)] /\ xs.Pi2 \in [Commits -> Vec(s.n)]
  BY DEF Complete, Vectors
<1>5. \A f \in AllFields : ys[f] \in Vec(s.n)
  BY <1>2, <1>3, <1>4
<1>6. ys.Qcp \in [Commits -> Vec(s.n)] /\ ys.Pi2 \in [Commits -> Vec(s.n)]
  BY <1>2, <1>3, <1>4
<1>7. \A m \in Commits : ys.Pi2[m] = Rescale(xs.Pi2[m], c)
  BY <1>2, <1>4
<1>8. Complete(ys)
  BY <1>5, <1>6 DEF Complete, Vectors
<1> QED BY <1>1, <1>2, <1>7, <1>8

\* Scaling by c leaves d of the shift where there was c times d.
LEMMA Reshift ==
  ASSUME NEW c \in F, NEW d \in F, NEW e \in F, c (.) d = e, NEW n \in Nat, NEW p \in Vec(n)
  PROVE  /\ Rescale(Rescale(p, c), d) = Rescale(p, e)
         /\ \A t \in F : Eval(Rescale(p, c), d (.) t) = Eval(p, e (.) t)
<1>1. Rescale(Rescale(p, c), d) = Rescale(p, e)
  BY RescaleTwice
<1>2. ASSUME NEW t \in F PROVE Eval(Rescale(p, c), d (.) t) = Eval(p, e (.) t)
  <2>1. d (.) t \in F /\ c (.) (d (.) t) = e (.) t
    BY Closed, Associates
  <2> QED BY <2>1, EvalRescale
<1> QED BY <1>1, <1>2

LEMMA RescaleStep ==
  ASSUME IInv, pc = "coset", pc' \in {"coset", "openZ"}, s' = s,
         NEW c \in F, NEW d \in F, c (.) d = Inv(Scale), Inv(Scale)' = d,
         x' = RescaleAll(x, c), DOMAIN bp' = DOMAIN bp,
         \A f \in DOMAIN bp : bp'[f] = Rescale(bp[f], c),
         proof'.bsb = proof.bsb, proof'.LRO = proof.LRO, proof'.Z = proof.Z
  PROVE  Matches' /\ FieldsOK(x, pc, s.n, Commits)' /\ Blinders(bp)'
<1>1. Instance /\ Complete(x) /\ DOMAIN x = AllFields \cup {"Qcp", "Pi2"} /\ Blinders(bp)
  BY CompleteIs DEF IInv, Typed, Stages
<1>2. Commits' = Commits /\ Zh' = Zh /\ s.n \in Nat /\ Tau \in F
  BY <1>1, SameInstance, InstanceIs, TauIs
<1>3. /\ Complete(x') /\ DOMAIN x' = AllFields \cup {"Qcp", "Pi2"}
      /\ \A f \in AllFields : x'[f] = Rescale(x[f], c)
      /\ \A m \in Commits : x'.Pi2[m] = Rescale(x.Pi2[m], c)
  BY <1>1, RescaleAllIs
<1>4. PICK e \in F : e = Inv(Scale) /\ c (.) d = e
  BY Closed
<1>5. /\ \A f \in AllFields : x[f] \in Vec(s.n)
      /\ \A m \in Commits : x.Pi2[m] \in Vec(s.n)
  BY <1>1 DEF Complete, Vectors
<1>6. /\ bp'.L = Rescale(bp.L, c) /\ bp'.R = Rescale(bp.R, c) /\ bp'.O = Rescale(bp.O, c)
      /\ bp'.Z = Rescale(bp.Z, c)
      /\ bp.L \in Vec(2) /\ bp.R \in Vec(2) /\ bp.O \in Vec(2) /\ bp.Z \in Vec(3)
  BY <1>1 DEF Blinders
<1>7. Blinders(bp')
  <2>1. /\ \A p \in Vec(2) : Rescale(p, c) \in Vec(2)
        /\ \A p \in Vec(3) : Rescale(p, c) \in Vec(3)
    BY RescaleIs
  <2> QED BY <1>1, <1>6, <2>1 DEF Blinders
<1>8. FieldsOK(x', pc', s.n, Commits)
  BY <1>3, FieldsFrom, <1>1 DEF FieldsOK, FieldsAt, Stages, Late, AllFields, Selectors, Complete,
     Vectors
<1>9. /\ \A f \in AllFields : Eval(x'[f], d (.) Tau) = Eval(x[f], e (.) Tau)
      /\ \A m \in Commits : Eval(x'.Pi2[m], d (.) Tau) = Eval(x.Pi2[m], e (.) Tau)
  BY <1>2, <1>3, <1>4, <1>5, Reshift
<1>10. /\ Eval(bp'.L, d (.) Tau) = Eval(bp.L, e (.) Tau)
       /\ Eval(bp'.R, d (.) Tau) = Eval(bp.R, e (.) Tau)
       /\ Eval(bp'.O, d (.) Tau) = Eval(bp.O, e (.) Tau)
       /\ Eval(bp'.Z, d (.) Tau) = Eval(bp.Z, e (.) Tau)
  <2>1. /\ \A p \in Vec(2) : Eval(Rescale(p, c), d (.) Tau) = Eval(p, e (.) Tau)
        /\ \A p \in Vec(3) : Eval(Rescale(p, c), d (.) Tau) = Eval(p, e (.) Tau)
    BY <1>2, <1>4, Reshift
  <2> QED BY <1>6, <2>1
<1>11. Rescale(x'.S1, d) = s.trace.S1 /\ Rescale(x'.S2, d) = s.trace.S2
  <2>1. "S1" \in AllFields /\ "S2" \in AllFields
    BY DEF AllFields, Selectors
  <2>2. Rescale(x'.S1, d) = Rescale(x.S1, e) /\ Rescale(x'.S2, d) = Rescale(x.S2, e)
    BY <1>2, <1>3, <1>4, <1>5, <2>1, Reshift
  <2> QED BY <1>4, <2>2 DEF IInv, Matches
<1>12. \A m \in Commits : proof'.bsb[m] = Eval(x'.Pi2[m], d (.) Tau)
  BY <1>4, <1>9 DEF IInv, Matches
<1>13. /\ "L" \in AllFields /\ "R" \in AllFields /\ "O" \in AllFields /\ "Z" \in AllFields
  BY DEF AllFields
<1>14. /\ proof'.LRO[1] = BlindCommit(x'.L, bp'.L, d (.) Tau)
       /\ proof'.LRO[2] = BlindCommit(x'.R, bp'.R, d (.) Tau)
       /\ proof'.LRO[3] = BlindCommit(x'.O, bp'.O, d (.) Tau)
       /\ proof'.Z = BlindCommit(x'.Z, bp'.Z, d (.) Tau)
  BY <1>4, <1>9, <1>10, <1>13 DEF IInv, Matches, BlindCommit
<1>15. Matches'
  BY <1>2, <1>11, <1>12, <1>14 DEF Matches, BlindCommit
<1> QED BY <1>2, <1>7, <1>8, <1>15 DEF Blinders

\* The blindings are multiplied by c^n - 1 for the constraints and divided by it.
LEMMA Undone ==
  \A b, p \in F, q \in F \ {0} : (b (.) q (.) p) (.) Inv(q) = b (.) p /\ b (.) q (.) p \in F
<1> SUFFICES ASSUME NEW b \in F, NEW p \in F, NEW q \in F \ {0}
             PROVE  (b (.) q (.) p) (.) Inv(q) = b (.) p /\ b (.) q (.) p \in F
  OBVIOUS
<1>1. PICK r \in F : r = Inv(q) /\ q (.) r = 1
  BY InverseIs
<1>2. b (.) q (.) p = (b (.) p) (.) q /\ b (.) p \in F /\ b (.) q (.) p \in F
  <2>1. (b (.) q) (.) p = b (.) (q (.) p) /\ q (.) p = p (.) q /\ b (.) (p (.) q) = (b (.) p) (.) q
        /\ b (.) p \in F /\ b (.) q \in F
    BY Associates, Commutes, Closed
  <2> QED BY <2>1, Closed
<1>3. ((b (.) p) (.) q) (.) r = b (.) p
  BY <1>1, <1>2, Associates, Neutral
<1> QED BY <1>1, <1>2, <1>3

LEMMA BlindsScaled ==
  ASSUME NEW m \in Nat, NEW b \in Vec(m), NEW c \in F, NEW q \in F \ {0}
  PROVE  LET y == [k \in DOMAIN b |-> b[k] (.) q (.) Power(c, k)]
         IN  y \in Vec(m) /\ [k \in DOMAIN y |-> y[k] (.) Inv(q)] = Rescale(b, c)
<1>1. DOMAIN b = Upto(m) /\ \A k \in Upto(m) : k \in Nat /\ b[k] \in F
  BY UptoIs DEF Vec
<1>2. \A k \in Upto(m) : /\ b[k] (.) q (.) Power(c, k) \in F
                         /\ (b[k] (.) q (.) Power(c, k)) (.) Inv(q) = b[k] (.) Power(c, k)
  <2>1. \A k \in Upto(m) : b[k] \in F /\ Power(c, k) \in F
    BY <1>1, PowerLaws
  <2> QED BY <2>1, Undone
<1>3. PICK y : y = [k \in DOMAIN b |-> b[k] (.) q (.) Power(c, k)]
  OBVIOUS
<1>4. y \in Vec(m)
  BY <1>1, <1>2, <1>3 DEF Vec
<1>5. [k \in DOMAIN y |-> y[k] (.) Inv(q)] = [k \in DOMAIN b |-> b[k] (.) Power(c, k)]
  BY <1>1, <1>2, <1>3
<1> QED BY <1>3, <1>4, <1>5 DEF Rescale

LEMMA CosetStep ==
  ASSUME IInv, Coset
  PROVE  IInv'
<1>1. /\ pc = "coset" /\ pc' = "coset" /\ i < s.rho /\ i' = i + 1 /\ s' = s /\ chal' = chal
      /\ proof' = proof /\ blindedZ' = blindedZ
  BY DEF Coset
<1>2. /\ Typed /\ Instance /\ Blinders(bp) /\ Complete(x) /\ DOMAIN x = AllFields \cup {"Qcp", "Pi2"}
      /\ i \in 0 .. s.rho /\ coset = CosetAt(i, s.big) /\ cres \in Vec(s.big)
      /\ DOMAIN chal = {"gamma", "beta", "alpha"}
      /\ chal.gamma \in F /\ chal.beta \in F /\ chal.alpha \in F
  BY <1>1, CompleteIs DEF IInv, Typed, Stages, ChallengesOK, Late
<1>3. s.n \in Nat /\ s.big \in Nat /\ s.rho \in Nat \ {0} /\ i \in Nat
  BY <1>2, InstanceIs
<1>4. PICK c, sh, cn : c = coset (.) Shifter(i) /\ sh = Shifter(i) /\ cn = Power(c, s.n) (-) 1
  OBVIOUS
<1>5. /\ sh \in F \ {0} /\ coset \in F \ {0} /\ c \in F \ {0} /\ cn \in F \ {0}
      /\ c = CosetAt(i + 1, s.big) /\ c = coset (.) sh
  BY <1>1, <1>2, <1>3, <1>4, ShifterIs
<1>6. PICK xs : xs = RescaleAll(x, sh)
  OBVIOUS
<1>7. PICK bs : bs = [f \in DOMAIN bp |->
                        [k \in DOMAIN bp[f] |-> bp[f][k] (.) cn (.) Power(sh, k)]]
  OBVIOUS
<1>8. PICK buf : buf = [k \in Upto(s.n) |->
                 IF s.gpu THEN constraintKernel(xs, PackedBlinding(bs), PackedChallenges(c, cn), k)
                          ELSE allConstraints(xs, bs, c, cn, k)]
  OBVIOUS
<1>9. PICK at : at = [k \in Upto(s.n) |-> BitReverse(s.rho * k + i, s.big)]
  OBVIOUS
<1>10. /\ coset' = c /\ x' = xs
       /\ bp' = [f \in DOMAIN bs |-> [k \in DOMAIN bs[f] |-> bs[f][k] (.) Inv(cn)]]
       /\ cres' = [q \in DOMAIN cres |->
                     IF \E k \in DOMAIN at : at[k] = q
                     THEN buf[CHOOSE k \in DOMAIN at : at[k] = q] ELSE cres[q]]
  BY <1>4, <1>6, <1>7, <1>8, <1>9 DEF Coset
<1>11. Blinders(bs) /\ DOMAIN bp' = DOMAIN bp /\ \A f \in DOMAIN bp : bp'[f] = Rescale(bp[f], sh)
  <2>1. DOMAIN bs = DOMAIN bp /\ DOMAIN bp' = DOMAIN bp /\ DOMAIN bp = {"L", "R", "O", "Z"}
        /\ bp.L \in Vec(2) /\ bp.R \in Vec(2) /\ bp.O \in Vec(2) /\ bp.Z \in Vec(3)
    BY <1>2, <1>7, <1>10 DEF Blinders
  <2>2. ASSUME NEW f \in DOMAIN bp, NEW m \in Nat, bp[f] \in Vec(m)
        PROVE  bs[f] \in Vec(m) /\ bp'[f] = Rescale(bp[f], sh)
    <3>1. PICK y : y = [k \in DOMAIN bp[f] |-> bp[f][k] (.) cn (.) Power(sh, k)]
      OBVIOUS
    <3>2. y \in Vec(m) /\ [k \in DOMAIN y |-> y[k] (.) Inv(cn)] = Rescale(bp[f], sh)
      BY <1>5, <2>2, <3>1, BlindsScaled
    <3>3. bs[f] = y
      BY <1>7, <3>1
    <3>4. bp'[f] = [k \in DOMAIN y |-> y[k] (.) Inv(cn)]
      BY <1>10, <2>1, <3>3
    <3> QED BY <3>2, <3>3, <3>4
  <2>3. \A f \in DOMAIN bp : bp'[f] = Rescale(bp[f], sh)
    BY <2>1, <2>2
  <2>4. bs.L \in Vec(2) /\ bs.R \in Vec(2) /\ bs.O \in Vec(2) /\ bs.Z \in Vec(3)
    BY <2>1, <2>2
  <2> QED BY <2>1, <2>3, <2>4 DEF Blinders
<1>12. \A k \in Upto(s.n) : buf[k] \in F
  <2>1. Complete(xs)
    BY <1>2, <1>5, <1>6, RescaleAllIs
  <2> SUFFICES ASSUME NEW k \in Upto(s.n) PROVE buf[k] \in F
    OBVIOUS
  <2>2. k \in Nat
    BY <1>3, UptoIs
  <2>3. allConstraints(xs, bs, c, cn, k) \in F
    BY <1>2, <1>5, <1>11, <2>1, <2>2, AllConstraintsType
  <2>4. constraintKernel(xs, PackedBlinding(bs), PackedChallenges(c, cn), k) \in F
    BY <1>2, <1>5, <1>11, <2>1, <2>2, ConstraintKernelType
  <2> QED BY <1>8, <2>3, <2>4
<1>13. cres' \in Vec(s.big)
  <2>1. DOMAIN at = Upto(s.n) /\ DOMAIN cres = Upto(s.big) /\ \A q \in Upto(s.big) : cres[q] \in F
    BY <1>2, <1>9 DEF Vec
  <2>2. ASSUME NEW q \in Upto(s.big) PROVE cres'[q] \in F
    <3>1. CASE \E k \in DOMAIN at : at[k] = q
      <4>1. PICK j \in Upto(s.n) : j = CHOOSE k \in DOMAIN at : at[k] = q
        BY <2>1, <3>1
      <4>2. cres'[q] = buf[j]
        BY <1>10, <2>1, <3>1, <4>1
      <4> QED BY <1>12, <4>2
    <3>2. CASE ~ \E k \in DOMAIN at : at[k] = q
      BY <1>10, <2>1, <3>2
    <3> QED BY <3>1, <3>2
  <2> QED BY <1>10, <2>1, <2>2 DEF Vec
<1>14. Matches' /\ FieldsOK(x, pc, s.n, Commits)' /\ Blinders(bp)'
  <2>1. PICK d \in F, e \in F : d = Inv(c) /\ e = Inv(Scale) /\ sh (.) d = e
    <3>1. Scale = coset
      BY <1>1 DEF Scale
    <3>2. Inv(c) = Inv(coset) (.) Inv(sh) /\ Inv(coset) \in F /\ Inv(sh) \in F
          /\ sh (.) Inv(sh) = 1
      BY <1>5, NonzeroProduct, InverseIs
    <3>3. PICK a \in F, b \in F : a = Inv(coset) /\ b = Inv(sh) /\ sh (.) b = 1 /\ Inv(c) = a (.) b
      BY <3>2
    <3>4. sh (.) (a (.) b) = a /\ a (.) b \in F
      <4>1. a (.) b = b (.) a /\ sh (.) (b (.) a) = (sh (.) b) (.) a /\ 1 (.) a = a /\ a (.) b \in F
        BY <1>5, Commutes, Associates, Neutral, Closed
      <4> QED BY <3>3, <4>1
    <3> QED BY <3>1, <3>3, <3>4
  <2>2. Inv(Scale)' = d
    BY <1>1, <1>10, <2>1 DEF Scale
  <2> QED BY <1>1, <1>2, <1>5, <1>6, <1>10, <1>11, <2>1, <2>2, RescaleStep
<1>15. Typed'
  <2>1. Instance'
    BY <1>1, <1>2, SameInstance
  <2>2. i' \in 0 .. s.rho /\ coset' = CosetAt(i', s.big)
    BY <1>1, <1>3, <1>5, <1>10
  <2>3. ChallengesOK(chal', pc')
    BY <1>1, <1>2 DEF ChallengesOK, Late
  <2> QED BY <1>1, <1>2, <1>13, <1>14, <2>1, <2>2, <2>3 DEF Typed, Stages, Late, Opening
<1>16. Product'
  BY <1>1 DEF Product
<1> QED BY <1>14, <1>15, <1>16 DEF IInv

LEMMA FinishQuotientStep ==
  ASSUME IInv, FinishQuotient
  PROVE  IInv'
<1>1. /\ pc = "coset" /\ pc' = "openZ" /\ i = s.rho /\ s' = s /\ i' = i /\ coset' = coset
      /\ cres' = cres /\ blindedZ' = blindedZ
      /\ x' = RescaleAll(x, Unshift) /\ bp' = [f \in DOMAIN bp |-> Rescale(bp[f], Unshift)]
      /\ h' = divideByZH(cres) /\ proof' = [proof EXCEPT !.H = commitToQuotient(h')]
  BY DEF FinishQuotient
<1>2. /\ Typed /\ Instance /\ Complete(x) /\ DOMAIN x = AllFields \cup {"Qcp", "Pi2"}
      /\ coset = CosetAt(i, s.big) /\ cres \in Vec(s.big) /\ s.rho \in Nat
      /\ DOMAIN proof = {"bsb", "LRO", "Z", "H", "zu"}
      /\ chal.gamma \in F /\ chal.beta \in F /\ chal.alpha \in F
      /\ DOMAIN chal = {"gamma", "beta", "alpha"}
  BY <1>1, CompleteIs, InstanceIs DEF IInv, Typed, Stages, ChallengesOK, Late
<1>3. PICK zeta \in F \ {0} : chal' = [f \in DOMAIN chal \cup {"zeta"} |->
                                         IF f = "zeta" THEN zeta ELSE chal[f]]
  BY ValuesAssumption DEF FinishQuotient
<1>4. PICK u \in F : u = Unshift /\ u = Inv(Scale)
  <2>1. coset \in F \ {0}
    BY <1>1, <1>2, CosetNonzero
  <2> QED BY <1>1, <1>2, <2>1, UnshiftIs, InverseIs DEF Scale
<1>5. Matches' /\ FieldsOK(x, pc, s.n, Commits)' /\ Blinders(bp)'
  <2>1. Inv(Scale)' = 1 /\ u (.) 1 = u /\ 1 \in F
    BY <1>1, <1>4, InvOne, Neutral, ZeroOne DEF Scale
  <2>2. proof'.bsb = proof.bsb /\ proof'.LRO = proof.LRO /\ proof'.Z = proof.Z
    BY <1>1, <1>2
  <2>3. /\ x' = RescaleAll(x, u) /\ DOMAIN bp' = DOMAIN bp
        /\ \A f \in DOMAIN bp : bp'[f] = Rescale(bp[f], u)
    BY <1>1, <1>4
  <2> QED BY <1>1, <1>4, <2>1, <2>2, <2>3, RescaleStep
<1>6. Typed'
  <2>1. Instance'
    BY <1>1, <1>2, SameInstance
  <2>2. h' \in Vec(s.big)
    BY <1>1, <1>2, QuotientType
  <2>3. ChallengesOK(chal', pc')
    BY <1>1, <1>2, <1>3 DEF ChallengesOK, Late
  <2>4. DOMAIN proof' = {"bsb", "LRO", "Z", "H", "zu"}
    BY <1>1, <1>2
  <2> QED BY <1>1, <1>2, <1>5, <2>1, <2>2, <2>3, <2>4 DEF IInv, Typed, Stages, Late, Opening
<1>7. Product'
  BY <1>1 DEF Product
<1> QED BY <1>5, <1>6, <1>7 DEF IInv

-------------------------------------------------------------------------------
(***************************************************************************)
(* The openings.                                                           *)
(***************************************************************************)
Keeps(ys, xs, f) == \A g \in (AllFields \cup {"Qcp", "Pi2"}) \ {f} : ys[g] = xs[g]

LEMMA OverwrittenIs ==
  ASSUME Instance, NEW xs, Complete(xs), DOMAIN xs = AllFields \cup {"Qcp", "Pi2"},
         NEW f \in {"L", "R", "O", "Z"}, NEW m \in Nat, NEW b \in Vec(s.n + m)
  PROVE  /\ Complete(Overwritten(xs, f, b))
         /\ DOMAIN Overwritten(xs, f, b) = AllFields \cup {"Qcp", "Pi2"}
         /\ Keeps(Overwritten(xs, f, b), xs, f)
<1>1. s.n \in Nat /\ f \in AllFields /\ f \notin {"Qcp", "Pi2"}
  BY InstanceIs DEF AllFields
<1>2. Slice(b, 0, s.n) \in Vec(s.n)
  <2>1. PICK n \in Nat : n = s.n
    BY <1>1
  <2>2. Upto(n - 0) = Upto(n) /\ \A k \in Upto(n) : 0 + k = k /\ k \in Upto(n + m)
    BY DEF Upto
  <2>3. \A k \in Upto(n) : b[0 + k] \in F
    BY <2>1, <2>2 DEF Vec
  <2> QED BY <2>1, <2>2, <2>3 DEF Slice, Vec
<1>3. PICK ys : ys = Overwritten(xs, f, b)
  OBVIOUS
<1>4. /\ DOMAIN ys = DOMAIN xs /\ ys[f] \in Vec(s.n)
      /\ \A g \in DOMAIN xs \ {f} : ys[g] = xs[g]
  <2>1. \A g \in AllFields : xs[g] \in Vec(s.n)
    BY DEF Complete
  <2>2. CASE s.spare
    <3>1. ys = [xs EXCEPT ![f] = Slice(b, 0, s.n)]
      BY <1>3, <2>2 DEF Overwritten
    <3> QED BY <1>1, <1>2, <3>1
  <2>3. CASE ~ s.spare
    <3>1. ys = xs
      BY <1>3, <2>3 DEF Overwritten
    <3> QED BY <1>1, <2>1, <3>1
  <2> QED BY <2>2, <2>3
<1>5. Complete(ys)
  <2>1. \A g \in AllFields : ys[g] \in Vec(s.n)
    BY <1>4 DEF Complete
  <2>2. ys.Qcp = xs.Qcp /\ ys.Pi2 = xs.Pi2
    BY <1>1, <1>4
  <2> QED BY <2>1, <2>2 DEF Complete
<1> QED BY <1>3, <1>4, <1>5 DEF Keeps

LEMMA OpenZStep ==
  ASSUME IInv, openZ
  PROVE  IInv'
<1>1. /\ pc = "openZ" /\ pc' = "linearise" /\ s' = s /\ bp' = bp /\ chal' = chal /\ i' = i
      /\ coset' = coset /\ cres' = cres /\ h' = h
      /\ blindedZ' = getBlindedCoefficients(x.Z, bp.Z)
      /\ x' = Overwritten(x, "Z", blindedZ')
      /\ proof' = [proof EXCEPT !.zu = Eval(blindedZ', chal.zeta (.) s.w)]
  BY DEF openZ
<1>2. /\ Typed /\ Instance /\ Complete(x) /\ DOMAIN x = AllFields \cup {"Qcp", "Pi2"}
      /\ Blinders(bp) /\ DOMAIN proof = {"bsb", "LRO", "Z", "H", "zu"} /\ chal.zeta \in F
  BY <1>1, CompleteIs DEF IInv, Typed, Stages, ChallengesOK, Late
<1>3. Instance' /\ Commits' = Commits /\ Zh' = Zh
  BY <1>1, <1>2, SameInstance
<1>4. s.n \in Nat /\ s.n + 3 \in Nat /\ s.w \in F /\ Tau \in F
  BY <1>2, InstanceIs, GeneratorIs, TauIs
<1>5. x.Z \in Vec(s.n) /\ bp.Z \in Vec(3)
  BY <1>2 DEF Complete, Blinders, AllFields
<1>6. blindedZ' \in Vec(s.n + 3) /\ Commit(blindedZ') = BlindCommit(x.Z, bp.Z, Tau)
  <2>1. PICK b : b = blindedZ'
    OBVIOUS
  <2>2. b \in Vec(s.n + 3)
        /\ Eval(b, Tau) = Eval(x.Z, Tau) (+) (Eval(bp.Z, Tau) (.) (Power(Tau, s.n) (-) 1))
    BY <1>1, <1>4, <1>5, <2>1, EvalBlinded
  <2> QED BY <2>1, <2>2 DEF Commit, BlindCommit, Zh
<1>7. /\ Complete(x') /\ DOMAIN x' = AllFields \cup {"Qcp", "Pi2"} /\ Keeps(x', x, "Z")
  BY <1>1, <1>2, <1>6, OverwrittenIs
<1>8. /\ x'.L = x.L /\ x'.R = x.R /\ x'.O = x.O /\ x'.S1 = x.S1 /\ x'.S2 = x.S2
      /\ x'.Pi2 = x.Pi2
  BY <1>7 DEF Keeps, AllFields, Selectors
<1>9. /\ DOMAIN proof' = {"bsb", "LRO", "Z", "H", "zu"} /\ proof'.bsb = proof.bsb
      /\ proof'.LRO = proof.LRO /\ proof'.Z = proof.Z
      /\ proof'.zu = Eval(blindedZ', chal.zeta (.) s.w)
  BY <1>1, <1>2
<1>10. proof'.zu \in F
  BY <1>2, <1>4, <1>6, <1>9, Closed, EvalType
<1>11. Typed'
  <2>1. FieldsOK(x', "linearise", s.n, Commits)
    BY <1>7, FieldsFrom, <1>1, <1>3 DEF FieldsOK, FieldsAt, Stages, Late, AllFields, Selectors,
       Complete, Vectors
  <2>2. ChallengesOK(chal, "linearise")
    BY <1>1, <1>2 DEF Typed, ChallengesOK, Late
  <2> QED BY <1>1, <1>2, <1>3, <1>6, <1>9, <1>10, <2>1, <2>2
          DEF Typed, Stages, Late, Opening, Blinders
<1>12. Matches'
  <2>1. Inv(Scale)' = 1 /\ 1 (.) Tau = Tau
    BY <1>1, <1>4, Neutral, InvOne DEF Scale
  <2>2. /\ Rescale(x.S1, 1) = s.trace.S1 /\ Rescale(x.S2, 1) = s.trace.S2
        /\ \A m \in Commits : proof.bsb[m] = Eval(x.Pi2[m], Tau)
        /\ proof.LRO[1] = BlindCommit(x.L, bp.L, Tau)
        /\ proof.LRO[2] = BlindCommit(x.R, bp.R, Tau)
        /\ proof.LRO[3] = BlindCommit(x.O, bp.O, Tau)
        /\ proof.Z = BlindCommit(x.Z, bp.Z, Tau)
    BY <1>1, <1>2, Unscaled DEF IInv, Matches
  <2>3. proof'.Z = Commit(blindedZ') /\ proof'.zu = Eval(blindedZ', chal'.zeta (.) s'.w)
    BY <1>1, <1>6, <1>9, <2>2
  <2> QED BY <1>1, <1>3, <1>8, <1>9, <2>1, <2>2, <2>3 DEF Matches, BlindCommit, Commit
<1>13. Product'
  BY <1>1 DEF Product
<1> QED BY <1>11, <1>12, <1>13 DEF IInv

LEMMA LinearizeStep ==
  ASSUME IInv, computeLinearizedPolynomial
  PROVE  IInv'
<1>1. /\ pc = "linearise" /\ pc' = "open" /\ s' = s /\ bp' = bp /\ chal' = chal /\ i' = i
      /\ coset' = coset /\ cres' = cres /\ h' = h /\ proof' = proof
      /\ blindedZ' = innerComputeLinearizedPoly(
                       Scalars(Openings.l, Openings.r, Openings.o, proof.zu), Openings.qcp, blindedZ)
      /\ x' = Overwritten(x, "Z", blindedZ')
  BY DEF computeLinearizedPolynomial
<1>2. /\ Typed /\ Instance /\ Complete(x) /\ DOMAIN x = AllFields \cup {"Qcp", "Pi2"}
      /\ Blinders(bp) /\ Challenged /\ h \in Vec(s.big) /\ blindedZ \in Vec(s.n + 3)
      /\ proof.zu \in F /\ ChallengesOK(chal, pc)
  BY <1>1, CompleteIs DEF IInv, Typed, Stages, ChallengesOK, Late, Opening, Challenged
<1>3. Instance' /\ Commits' = Commits /\ Zh' = Zh
  BY <1>1, <1>2, SameInstance
<1>4. blindedZ' \in Vec(s.n + 3)
  <2>1. PICK m \in Nat : Commits = Upto(m)
    BY <1>2, CommitsAre
  <2>2. PICK l \in F, r \in F, o \in F, qz \in Vec(m) :
          l = Openings.l /\ r = Openings.r /\ o = Openings.o /\ qz = Openings.qcp
    <3>1. /\ Openings.l \in F /\ Openings.r \in F /\ Openings.o \in F
          /\ Openings.qcp \in Vec(m)
      BY <1>2, <2>1, OpeningsType DEF Challenged
    <3> QED BY <3>1
  <2>3. PICK sc : sc = Scalars(l, r, o, proof.zu) /\ Scaled(sc)
    BY <1>2, ScalarsType
  <2>4. innerComputeLinearizedPoly(sc, qz, blindedZ) \in Vec(s.n + 3)
    BY <1>2, <2>1, <2>3, LinearizedType
  <2> QED BY <1>1, <2>2, <2>3, <2>4
<1>5. /\ Complete(x') /\ DOMAIN x' = AllFields \cup {"Qcp", "Pi2"} /\ Keeps(x', x, "Z")
  BY <1>1, <1>2, <1>4, OverwrittenIs
<1>6. /\ x'.L = x.L /\ x'.R = x.R /\ x'.O = x.O /\ x'.S1 = x.S1 /\ x'.S2 = x.S2
      /\ x'.Pi2 = x.Pi2
  BY <1>5 DEF Keeps, AllFields, Selectors
<1>7. Typed'
  <2>1. FieldsOK(x', "open", s.n, Commits)
    BY <1>5, FieldsFrom, <1>1, <1>3 DEF FieldsOK, FieldsAt, Stages, Late, AllFields, Selectors,
       Complete, Vectors
  <2>2. ChallengesOK(chal, "open")
    BY <1>1, <1>2 DEF ChallengesOK, Late
  <2> QED BY <1>1, <1>2, <1>3, <1>4, <2>1, <2>2 DEF Typed, Stages, Late, Opening, Blinders
<1>8. Matches'
  <2>1. Scale' = 1 /\ Scale = 1
    BY <1>1 DEF Scale
  <2> QED BY <1>1, <1>3, <1>6, <2>1 DEF IInv, Matches, BlindCommit
<1>9. Product'
  BY <1>1 DEF Product
<1> QED BY <1>7, <1>8, <1>9 DEF IInv

LEMMA BatchOpeningStep ==
  ASSUME IInv, batchOpening
  PROVE  IInv'
<1>1. /\ pc = "open" /\ pc' = "done" /\ s' = s /\ bp' = bp /\ chal' = chal /\ i' = i
      /\ coset' = coset /\ cres' = cres /\ h' = h /\ proof' = proof /\ blindedZ' = blindedZ
  BY DEF batchOpening
<1>2. PICK L, R, O : L = getBlindedCoefficients(x.L, bp.L) /\ R = getBlindedCoefficients(x.R, bp.R)
                     /\ O = getBlindedCoefficients(x.O, bp.O)
  OBVIOUS
<1>3. /\ opened' = <<blindedZ, L, R, O, x.S1, x.S2>>
      /\ x' = Overwritten(Overwritten(Overwritten(x, "L", L), "R", R), "O", O)
  BY <1>2 DEF batchOpening
<1>4. /\ Typed /\ Instance /\ Complete(x) /\ DOMAIN x = AllFields \cup {"Qcp", "Pi2"}
      /\ Blinders(bp) /\ ChallengesOK(chal, pc)
  BY <1>1, CompleteIs DEF IInv, Typed, Stages
<1>5. Instance' /\ Commits' = Commits /\ Zh' = Zh
  BY <1>1, <1>4, SameInstance
<1>6. s.n \in Nat /\ Tau \in F
  BY <1>4, InstanceIs, TauIs
<1>7. /\ L \in Vec(s.n + 2) /\ Commit(L) = BlindCommit(x.L, bp.L, Tau)
      /\ R \in Vec(s.n + 2) /\ Commit(R) = BlindCommit(x.R, bp.R, Tau)
      /\ O \in Vec(s.n + 2) /\ Commit(O) = BlindCommit(x.O, bp.O, Tau)
  <2>1. /\ x.L \in Vec(s.n) /\ x.R \in Vec(s.n) /\ x.O \in Vec(s.n)
        /\ bp.L \in Vec(2) /\ bp.R \in Vec(2) /\ bp.O \in Vec(2)
    BY <1>4 DEF Complete, Blinders, AllFields
  <2>2. ASSUME NEW p \in Vec(s.n), NEW b \in Vec(2), NEW g, g = getBlindedCoefficients(p, b)
        PROVE  g \in Vec(s.n + 2) /\ Commit(g) = BlindCommit(p, b, Tau)
    <3>1. /\ g \in Vec(s.n + 2)
          /\ Eval(g, Tau) = Eval(p, Tau) (+) (Eval(b, Tau) (.) (Power(Tau, s.n) (-) 1))
      BY <1>6, <2>2, EvalBlinded
    <3> QED BY <3>1 DEF Commit, BlindCommit, Zh
  <2> QED BY <1>2, <2>1, <2>2
<1>8. Complete(x') /\ DOMAIN x' = AllFields \cup {"Qcp", "Pi2"}
      /\ x'.S1 = x.S1 /\ x'.S2 = x.S2 /\ x'.Pi2 = x.Pi2
  <2>1. PICK x1 : x1 = Overwritten(x, "L", L)
    OBVIOUS
  <2>2. Complete(x1) /\ DOMAIN x1 = AllFields \cup {"Qcp", "Pi2"} /\ Keeps(x1, x, "L")
    BY <1>4, <1>7, <2>1, OverwrittenIs
  <2>3. PICK x2 : x2 = Overwritten(x1, "R", R)
    OBVIOUS
  <2>4. Complete(x2) /\ DOMAIN x2 = AllFields \cup {"Qcp", "Pi2"} /\ Keeps(x2, x1, "R")
    BY <1>4, <1>7, <2>2, <2>3, OverwrittenIs
  <2>5. x' = Overwritten(x2, "O", O)
    BY <1>3, <2>1, <2>3
  <2>6. Complete(x') /\ DOMAIN x' = AllFields \cup {"Qcp", "Pi2"} /\ Keeps(x', x2, "O")
    BY <1>4, <1>7, <2>4, <2>5, OverwrittenIs
  <2> QED BY <2>2, <2>4, <2>6 DEF Keeps, AllFields, Selectors
<1>9. Typed'
  <2>1. FieldsOK(x', "done", s.n, Commits)
    BY <1>8, FieldsFrom, <1>1, <1>5 DEF FieldsOK, FieldsAt, Stages, Late, AllFields, Selectors,
       Complete, Vectors
  <2>2. ChallengesOK(chal, "done")
    BY <1>1, <1>4 DEF ChallengesOK, Late
  <2> QED BY <1>1, <1>4, <1>5, <2>1, <2>2 DEF Typed, Stages, Late, Opening, Blinders
<1>10. Matches'
  <2>1. Inv(Scale)' = 1 /\ 1 (.) Tau = Tau
    BY <1>1, <1>6, Neutral, InvOne DEF Scale
  <2>2. /\ Rescale(x.S1, 1) = s.trace.S1 /\ Rescale(x.S2, 1) = s.trace.S2
        /\ x.S1 = s.trace.S1 /\ x.S2 = s.trace.S2
        /\ \A m \in Commits : proof.bsb[m] = Eval(x.Pi2[m], Tau)
        /\ proof.LRO[1] = BlindCommit(x.L, bp.L, Tau)
        /\ proof.LRO[2] = BlindCommit(x.R, bp.R, Tau)
        /\ proof.LRO[3] = BlindCommit(x.O, bp.O, Tau)
    BY <1>1, <1>4, Unscaled DEF IInv, Matches
  <2>3. /\ proof'.LRO[1] = Commit(opened'[2]) /\ proof'.LRO[2] = Commit(opened'[3])
        /\ proof'.LRO[3] = Commit(opened'[4]) /\ opened'[5] = s'.trace.S1
        /\ opened'[6] = s'.trace.S2
    BY <1>1, <1>3, <1>7, <2>2
  <2> QED BY <1>1, <1>5, <1>8, <2>1, <2>2, <2>3 DEF Matches, BlindCommit, Commit
<1>11. Product'
  BY <1>1 DEF Product
<1> QED BY <1>9, <1>10, <1>11 DEF IInv

LEMMA NextIInv == IInv /\ [Next]_vars => IInv'
<1> SUFFICES ASSUME IInv, [Next]_vars PROVE IInv'
  OBVIOUS
<1>1. CASE Solve
  BY <1>1, SolveStep
<1>2. CASE BuildRatio
  BY <1>2, BuildRatioStep
<1>3. CASE StartQuotient
  BY <1>3, StartQuotientStep
<1>4. CASE Coset
  BY <1>4, CosetStep
<1>5. CASE FinishQuotient
  BY <1>5, FinishQuotientStep
<1>6. CASE openZ
  BY <1>6, OpenZStep
<1>7. CASE computeLinearizedPolynomial
  BY <1>7, LinearizeStep
<1>8. CASE batchOpening
  BY <1>8, BatchOpeningStep
<1>9. CASE UNCHANGED vars
  BY <1>9, StutterStep
<1> QED BY <1>1, <1>2, <1>3, <1>4, <1>5, <1>6, <1>7, <1>8, <1>9 DEF Next

-------------------------------------------------------------------------------
(***************************************************************************)
(* What follows.                                                           *)
(***************************************************************************)
LEMMA TypedImplies == IInv => TypeOK
<1> SUFFICES ASSUME IInv PROVE TypeOK
  OBVIOUS
<1>1. Typed
  BY DEF IInv
<1>2. \A f \in DOMAIN x \ {"Qcp", "Pi2"} : x[f] \in [Upto(s.n) -> F]
  BY <1>1 DEF Typed, FieldsOK, Vec
<1>3. \A f \in DOMAIN bp : bp[f] \in [Upto(IF f = "Z" THEN 3 ELSE 2) -> F]
  BY <1>1 DEF Typed, Blinders, Vec
<1>4. coset \in F
  <2>1. i \in Nat /\ i <= s.rho
    BY <1>1, InstanceIs DEF Typed
  <2> QED BY <1>1, <2>1, CosetNonzero DEF Typed
<1> QED BY <1>1, <1>2, <1>3, <1>4 DEF TypeOK, Typed, Stages, Late, Vec

LEMMA MatchesImplies == IInv => DigestsMatch
<1> SUFFICES ASSUME IInv PROVE DigestsMatch
  OBVIOUS
<1>1. ASSUME pc = "done"
      PROVE  \A m \in DOMAIN x.Pi2 : proof.bsb[m] = Commit(x.Pi2[m])
  <2>1. DOMAIN x.Pi2 = Commits
    BY <1>1 DEF IInv, Typed, FieldsOK
  <2>2. Inv(Scale) (.) Tau = Tau
    BY <1>1, Unscaled DEF IInv
  <2> QED BY <1>1, <2>1, <2>2 DEF IInv, Matches, Commit
<1>2. ASSUME pc = "done"
      PROVE  /\ \A k \in 1 .. 3 : proof.LRO[k] = Commit(opened[k + 1])
             /\ opened[5] = s.trace.S1 /\ opened[6] = s.trace.S2
  <2>1. /\ proof.LRO[1] = Commit(opened[2]) /\ proof.LRO[2] = Commit(opened[3])
        /\ proof.LRO[3] = Commit(opened[4])
        /\ opened[5] = s.trace.S1 /\ opened[6] = s.trace.S2
    BY <1>2 DEF IInv, Matches
  <2>2. ASSUME NEW k \in 1 .. 3 PROVE proof.LRO[k] = Commit(opened[k + 1])
    <3>1. k \in {1, 2, 3}
      BY ONLY k \in 1 .. 3
    <3>2. CASE k = 1
      BY <2>1, <3>2
    <3>3. CASE k = 2
      BY <2>1, <3>3
    <3>4. CASE k = 3
      BY <2>1, <3>4
    <3> QED BY <3>1, <3>2, <3>3, <3>4
  <2> QED BY <2>1, <2>2
<1>3. pc = "linearise" => proof.Z = Commit(blindedZ)
  BY DEF IInv, Matches
<1> QED BY <1>1, <1>2, <1>3 DEF DigestsMatch

\* The three parts of DeviceAgrees, by the stage they look at.
LEMMA RatioAgrees ==
  ASSUME IInv, pc = "alpha"
  PROVE  LET num == [k \in Upto(s.n - 1) |-> Numerator(k, chal.beta, chal.gamma)]
             den == [k \in Upto(s.n - 1) |-> Denominator(k, chal.beta, chal.gamma)]
         IN  /\ Poly(RatioCopyConstraint(num, den, s.n)) = x.Z
             /\ VecBatchInvert(den) = [k \in DOMAIN den |-> Inv(den[k])]
<1>1. /\ Instance /\ Complete(x) /\ chal.beta \in F /\ chal.gamma \in F
  BY CompleteIs DEF IInv, Typed, Stages, ChallengesOK, Late
<1>2. RatioInputs
  <2>1. s.trace.S1 \in Vec(s.n) /\ s.trace.S2 \in Vec(s.n) /\ s.trace.S3 \in Vec(s.n)
    BY <1>1, InstanceIs, TraceType DEF Selectors
  <2> QED BY <1>1, <2>1 DEF RatioInputs, Complete, AllFields
<1>3. PICK num, den :
         /\ num = [k \in Upto(s.n - 1) |-> Numerator(k, chal.beta, chal.gamma)]
         /\ den = [k \in Upto(s.n - 1) |-> Denominator(k, chal.beta, chal.gamma)]
  OBVIOUS
<1>4. /\ x.Z = Poly(CopyRatio(chal.beta, chal.gamma))
      /\ \A k \in Upto(s.n - 1) : Denominator(k, chal.beta, chal.gamma) # 0
  BY DEF IInv, Product
<1>5. den \in Vec(s.n - 1) /\ RatioCopyConstraint(num, den, s.n) = CopyRatio(chal.beta, chal.gamma)
  BY <1>1, <1>2, <1>3, <1>4, CopyRatioIs
<1>6. s.n - 1 \in Nat /\ den \in [Upto(s.n - 1) -> F \ {0}] /\ DOMAIN den = Upto(s.n - 1)
  <2>1. s.n - 1 \in Nat
    BY <1>1, InstanceIs
  <2> QED BY <1>3, <1>4, <1>5, <2>1 DEF Vec
<1>7. VecBatchInvert(den) = [k \in DOMAIN den |-> Inv(den[k])]
  BY <1>6, VecBatchInvertThm
<1> QED BY <1>3, <1>4, <1>5, <1>7

LEMMA OpeningAgrees ==
  ASSUME IInv, pc = "openZ", NEW f \in {"L", "Z"}
  PROVE  /\ PolyEval(x[f], chal.zeta, EvalChunks) = Eval(x[f], chal.zeta)
         /\ ScaleByPowers(x[f], Root) = Rescale(x[f], Root)
<1>1. Instance /\ Complete(x) /\ chal.zeta \in F
  BY CompleteIs DEF IInv, Typed, Stages, ChallengesOK, Late
<1>2. x[f] \in Vec(s.n) /\ s.n \in Nat \ {0} /\ EvalChunks \in Nat \ {0} /\ Root \in F
  BY <1>1, InstanceIs, ValuesAssumption, RootIs DEF Complete, AllFields
<1> QED BY <1>1, <1>2, PolyEvalThm, ScaleByPowersThm

LEMMA LineariseAgrees ==
  ASSUME IInv, pc = "linearise"
  PROVE  LET a == chal.zeta (.) s.w
             q == KzgDivide(blindedZ, a)
             e == Openings
             sc == Scalars(e.l, e.r, e.o, proof.zu)
             bsb(k) == IF k < s.n THEN Total([m \in DOMAIN x.Pi2 |-> x.Pi2[m][k] (.) e.qcp[m]])
                                  ELSE 0
             hFolded == FoldQuotient(h1(h), h2(h), h3(h), sc.zetaNPlusTwo)
             device  == LinearizedPoly(blindedZ, [x EXCEPT !.Qk = s.trace.Qk], hFolded, sc)
         IN  /\ Eval(q, Tau) (.) (Tau (-) a) = Commit(blindedZ) (-) proof.zu
             /\ ~s.zk => innerComputeLinearizedPoly(sc, e.qcp, blindedZ)
                           = [k \in DOMAIN device |-> device[k] (+) bsb(k)]
<1>1. /\ Instance /\ Complete(x) /\ DOMAIN x = AllFields \cup {"Qcp", "Pi2"} /\ Blinders(bp)
      /\ Challenged /\ h \in Vec(s.big) /\ blindedZ \in Vec(s.n + 3) /\ proof.zu \in F
  BY CompleteIs DEF IInv, Typed, Stages, ChallengesOK, Late, Opening, Challenged
<1>2. PICK a \in F \ {0} : a = chal.zeta (.) s.w
  BY <1>1, InstanceIs, GeneratorIs, NonzeroProduct DEF Challenged
<1>3. proof.zu = Eval(blindedZ, a)
  BY <1>2 DEF IInv, Matches
<1>4. Eval(KzgDivide(blindedZ, a), Tau) (.) (Tau (-) a) = Commit(blindedZ) (-) proof.zu
  <2>1. s.n + 3 \in Nat \ {0} /\ Tau \in F
    BY <1>1, InstanceIs, TauIs
  <2> QED BY <1>1, <1>2, <1>3, <2>1, KzgDivideThm DEF Commit
<1>5. PICK m \in Nat : Commits = Upto(m)
  BY <1>1, CommitsAre
<1>6. PICK e, qz : /\ e = Openings /\ qz = e.qcp /\ qz \in Vec(m)
                   /\ e.l \in F /\ e.r \in F /\ e.o \in F
  BY <1>1, <1>5, OpeningsType DEF Challenged
<1>7. PICK sc : sc = Scalars(e.l, e.r, e.o, proof.zu) /\ Scaled(sc)
  BY <1>1, <1>6, ScalarsType
<1>8. PICK device : device = LinearizedPoly(blindedZ, [x EXCEPT !.Qk = s.trace.Qk],
                               FoldQuotient(h1(h), h2(h), h3(h), sc.zetaNPlusTwo), sc)
  OBVIOUS
<1>9. ~s.zk => innerComputeLinearizedPoly(sc, qz, blindedZ)
                 = [k \in DOMAIN device |-> device[k] (+) (IF k < s.n THEN Bsb(k, qz) ELSE 0)]
  <2> SUFFICES ASSUME ~s.zk
               PROVE  innerComputeLinearizedPoly(sc, qz, blindedZ)
                 = [k \in DOMAIN device |-> device[k] (+) (IF k < s.n THEN Bsb(k, qz) ELSE 0)]
    OBVIOUS
  <2>1. qz \in Vec(m) /\ AllFields \subseteq DOMAIN x
    BY <1>1, <1>6
  <2> QED BY <1>1, <1>5, <1>7, <1>8, <2>1, DeviceLinearizes
<1> QED BY <1>2, <1>4, <1>6, <1>7, <1>8, <1>9 DEF Bsb

LEMMA DeviceImplies == IInv => DeviceAgrees
<1>1. ASSUME IInv, pc = "alpha"
      PROVE  LET num == [k \in Upto(s.n - 1) |-> Numerator(k, chal.beta, chal.gamma)]
                 den == [k \in Upto(s.n - 1) |-> Denominator(k, chal.beta, chal.gamma)]
             IN  /\ Poly(RatioCopyConstraint(num, den, s.n)) = x.Z
                 /\ VecBatchInvert(den) = [k \in DOMAIN den |-> Inv(den[k])]
  BY <1>1, RatioAgrees
<1> QED BY <1>1, OpeningAgrees, LineariseAgrees DEF DeviceAgrees

-------------------------------------------------------------------------------
(***************************************************************************)
(* The theorems.                                                           *)
(***************************************************************************)
LEMMA Invariant == Spec => []IInv
BY InitIInv, NextIInv, PTL DEF Spec

\* Every polynomial, blinding and buffer keeps its length and stays in the field,
\* through the coset loop on either path and the writes over blinded slices.
THEOREM TypeCorrect == Spec => []TypeOK
BY Invariant, TypedImplies, PTL

\* The digests of commitToLRO, commitToPolyAndBlinding and bsb22Hint are those of
\* the polynomials that are opened, for every circuit, blinding and challenge.
THEOREM DigestsThm == Spec => []DigestsMatch
BY Invariant, MatchesImplies, PTL

\* The kernels of frvec.cu compute what the stages of the prover compute, on the
\* vectors of every proof.
THEOREM DeviceThm == Spec => []DeviceAgrees
BY Invariant, DeviceImplies, PTL

\* The first half of QuotientFits: the factor 8 or 4 that newInstance takes gives,
\* for every number of rows from 2, a power of two that is a multiple of the small
\* domain and holds the three shards, so no index of the quotient is out of range.
THEOREM QuotientDomainThm ==
  Spec => [](/\ PowerOfTwo(s.big) /\ s.big = s.n * s.rho
             /\ s.big >= 3 * (s.n + 2) /\ s.offset <= s.n)
<1>1. IInv => /\ PowerOfTwo(s.big) /\ s.big = s.n * s.rho
              /\ s.big >= 3 * (s.n + 2) /\ s.offset <= s.n
  <2>1. ASSUME IInv
        PROVE  /\ PowerOfTwo(s.big) /\ s.big = s.n * s.rho /\ s.n \in Nat /\ s.big \in Nat
               /\ 3 * (s.n + 2) <= s.big /\ s.offset <= s.n
    BY <2>1, InstanceIs DEF IInv, Typed
  <2>2. ASSUME NEW n \in Nat, NEW big \in Nat, 3 * (n + 2) <= big PROVE big >= 3 * (n + 2)
    BY <2>2
  <2> QED BY <2>1, <2>2
<1> QED BY <1>1, Invariant, PTL
===============================================================================
