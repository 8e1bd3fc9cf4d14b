----------------------------- MODULE DeviceKernels ----------------------------
(***************************************************************************)
(* What the shim's polynomial kernels compute, for the threads tid of one  *)
(* launch.  A launch covers tid < n whatever the block size; what crosses  *)
(* a block boundary is the scans, which are cub's.                         *)
(***************************************************************************)
EXTENDS Integers, PrimeField

\* cub::DeviceScan::InclusiveScan with FrMulOp and FrAddOp.
ScanMul(v) == LET sc[k \in DOMAIN v] == IF k = 0 THEN v[0] ELSE sc[k - 1] (.) v[k]
              IN  [k \in DOMAIN v |-> sc[k]]
ScanAdd(v) == LET sc[k \in DOMAIN v] == IF k = 0 THEN v[0] ELSE sc[k - 1] (+) v[k]
              IN  [k \in DOMAIN v |-> sc[k]]

\* reverse_kernel and kzg_revmul_kernel
Reversed(v) == [k \in DOMAIN v |-> v[Size(v) - 1 - k]]

\* gpu_vec_powers: the scan of the seed 1, g, g, ...
Powers(g, n) == ScanMul([k \in Upto(n) |-> IF k = 0 THEN 1 ELSE g])

\* gpu_vec_scale_by_powers
ScaleByPowers(v, g) == LET pow == Powers(g, Size(v)) IN [k \in DOMAIN v |-> v[k] (.) pow[k]]

\* ratio_copy_terms, ratio_prefix_scan on both results, ratio_apply_inverse.
\* The vectors and twiddles are in Lagrange form; the scan starts at the 1 the
\* thread 0 writes, and thread tid < n - 1 writes the entry after its own.
CopyTerms(factors, n) == [k \in Upto(n) |-> IF k = 0 THEN 1 ELSE factors[k - 1]]

RatioCopyConstraint(num, den, n) ==
    LET scannedNum == ScanMul(CopyTerms(num, n))
        scannedDen == ScanMul(CopyTerms(den, n))
    IN  [k \in Upto(n) |-> scannedNum[k] (.) Inv(scannedDen[k])]

\* gpu_vec_batch_invert
BatchInvertCombine(pre, revscan, invAll, n, k) ==
    (IF k = 0 THEN 1 ELSE pre[k - 1]) (.) (IF k = n - 1 THEN 1 ELSE revscan[n - 2 - k]) (.) invAll

VecBatchInvert(v) ==
    LET n       == Size(v)
        pre     == ScanMul(v)
        revscan == ScanMul(Reversed(v))
    IN  [k \in DOMAIN v |-> BatchInvertCombine(pre, revscan, Inv(pre[n - 1]), n, k)]

\* gpu_kzg_divide: (f(X) - f(a)) / (X - a), from the suffix sums of f[k] a^k.
\* For the mutation test: the suffix sum of the wrong entry.
KzgQuotientUnshifted(sums, invpow, k) == sums[k] (.) invpow[k + 1]

KzgQuotient(sums, invpow, k) == sums[k + 1] (.) invpow[k + 1]

KzgDivide(f, a) ==
    LET n      == Size(f)
        pow    == Powers(a, n)
        invpow == Powers(Inv(a), n)
        sums   == Reversed(ScanAdd(Reversed([k \in DOMAIN f |-> f[k] (.) pow[k]])))
    IN  [k \in Upto(n - 1) |-> KzgQuotient(sums, invpow, k)]

\* gpu_poly_eval: Horner within each chunk, then over the chunks.
PolyEval(p, z, chunks) ==
    LET n            == Size(p)
        chunk_size   == (n + chunks - 1) \div chunks
        used         == (n + chunk_size - 1) \div chunk_size
        low(a, b)    == IF a < b THEN a ELSE b
        partial(tid) == LET lo == tid * chunk_size
                            hi == low(lo + chunk_size, n)
                        IN  IF lo < hi THEN Eval(Slice(p, lo, hi), z) ELSE 0
    IN  Eval([tid \in Upto(used) |-> partial(tid)], Power(z, chunk_size))

\* plonk_fold_quotient_kernel
FoldQuotient(h1, h2, h3, zetaNPlusTwo) ==
    [k \in DOMAIN h3 |-> (h3[k] (.) zetaNPlusTwo (+) h2[k]) (.) zetaNPlusTwo (+) h1[k]]

\* plonk_linearized_poly_kernel.  It has no term for the BSB22 commitments.
LinearizedPoly(bz, t, hFolded, sc) ==
    LET n == Size(t.S3)
        at(p, k) == IF k < Size(p) THEN p[k] ELSE 0
    IN  [k \in DOMAIN bz |->
            bz[k] (.) (sc.s2 (+) sc.alpha2Lag) (+) at(t.S3, k) (.) sc.s1 (+) at(t.Qm, k) (.) sc.rl
              (+) at(t.Ql, k) (.) sc.l (+) at(t.Qr, k) (.) sc.r (+) at(t.Qo, k) (.) sc.o
              (+) at(t.Qk, k) (-) at(hFolded, k) (.) sc.zhZeta]
===============================================================================
