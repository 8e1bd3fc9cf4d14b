------------------------------ MODULE PrimeField ------------------------------
(***************************************************************************)
(* Arithmetic in a small prime field, in the place of the 255-bit scalar   *)
(* field of fr.Element, and polynomials over it.  A polynomial, or a       *)
(* vector, of length n is a function on 0 .. n-1, indexed as the code      *)
(* indexes its slices.                                                     *)
(***************************************************************************)
EXTENDS Naturals, FiniteSets

CONSTANTS Prime,  \* the characteristic
          Root    \* a generator of the multiplicative group, FrMultiplicativeGen

ASSUME PrimeAssumption ==
    /\ Prime \in Nat /\ Prime >= 2
    /\ \A d \in 2 .. Prime - 1 : Prime % d # 0

F == 0 .. Prime - 1

a (+) b == (a + b) % Prime
a (-) b == (a + Prime - b) % Prime
a (.) b == (a * b) % Prime

\* fr.Element.Inverse and fr::inv, which map 0 to 0.
InvTable == [a \in F |-> IF a = 0 THEN 0 ELSE CHOOSE b \in F : a (.) b = 1]
Inv(a)   == InvTable[a]

Power(a, e) ==
    LET pow[k \in 0 .. e] ==
            IF k = 0 THEN 1
            ELSE IF k % 2 = 1 THEN a (.) pow[k - 1]
            ELSE LET half == pow[k \div 2] IN half (.) half
    IN  pow[e]

ASSUME RootAssumption ==
    /\ Root \in F \ {0} /\ Power(Root, Prime - 1) = 1
    /\ \A e \in 1 .. Prime - 2 : Power(Root, e) # 1

Upto(n) == 0 .. n - 1
Size(p)  == Cardinality(DOMAIN p)

\* The value of the polynomial p at the point z (Horner).
Eval(p, z) ==
    LET n == Size(p)
        from[k \in 0 .. n] == IF k = n THEN 0 ELSE p[k] (+) (z (.) from[k + 1])
    IN  from[0]

\* The sum of the entries of a vector, which is the value at 1.
Total(v) == Eval(v, 1)

Slice(p, lo, hi) == [k \in Upto(hi - lo) |-> p[lo + k]]
Concat(p, q)     == [k \in Upto(Size(p) + Size(q)) |->
                        IF k < Size(p) THEN p[k] ELSE q[k - Size(p)]]

\* p(c * X).
Rescale(p, c) == [k \in DOMAIN p |-> p[k] (.) Power(c, k)]

\* q has no odd divisor but 1.
PowerOfTwo(q) == \A d \in 2 .. q : q % d = 0 => d % 2 = 0

\* The generator of the subgroup of order n, fft.Domain.Generator.
Generator(n) == Power(Root, (Prime - 1) \div n)

\* From the values v[i] at g * w^i, w the generator of order Size(v), to the
\* coefficients.
Interpolate(v, g) ==
    LET n == Size(v)
        w == Inv(Generator(n))
    IN  Rescale([k \in Upto(n) |-> Inv(n) (.) Eval(v, Power(w, k))], Inv(g))

\* bits.Reverse64(k) >> (64 - log2(n)), for n a power of two.
BitReverse(k, n) ==
    LET rev[m \in 0 .. n] ==
            [j \in 0 .. n |-> IF m <= 1 THEN 0
                             ELSE (j % 2) * (m \div 2) + rev[m \div 2][j \div 2]]
    IN  rev[n][k]
===============================================================================
