-------------------------- MODULE DeviceKernelsProofs --------------------------
(***************************************************************************)
(* What the shim's polynomial kernels compute, for every prime field,      *)
(* every length and every input: the scans, the powers, the batched        *)
(* inversion, the copy-constraint ratio, the chunked evaluation and the    *)
(* opening quotient.                                                       *)
(*                                                                         *)
(* The first part is the arithmetic of the field: every element is the     *)
(* remainder of an integer (Mod), the operations are those of the integers *)
(* on remainders (ModOps), and a nonzero element has an inverse because    *)
(* the characteristic is prime (Combination).  The second is induction:    *)
(* a nonempty set of naturals has a least element (Least), which gives     *)
(* induction over a set (Induction) and tables by recursion (Recursion).   *)
(* The third has the tables: powers, running products and sums, Horner's   *)
(* values.                                                                 *)
(***************************************************************************)
EXTENDS DeviceKernels, WellFoundedInduction, FiniteSetTheorems, TLAPS

-------------------------------------------------------------------------------
(* The integers modulo Prime.                                              *)

LEMMA ModRange ==
  ASSUME NEW P \in Nat, P # 0, NEW x \in Int
  PROVE  x % P \in 0 .. P - 1 /\ x \div P \in Int /\ x = P * (x \div P) + (x % P)
OBVIOUS

\* Remainders that differ by a multiple of P are equal.
LEMMA ModSmall ==
  ASSUME NEW P \in Nat, P # 0, NEW d \in Int, NEW a \in 0 .. P - 1, NEW b \in 0 .. P - 1,
         P * d + a = b
  PROVE  d = 0
<1>1. CASE d >= 1
  <2>1. P * d >= P
    BY <1>1
  <2> QED BY <2>1
<1>2. CASE d <= -1
  <2>1. P * d <= -P
    BY <1>2
  <2> QED BY <2>1
<1> QED BY <1>1, <1>2

LEMMA ModIs ==
  ASSUME NEW P \in Nat, P # 0, NEW x \in Int, NEW q \in Int, NEW r \in 0 .. P - 1,
         x = P * q + r
  PROVE  x % P = r
<1>1. PICK k \in Int, m \in 0 .. P - 1 : x = P * k + m /\ m = x % P
  BY ModRange
<1>2. PICK d \in Int : d = q - k
  OBVIOUS
<1>3. P * d = P * q - P * k
  BY <1>2
<1>4. P * q + r = P * k + m
  BY <1>1
<1>5. P * q \in Int /\ P * k \in Int /\ P * d \in Int
  OBVIOUS
<1>6. P * d + r = m
  BY ONLY <1>3, <1>4, <1>5, r \in 0 .. P - 1, m \in 0 .. P - 1, P \in Nat
<1>7. d = 0
  BY <1>6, ModSmall
<1>8. r = m
  BY ONLY <1>6, <1>7, P \in Nat, r \in Int
<1> QED BY <1>1, <1>8, Zenon

\* The remainder of x.
Mod(x) == x % Prime

LEMMA ModType == \A x \in Int : Mod(x) \in F /\ Mod(x) \in Int
BY PrimeAssumption, ModRange DEF Mod, F

LEMMA ModOfElement == \A a \in F : Mod(a) = a /\ a \in Int /\ a \in Nat
<1> SUFFICES ASSUME NEW a \in F PROVE Mod(a) = a /\ a \in Int
  BY PrimeAssumption DEF F
<1>1. a \in 0 .. Prime - 1 /\ a \in Int /\ Prime \in Nat /\ Prime # 0 /\ a = Prime * 0 + a
  BY PrimeAssumption DEF F
<1> QED BY <1>1, ModIs DEF Mod

LEMMA ModCong ==
  ASSUME NEW x \in Int, NEW y \in Int, NEW q \in Int, x = y + Prime * q
  PROVE  Mod(x) = Mod(y)
<1>1. Prime \in Nat /\ Prime # 0
  BY PrimeAssumption
<1>2. PICK k \in Int, m \in 0 .. Prime - 1 : y = Prime * k + m /\ m = y % Prime
  BY <1>1, ModRange
<1>3. x = Prime * (k + q) + m /\ k + q \in Int
  BY <1>1, <1>2
<1>4. x % Prime = m
  BY ONLY <1>1, <1>2, <1>3, ModIs, x \in Int
<1> QED BY <1>2, <1>4 DEF Mod

LEMMA ModSplit == \A x \in Int : \E q \in Int : x = Mod(x) + Prime * q
<1> TAKE x \in Int
<1>1. Prime \in Nat /\ Prime # 0
  BY PrimeAssumption
<1>2. /\ x % Prime \in 0 .. Prime - 1 /\ x \div Prime \in Int
      /\ x = Prime * (x \div Prime) + (x % Prime)
  BY <1>1, ModRange
<1>3. x = (x % Prime) + Prime * (x \div Prime)
  BY <1>1, <1>2
<1> QED BY <1>2, <1>3 DEF Mod

\* The operations, on remainders.
LEMMA ModOps ==
  \A x, y \in Int : /\ Mod(x) (+) Mod(y) = Mod(x + y)
                    /\ Mod(x) (-) Mod(y) = Mod(x - y)
                    /\ Mod(x) (.) Mod(y) = Mod(x * y)
<1> TAKE x, y \in Int
<1>0. Prime \in Nat /\ Prime # 0 /\ Mod(x) \in Int /\ Mod(y) \in Int
  BY PrimeAssumption, ModType
<1>1. PICK q \in Int : x = Mod(x) + Prime * q
  BY ModSplit
<1>2. PICK r \in Int : y = Mod(y) + Prime * r
  BY ModSplit
<1> DEFINE a == Mod(x)
           b == Mod(y)
<1>3. a \in Int /\ b \in Int /\ x = a + Prime * q /\ y = b + Prime * r
  BY <1>0, <1>1, <1>2
<1>4. a (+) b = Mod(a + b) /\ a (-) b = Mod(a + Prime - b) /\ a (.) b = Mod(a * b)
  BY DEF Mod, (+), (-), (.)
<1> HIDE DEF a, b
<1>5. Mod(a + b) = Mod(x + y)
  <2>1. x + y = (a + b) + Prime * (q + r)
    BY <1>0, <1>3
  <2>2. q + r \in Int /\ a + b \in Int /\ x + y \in Int
    BY <1>3
  <2> QED BY ONLY <2>1, <2>2, ModCong
<1>6. Mod(a + Prime - b) = Mod(x - y)
  <2>1. x - y = (a + Prime - b) + Prime * (q - r - 1)
    BY <1>0, <1>3
  <2>2. q - r - 1 \in Int /\ a + Prime - b \in Int /\ x - y \in Int
    BY <1>0, <1>3
  <2> QED BY ONLY <2>1, <2>2, ModCong
<1>7. Mod(a * b) = Mod(x * y)
  <2>1. x * y = (a * b) + Prime * (a * r + q * b + Prime * (q * r))
    <3>1. x * y = (a + Prime * q) * (b + Prime * r)
      BY <1>3
    <3> QED BY <1>0, <1>3, <3>1
  <2>2. a * r + q * b + Prime * (q * r) \in Int /\ a * b \in Int /\ x * y \in Int
    BY <1>0, <1>3
  <2> QED BY ONLY <2>1, <2>2, ModCong
<1> QED BY <1>4, <1>5, <1>6, <1>7 DEF a, b

LEMMA ElementOps ==
  \A a, b \in F : /\ a (+) b = Mod(a + b) /\ a (-) b = Mod(a - b) /\ a (.) b = Mod(a * b)
                  /\ a \in Int /\ b \in Int /\ a + b \in Int /\ a - b \in Int /\ a * b \in Int
<1> TAKE a, b \in F
<1>1. a = Mod(a) /\ b = Mod(b) /\ a \in Int /\ b \in Int
  BY ModOfElement
<1>2. Mod(a) (+) Mod(b) = Mod(a + b) /\ Mod(a) (-) Mod(b) = Mod(a - b)
      /\ Mod(a) (.) Mod(b) = Mod(a * b)
  BY <1>1, ModOps
<1>3. a + b \in Int /\ a - b \in Int /\ a * b \in Int
  BY <1>1
<1> QED BY <1>1, <1>2, <1>3, Zenon

LEMMA Closed == \A a, b \in F : a (+) b \in F /\ a (-) b \in F /\ a (.) b \in F
BY ElementOps, ModType

LEMMA ZeroOne == 0 \in F /\ 1 \in F /\ 0 # 1
BY PrimeAssumption DEF F

LEMMA Commutes == \A a, b \in F : a (+) b = b (+) a /\ a (.) b = b (.) a
<1> TAKE a, b \in F
<1>1. a + b = b + a /\ a * b = b * a
  BY ElementOps
<1> QED BY <1>1, ElementOps

LEMMA Neutral ==
  \A a \in F : /\ a (+) 0 = a /\ 0 (+) a = a /\ a (.) 1 = a /\ 1 (.) a = a
               /\ a (.) 0 = 0 /\ 0 (.) a = 0 /\ a (-) a = 0 /\ a (-) 0 = a
<1> TAKE a \in F
<1>1. a + 0 = a /\ a * 1 = a /\ a * 0 = 0 /\ a - a = 0 /\ a - 0 = a
  BY ElementOps
<1>2. Mod(a) = a /\ Mod(0) = 0
  BY ZeroOne, ModOfElement
<1> QED BY <1>1, <1>2, ZeroOne, ElementOps, Commutes

LEMMA Associates ==
  \A a, b, c \in F : /\ (a (+) b) (+) c = a (+) (b (+) c)
                     /\ (a (.) b) (.) c = a (.) (b (.) c)
<1> TAKE a, b, c \in F
<1>1. a \in Int /\ b \in Int /\ c \in Int /\ Mod(a) = a /\ Mod(b) = b /\ Mod(c) = c
  BY ModOfElement
<1>2. (a (+) b) (+) c = Mod((a + b) + c) /\ a (+) (b (+) c) = Mod(a + (b + c))
  <2>1. a + b \in Int /\ b + c \in Int
    BY <1>1
  <2>2. a (+) b = Mod(a + b) /\ b (+) c = Mod(b + c)
    BY ElementOps
  <2>3. Mod(a + b) (+) Mod(c) = Mod((a + b) + c) /\ Mod(a) (+) Mod(b + c) = Mod(a + (b + c))
    BY <1>1, <2>1, ModOps
  <2> QED BY <1>1, <2>2, <2>3
<1>3. (a (.) b) (.) c = Mod((a * b) * c) /\ a (.) (b (.) c) = Mod(a * (b * c))
  <2>1. a * b \in Int /\ b * c \in Int
    BY <1>1
  <2>2. a (.) b = Mod(a * b) /\ b (.) c = Mod(b * c)
    BY ElementOps
  <2>3. Mod(a * b) (.) Mod(c) = Mod((a * b) * c) /\ Mod(a) (.) Mod(b * c) = Mod(a * (b * c))
    BY <1>1, <2>1, ModOps
  <2> QED BY <1>1, <2>2, <2>3
<1>4. (a + b) + c = a + (b + c) /\ (a * b) * c = a * (b * c)
  BY <1>1
<1> QED BY <1>2, <1>3, <1>4

LEMMA Distributes ==
  \A a, b, c \in F : /\ a (.) (b (+) c) = (a (.) b) (+) (a (.) c)
                     /\ (b (+) c) (.) a = (b (.) a) (+) (c (.) a)
                     /\ a (.) (b (-) c) = (a (.) b) (-) (a (.) c)
                     /\ (b (-) c) (.) a = (b (.) a) (-) (c (.) a)
<1> TAKE a, b, c \in F
<1>1. a \in Int /\ b \in Int /\ c \in Int /\ Mod(a) = a /\ Mod(b) = b /\ Mod(c) = c
  BY ModOfElement
<1>2. /\ a * b \in Int /\ a * c \in Int /\ b + c \in Int /\ b - c \in Int
      /\ a * (b + c) = a * b + a * c /\ a * (b - c) = a * b - a * c
  BY <1>1
<1>3. /\ a (.) (b (+) c) = Mod(a * (b + c)) /\ a (.) (b (-) c) = Mod(a * (b - c))
      /\ (a (.) b) (+) (a (.) c) = Mod(a * b + a * c)
      /\ (a (.) b) (-) (a (.) c) = Mod(a * b - a * c)
  <2>1. /\ b (+) c = Mod(b + c) /\ b (-) c = Mod(b - c)
        /\ a (.) b = Mod(a * b) /\ a (.) c = Mod(a * c)
    BY ElementOps
  <2>2. Mod(a) (.) Mod(b + c) = Mod(a * (b + c)) /\ Mod(a) (.) Mod(b - c) = Mod(a * (b - c))
    BY <1>1, <1>2, ModOps
  <2>3. /\ Mod(a * b) (+) Mod(a * c) = Mod(a * b + a * c)
        /\ Mod(a * b) (-) Mod(a * c) = Mod(a * b - a * c)
    BY <1>2, ModOps
  <2> QED BY <1>1, <2>1, <2>2, <2>3
<1> QED BY <1>2, <1>3, Closed, Commutes

\* Subtraction takes back what was added.
LEMMA Subtracts ==
  \A a, b \in F : /\ (a (+) b) (-) b = a /\ (a (+) b) (-) a = b /\ (a (-) b) (+) b = a
                  /\ \A c \in F : a (+) b = c <=> a = c (-) b
<1>1. ASSUME NEW a \in F, NEW b \in F PROVE (a (+) b) (-) b = a /\ (a (-) b) (+) b = a
  <2>1. a \in Int /\ b \in Int /\ Mod(a) = a /\ Mod(b) = b /\ a + b \in Int /\ a - b \in Int
    BY ModOfElement
  <2>2. (a + b) - b = a /\ (a - b) + b = a
    BY <2>1
  <2>3. (a (+) b) (-) b = Mod((a + b) - b) /\ (a (-) b) (+) b = Mod((a - b) + b)
    <3>1. a (+) b = Mod(a + b) /\ a (-) b = Mod(a - b)
      BY ElementOps
    <3>2. Mod(a + b) (-) Mod(b) = Mod((a + b) - b) /\ Mod(a - b) (+) Mod(b) = Mod((a - b) + b)
      BY <2>1, ModOps
    <3> QED BY <2>1, <3>1, <3>2
  <2> QED BY <2>1, <2>2, <2>3
<1> QED BY <1>1, Commutes

-------------------------------------------------------------------------------
(* Induction, from the well-foundedness of the natural numbers.            *)

\* Every nonempty set of naturals has a least element.
LEMMA Least ==
  ASSUME NEW T \in SUBSET Nat, T # {}
  PROVE  \E m \in T : \A y \in T : m <= y
<1> DEFINE R == OpToRel(<, Nat)
<1>1. IsWellFoundedOn(R, Nat)
  BY NatLessThanWellFounded, Zenon
<1>2. \A a, b \in Nat : <<a, b>> \in R <=> a < b
  BY DEF OpToRel
<1> HIDE DEF R
<1>3. PICK m \in T : \A y \in T : ~ (<<y, m>> \in R)
  BY <1>1, WFMin
<1>4. \A y \in T : y \in Nat /\ m \in Nat
  OBVIOUS
<1>5. \A y \in T : ~(y < m)
  BY <1>2, <1>3, <1>4
<1> QED BY <1>4, <1>5

LEMMA Induction ==
  ASSUME NEW P, 0 \in P, \A n \in Nat : n \in P => n + 1 \in P
  PROVE  Nat \subseteq P
<1> SUFFICES ASSUME Nat \ P # {} PROVE FALSE
  OBVIOUS
<1>1. PICK m \in Nat \ P : \A y \in Nat \ P : m <= y
  <2> DEFINE T == Nat \ P
  <2>1. T \in SUBSET Nat /\ T # {}
    OBVIOUS
  <2> HIDE DEF T
  <2>2. \E m \in T : \A y \in T : m <= y
    BY <2>1, Least
  <2> QED BY <2>2 DEF T
<1>2. m # 0 /\ m - 1 \in Nat /\ m - 1 \in P
  BY <1>1
<1>3. m - 1 + 1 = m
  BY <1>1
<1> QED BY <1>1, <1>2, <1>3

\* A table in S that starts with f0 and goes on by G exists.
IsStep(S, f0, G)     == f0 \in S /\ G \in [Nat \X S -> S]
Follows(f, S, f0, G) ==
  f \in [Nat -> S] /\ f[0] = f0 /\ \A n \in Nat : f[n + 1] = G[<<n, f[n]>>]

LEMMA Recursion ==
  ASSUME NEW S, NEW f0, NEW G, IsStep(S, f0, G)
  PROVE  \E f : Follows(f, S, f0, G)
<1> USE DEF IsStep
<1> DEFINE Upon(n, f) == /\ f \in [0 .. n -> S] /\ f[0] = f0
                         /\ \A k \in 0 .. n - 1 : f[k + 1] = G[<<k, f[k]>>]
           Good == {n \in Nat : \E f : Upon(n, f)}
<1>1. 0 \in Good
  <2> DEFINE f == [k \in {0} |-> f0]
  <2>1. 0 .. 0 = {0} /\ 0 .. 0 - 1 = {}
    OBVIOUS
  <2>2. f \in [0 .. 0 -> S] /\ f[0] = f0
    BY <2>1
  <2> HIDE DEF f
  <2>3. Upon(0, f)
    BY <2>1, <2>2
  <2> QED BY <2>3
<1>2. ASSUME NEW n \in Nat, n \in Good PROVE n + 1 \in Good
  <2>1. PICK f : Upon(n, f)
    BY <1>2
  <2> DEFINE g == [k \in 0 .. n + 1 |-> IF k = n + 1 THEN G[<<n, f[n]>>] ELSE f[k]]
  <2>2. n \in 0 .. n /\ f[n] \in S /\ G[<<n, f[n]>>] \in S
    BY <2>1
  <2>3. \A k \in 0 .. n + 1 : k = n + 1 \/ k \in 0 .. n
    OBVIOUS
  <2>4. g \in [0 .. n + 1 -> S]
    BY <2>1, <2>2, <2>3
  <2>5. \A k \in 0 .. n : k # n + 1 /\ k \in 0 .. n + 1
    OBVIOUS
  <2>6. 0 \in 0 .. n /\ n + 1 \in 0 .. n + 1
    OBVIOUS
  <2>7. (\A k \in 0 .. n : g[k] = f[k]) /\ g[n + 1] = G[<<n, f[n]>>]
    BY <2>5, <2>6
  <2> HIDE DEF g
  <2>8. ASSUME NEW k \in 0 .. n PROVE g[k + 1] = G[<<k, g[k]>>]
    <3>1. CASE k = n
      BY <2>2, <2>7, <3>1
    <3>2. CASE k # n
      <4>1. k \in 0 .. n - 1 /\ k + 1 \in 0 .. n
        BY <3>2
      <4> QED BY <2>1, <2>7, <4>1
    <3> QED BY <3>1, <3>2
  <2>9. Upon(n + 1, g)
    <3>1. n + 1 - 1 = n
      OBVIOUS
    <3> QED BY <2>1, <2>4, <2>6, <2>7, <2>8, <3>1
  <2> QED BY <2>9
<1>3. Nat \subseteq Good
  <2> HIDE DEF Good
  <2> QED BY <1>1, <1>2, Induction
<1> DEFINE At(n) == CHOOSE f : Upon(n, f)
<1>4. \A n \in Nat : Upon(n, At(n))
  BY <1>3
<1>5. ASSUME NEW m \in Nat, NEW f, NEW n \in Nat, NEW g, Upon(m, f), Upon(n, g)
      PROVE  \A k \in Nat : k <= m /\ k <= n => f[k] = g[k]
  <2> DEFINE Same == {k \in Nat : k <= m /\ k <= n => f[k] = g[k]}
  <2>1. 0 \in Same
    BY <1>5
  <2>2. ASSUME NEW k \in Nat, k \in Same PROVE k + 1 \in Same
    <3> SUFFICES ASSUME k + 1 <= m, k + 1 <= n PROVE f[k + 1] = g[k + 1]
      OBVIOUS
    <3>1. k \in 0 .. m - 1 /\ k \in 0 .. n - 1 /\ k <= m /\ k <= n
      OBVIOUS
    <3>2. f[k] = g[k]
      BY <2>2, <3>1
    <3> QED BY <1>5, <3>1, <3>2
  <2>3. Nat \subseteq Same
    <3> HIDE DEF Same
    <3> QED BY <2>1, <2>2, Induction
  <2> QED BY <2>3
<1> HIDE DEF At
<1> DEFINE f == [n \in Nat |-> At(n)[n]]
<1>6. \A n \in Nat : n \in 0 .. n /\ n + 1 \in Nat /\ n \in 0 .. (n + 1) - 1 /\ n <= n + 1
                     /\ n <= n /\ n + 1 \in 0 .. n + 1
  OBVIOUS
<1>7. f \in [Nat -> S]
  BY <1>4, <1>6
<1>8. f[0] = f0
  BY <1>4
<1>9. ASSUME NEW n \in Nat PROVE f[n + 1] = G[<<n, f[n]>>]
  <2>1. At(n)[n] = At(n + 1)[n]
    <3>1. Upon(n, At(n)) /\ Upon(n + 1, At(n + 1)) /\ n + 1 \in Nat /\ n <= n /\ n <= n + 1
      BY <1>4, <1>6
    <3> HIDE DEF Upon
    <3> QED BY <1>5, <3>1
  <2>2. Upon(n + 1, At(n + 1))
    BY <1>4, <1>6
  <2>3. At(n + 1)[n + 1] = G[<<n, At(n + 1)[n]>>]
    BY <1>6, <2>2
  <2> QED BY <1>6, <2>1, <2>3
<1> QED BY <1>7, <1>8, <1>9 DEF Follows

-------------------------------------------------------------------------------
(* Inverses.  The least positive combination of a and Prime divides Prime. *)

LEMMA Combination ==
  ASSUME NEW a \in F \ {0}
  PROVE  \E b, q \in Int : 1 = a * b + Prime * q
<1>0. a \in Nat \ {0} /\ a < Prime /\ Prime \in Nat \ {0} /\ Prime >= 2
  BY PrimeAssumption DEF F
<1> DEFINE T == {n \in Nat \ {0} : \E b, q \in Int : n = a * b + Prime * q}
<1>1. a \in T
  <2>1. a = a * 1 + Prime * 0
    BY <1>0
  <2> QED BY <1>0, <2>1
<1>2. PICK m \in T : \A y \in T : m <= y
  <2>1. T \in SUBSET Nat /\ T # {}
    BY <1>1
  <2> HIDE DEF T
  <2> QED BY <2>1, Least
<1>3. m \in Nat \ {0} /\ m <= a
  BY <1>1, <1>2
<1>4. PICK b \in Int, q \in Int : m = a * b + Prime * q
  BY <1>2
<1>5. PICK k \in Int, r \in 0 .. m - 1 : Prime = m * k + r /\ r = Prime % m
  <2>1. m \in Nat /\ m # 0 /\ Prime \in Int
    BY <1>0, <1>3
  <2> QED BY <2>1, ModRange
<1>6. r = a * (-(b * k)) + Prime * (1 - q * k)
  <2>1. Prime = (a * b + Prime * q) * k + r
    BY <1>4, <1>5
  <2> QED BY <1>0, <1>3, <2>1
<1>7. r = 0
  <2> SUFFICES ASSUME r # 0 PROVE FALSE
    OBVIOUS
  <2>1. -(b * k) \in Int /\ 1 - q * k \in Int /\ r \in Nat \ {0}
    BY <1>3
  <2>2. r \in T
    BY <1>6, <2>1
  <2> HIDE DEF T
  <2> QED BY <1>2, <1>3, <2>2
<1>8. m = 1
  <2>1. m \notin 2 .. Prime - 1
    BY <1>5, <1>7, PrimeAssumption
  <2> QED BY <1>0, <1>3, <2>1
<1> QED BY <1>4, <1>8

LEMMA InverseIs ==
  \A a \in F \ {0} : Inv(a) \in F \ {0} /\ a (.) Inv(a) = 1 /\ Inv(a) (.) a = 1
<1> TAKE a \in F \ {0}
<1>1. PICK b \in Int, q \in Int : 1 = a * b + Prime * q
  BY Combination
<1>2. a \in Int /\ Mod(a) = a /\ a * b \in Int /\ Mod(1) = 1
  BY ModOfElement, ZeroOne
<1>3. Mod(a * b) = Mod(1)
  <2>1. 1 = a * b + Prime * q /\ 1 \in Int
    BY <1>1
  <2> QED BY <1>2, <2>1, ModCong
<1>4. Mod(b) \in F /\ a (.) Mod(b) = 1
  <2>1. Mod(a) (.) Mod(b) = Mod(a * b)
    BY <1>2, ModOps
  <2> QED BY <1>2, <1>3, <2>1, ModType
<1>5. Inv(a) = CHOOSE c \in F : a (.) c = 1
  BY DEF Inv, InvTable
<1>6. Inv(a) \in F /\ a (.) Inv(a) = 1
  BY <1>4, <1>5
<1>7. Inv(a) # 0
  BY <1>6, Neutral, ZeroOne
<1> QED BY <1>6, <1>7, Commutes

LEMMA OnlyInverse == \A a, b \in F : a (.) b = 1 => a # 0 /\ b # 0 /\ Inv(a) = b
<1> SUFFICES ASSUME NEW a \in F, NEW b \in F, a (.) b = 1 PROVE a # 0 /\ b # 0 /\ Inv(a) = b
  OBVIOUS
<1>1. a # 0 /\ b # 0
  BY Neutral, ZeroOne
<1>2. Inv(a) \in F /\ Inv(a) (.) a = 1
  BY <1>1, InverseIs
<1>3. (Inv(a) (.) a) (.) b = Inv(a) (.) (a (.) b)
  BY <1>2, Associates
<1>4. b = Inv(a) (.) 1
  BY <1>2, <1>3, Neutral
<1> QED BY <1>1, <1>2, <1>4, Neutral

LEMMA NonzeroProduct ==
  \A a, b \in F \ {0} : a (.) b \in F \ {0} /\ Inv(a (.) b) = Inv(a) (.) Inv(b)
<1> TAKE a, b \in F \ {0}
<1> DEFINE c == Inv(a)
           d == Inv(b)
<1>1. c \in F /\ d \in F /\ a (.) c = 1 /\ b (.) d = 1 /\ a (.) b \in F /\ c (.) d \in F
  BY InverseIs, Closed
<1> HIDE DEF c, d
<1>2. (a (.) b) (.) (c (.) d) = 1
  <2>1. (a (.) b) (.) (c (.) d) = a (.) (b (.) (c (.) d))
    BY <1>1, Associates
  <2>2. b (.) (c (.) d) = (b (.) d) (.) c
    BY <1>1, Associates, Commutes
  <2> QED BY <1>1, <2>1, <2>2, Neutral
<1>3. a (.) b # 0 /\ Inv(a (.) b) = c (.) d
  BY <1>1, <1>2, OnlyInverse
<1> QED BY <1>1, <1>3 DEF c, d

-------------------------------------------------------------------------------
(* Vectors.                                                                *)

Vec(n) == [Upto(n) -> F]

LEMMA SizeIs == \A n \in Nat : \A v : DOMAIN v = Upto(n) => Size(v) = n
<1> TAKE n \in Nat
<1>1. Cardinality(0 .. n - 1) = n
  BY FS_Interval
<1> QED BY <1>1 DEF Size, Upto

\* The running products.
LEMMA ScanMulIs ==
  ASSUME NEW n \in Nat, NEW v \in Vec(n)
  PROVE  /\ ScanMul(v) \in Vec(n)
         /\ n > 0 => ScanMul(v)[0] = v[0]
         /\ \A k \in Nat : k + 1 < n => ScanMul(v)[k + 1] = ScanMul(v)[k] (.) v[k + 1]
<1> DEFINE G == [p \in Nat \X F |-> IF p[1] + 1 < n THEN p[2] (.) v[p[1] + 1] ELSE 0]
           start == IF n > 0 THEN v[0] ELSE 0
<1>1. /\ \A k \in Nat : k < n <=> k \in Upto(n)
      /\ \A k \in Upto(n) : k \in Nat /\ v[k] \in F
  BY DEF Upto, Vec
<1>2. start \in F /\ G \in [Nat \X F -> F]
  <2>1. ASSUME NEW p \in Nat \X F
        PROVE  (IF p[1] + 1 < n THEN p[2] (.) v[p[1] + 1] ELSE 0) \in F
    <3>1. p[1] \in Nat /\ p[2] \in F /\ p[1] + 1 \in Nat
      OBVIOUS
    <3> QED BY <1>1, <3>1, Closed, ZeroOne
  <2> QED BY <1>1, <2>1, ZeroOne
<1> HIDE DEF G, start
<1>3. PICK f \in [Nat -> F] : f[0] = start /\ \A k \in Nat : f[k + 1] = G[<<k, f[k]>>]
  <2>1. IsStep(F, start, G)
    BY <1>2 DEF IsStep
  <2>2. PICK f : Follows(f, F, start, G)
    BY <2>1, Recursion
  <2> QED BY <2>2 DEF Follows
<1>4. \A k \in Nat : k + 1 < n => f[k + 1] = f[k] (.) v[k + 1]
  BY <1>3 DEF G
<1> DEFINE IsScan(g) == g = [k \in DOMAIN v |-> IF k = 0 THEN v[0] ELSE g[k - 1] (.) v[k]]
           sc == CHOOSE g : IsScan(g)
<1>5. IsScan(sc)
  <2> DEFINE g == [k \in DOMAIN v |-> f[k]]
  <2>1. DOMAIN v = Upto(n)
    BY DEF Vec
  <2>2. ASSUME NEW k \in Upto(n)
        PROVE  g[k] = IF k = 0 THEN v[0] ELSE g[k - 1] (.) v[k]
    <3>1. CASE k = 0
      BY <1>1, <1>3, <2>1, <2>2, <3>1 DEF start
    <3>2. CASE k # 0
      <4>1. k - 1 \in Nat /\ (k - 1) + 1 = k /\ k < n /\ k - 1 \in Upto(n)
        BY <3>2 DEF Upto
      <4> QED BY <1>4, <2>1, <3>2, <4>1
    <3> QED BY <3>1, <3>2
  <2>3. IsScan(g)
    BY <2>1, <2>2
  <2> HIDE DEF IsScan, g
  <2> QED BY <2>3, Zenon
<1>6. ScanMul(v) = sc
  <2>1. ScanMul(v) = [k \in DOMAIN v |-> sc[k]]
    BY Zenon DEF ScanMul
  <2>2. DOMAIN sc = DOMAIN v /\ sc = [k \in DOMAIN sc |-> sc[k]]
    BY <1>5
  <2> QED BY <2>1, <2>2
<1> HIDE DEF sc
<1>7. DOMAIN v = Upto(n)
  BY DEF Vec
<1>8. n > 0 => sc[0] = v[0]
  BY <1>1, <1>5, <1>7
<1>9. ASSUME NEW k \in Nat, k + 1 < n PROVE sc[k + 1] = sc[k] (.) v[k + 1]
  <2>1. k + 1 \in Upto(n) /\ k + 1 # 0 /\ (k + 1) - 1 = k
    BY <1>9 DEF Upto
  <2> QED BY <1>5, <1>7, <2>1
<1>10. \A k \in Nat : k < n => sc[k] \in F
  <2> DEFINE P == {k \in Nat : k < n => sc[k] \in F}
  <2>1. 0 \in P
    BY <1>1, <1>8
  <2>2. ASSUME NEW k \in Nat, k \in P PROVE k + 1 \in P
    <3>1. k + 1 < n => k < n
      OBVIOUS
    <3>2. k + 1 < n => v[k + 1] \in F
      BY <1>1
    <3> QED BY <1>9, <2>2, <3>1, <3>2, Closed
  <2>3. Nat \subseteq P
    <3> HIDE DEF P
    <3> QED BY <2>1, <2>2, Induction
  <2> QED BY <2>3
<1>11. sc \in Vec(n)
  BY <1>1, <1>5, <1>7, <1>10 DEF Vec
<1> QED BY <1>6, <1>8, <1>9, <1>11

\* The running sums.
LEMMA ScanAddIs ==
  ASSUME NEW n \in Nat, NEW v \in Vec(n)
  PROVE  /\ ScanAdd(v) \in Vec(n)
         /\ n > 0 => ScanAdd(v)[0] = v[0]
         /\ \A k \in Nat : k + 1 < n => ScanAdd(v)[k + 1] = ScanAdd(v)[k] (+) v[k + 1]
<1> DEFINE G == [p \in Nat \X F |-> IF p[1] + 1 < n THEN p[2] (+) v[p[1] + 1] ELSE 0]
           start == IF n > 0 THEN v[0] ELSE 0
<1>1. /\ \A k \in Nat : k < n <=> k \in Upto(n)
      /\ \A k \in Upto(n) : k \in Nat /\ v[k] \in F
  BY DEF Upto, Vec
<1>2. start \in F /\ G \in [Nat \X F -> F]
  <2>1. ASSUME NEW p \in Nat \X F
        PROVE  (IF p[1] + 1 < n THEN p[2] (+) v[p[1] + 1] ELSE 0) \in F
    <3>1. p[1] \in Nat /\ p[2] \in F /\ p[1] + 1 \in Nat
      OBVIOUS
    <3> QED BY <1>1, <3>1, Closed, ZeroOne
  <2> QED BY <1>1, <2>1, ZeroOne
<1> HIDE DEF G, start
<1>3. PICK f \in [Nat -> F] : f[0] = start /\ \A k \in Nat : f[k + 1] = G[<<k, f[k]>>]
  <2>1. IsStep(F, start, G)
    BY <1>2 DEF IsStep
  <2>2. PICK f : Follows(f, F, start, G)
    BY <2>1, Recursion
  <2> QED BY <2>2 DEF Follows
<1>4. \A k \in Nat : k + 1 < n => f[k + 1] = f[k] (+) v[k + 1]
  BY <1>3 DEF G
<1> DEFINE IsScan(g) == g = [k \in DOMAIN v |-> IF k = 0 THEN v[0] ELSE g[k - 1] (+) v[k]]
           sc == CHOOSE g : IsScan(g)
<1>5. IsScan(sc)
  <2> DEFINE g == [k \in DOMAIN v |-> f[k]]
  <2>1. DOMAIN v = Upto(n)
    BY DEF Vec
  <2>2. ASSUME NEW k \in Upto(n)
        PROVE  g[k] = IF k = 0 THEN v[0] ELSE g[k - 1] (+) v[k]
    <3>1. CASE k = 0
      BY <1>1, <1>3, <2>1, <2>2, <3>1 DEF start
    <3>2. CASE k # 0
      <4>1. k - 1 \in Nat /\ (k - 1) + 1 = k /\ k < n /\ k - 1 \in Upto(n)
        BY <3>2 DEF Upto
      <4> QED BY <1>4, <2>1, <3>2, <4>1
    <3> QED BY <3>1, <3>2
  <2>3. IsScan(g)
    BY <2>1, <2>2
  <2> HIDE DEF IsScan, g
  <2> QED BY <2>3, Zenon
<1>6. ScanAdd(v) = sc
  <2>1. ScanAdd(v) = [k \in DOMAIN v |-> sc[k]]
    BY Zenon DEF ScanAdd
  <2>2. DOMAIN sc = DOMAIN v /\ sc = [k \in DOMAIN sc |-> sc[k]]
    BY <1>5
  <2> QED BY <2>1, <2>2
<1> HIDE DEF sc
<1>7. DOMAIN v = Upto(n)
  BY DEF Vec
<1>8. n > 0 => sc[0] = v[0]
  BY <1>1, <1>5, <1>7
<1>9. ASSUME NEW k \in Nat, k + 1 < n PROVE sc[k + 1] = sc[k] (+) v[k + 1]
  <2>1. k + 1 \in Upto(n) /\ k + 1 # 0 /\ (k + 1) - 1 = k
    BY <1>9 DEF Upto
  <2> QED BY <1>5, <1>7, <2>1
<1>10. \A k \in Nat : k < n => sc[k] \in F
  <2> DEFINE P == {k \in Nat : k < n => sc[k] \in F}
  <2>1. 0 \in P
    BY <1>1, <1>8
  <2>2. ASSUME NEW k \in Nat, k \in P PROVE k + 1 \in P
    <3>1. k + 1 < n => k < n
      OBVIOUS
    <3>2. k + 1 < n => v[k + 1] \in F
      BY <1>1
    <3> QED BY <1>9, <2>2, <3>1, <3>2, Closed
  <2>3. Nat \subseteq P
    <3> HIDE DEF P
    <3> QED BY <2>1, <2>2, Induction
  <2> QED BY <2>3
<1>11. sc \in Vec(n)
  BY <1>1, <1>5, <1>7, <1>10 DEF Vec
<1> QED BY <1>6, <1>8, <1>9, <1>11

-------------------------------------------------------------------------------
(* Powers.                                                                 *)

\* p[k] is the k-th power of a.
PowersOf(p, a) == p \in [Nat -> F] /\ p[0] = 1 /\ \A k \in Nat : p[k + 1] = a (.) p[k]

LEMMA PowersExist == ASSUME NEW a \in F PROVE \E p : PowersOf(p, a)
<1> DEFINE G == [q \in Nat \X F |-> a (.) q[2]]
<1>1. G \in [Nat \X F -> F]
  <2>1. \A q \in Nat \X F : q[2] \in F
    OBVIOUS
  <2> QED BY <2>1, Closed
<1>2. \A n \in Nat, b \in F : G[<<n, b>>] = a (.) b
  OBVIOUS
<1> HIDE DEF G
<1>3. IsStep(F, 1, G)
  BY <1>1, ZeroOne DEF IsStep
<1>4. PICK p : Follows(p, F, 1, G)
  BY <1>3, Recursion
<1> QED BY <1>2, <1>4 DEF Follows, PowersOf

LEMMA PowersAdd ==
  ASSUME NEW a \in F, NEW p, PowersOf(p, a), NEW j \in Nat
  PROVE  \A k \in Nat : p[j + k] = p[j] (.) p[k]
<1> DEFINE P == {k \in Nat : p[j + k] = p[j] (.) p[k]}
<1>1. \A k \in Nat : p[k] \in F
  BY DEF PowersOf
<1>2. 0 \in P
  <2>1. j + 0 = j
    OBVIOUS
  <2> QED BY <1>1, <2>1, Neutral DEF PowersOf
<1>3. ASSUME NEW k \in Nat, k \in P PROVE k + 1 \in P
  <2>1. j + k \in Nat /\ j + (k + 1) = (j + k) + 1
    OBVIOUS
  <2>2. p[j + (k + 1)] = a (.) (p[j] (.) p[k])
    BY <1>3, <2>1 DEF PowersOf
  <2>3. a (.) (p[j] (.) p[k]) = p[j] (.) (a (.) p[k])
    <3>1. p[j] \in F /\ p[k] \in F
      BY <1>1
    <3>2. a (.) (p[j] (.) p[k]) = (a (.) p[j]) (.) p[k]
      BY <3>1, Associates
    <3>3. (a (.) p[j]) (.) p[k] = p[j] (.) (a (.) p[k])
      BY <3>1, Associates, Commutes
    <3> QED BY <3>2, <3>3
  <2> QED BY <2>2, <2>3 DEF PowersOf
<1>4. Nat \subseteq P
  <2> HIDE DEF P
  <2> QED BY <1>2, <1>3, Induction
<1> QED BY <1>4

\* Squaring and multiplying gives the powers.
LEMMA PowerIs ==
  ASSUME NEW a \in F, NEW p, PowersOf(p, a), NEW e \in Nat
  PROVE  Power(a, e) = p[e]
<1> DEFINE IsPow(g) == g = [k \in 0 .. e |->
                              IF k = 0 THEN 1
                              ELSE IF k % 2 = 1 THEN a (.) g[k - 1]
                              ELSE LET half == g[k \div 2] IN half (.) half]
           pow == CHOOSE g : IsPow(g)
<1>1. \A k \in 0 .. e : /\ k \in Nat
                        /\ k # 0 => /\ k - 1 \in 0 .. e /\ k - 1 < k /\ (k - 1) + 1 = k
                                    /\ k \div 2 \in 0 .. e /\ k \div 2 < k
                        /\ k % 2 # 1 => (k \div 2) + (k \div 2) = k
  OBVIOUS
<1>2. ASSUME NEW k \in 0 .. e
      PROVE  p[k] = IF k = 0 THEN 1
                    ELSE IF k % 2 = 1 THEN a (.) p[k - 1]
                    ELSE p[k \div 2] (.) p[k \div 2]
  <2>1. CASE k = 0
    BY <2>1 DEF PowersOf
  <2>2. CASE k # 0 /\ k % 2 = 1
    <3>1. k - 1 \in Nat
      BY <1>1, <2>2
    <3> QED BY <1>1, <2>2, <3>1 DEF PowersOf
  <2>3. CASE k # 0 /\ k % 2 # 1
    <3>1. k \div 2 \in Nat /\ (k \div 2) + (k \div 2) = k
      BY <1>1, <2>3
    <3>2. p[(k \div 2) + (k \div 2)] = p[k \div 2] (.) p[k \div 2]
      BY <3>1, PowersAdd
    <3> QED BY <2>3, <3>1, <3>2
  <2> QED BY <2>1, <2>2, <2>3
<1>3. IsPow(pow)
  <2> DEFINE g == [k \in 0 .. e |-> p[k]]
  <2>1. IsPow(g)
    BY <1>1, <1>2
  <2> HIDE DEF IsPow, g
  <2> QED BY <2>1, Zenon
<1>4. Power(a, e) = pow[e]
  BY Zenon DEF Power
<1> HIDE DEF pow
<1>5. \A k \in 0 .. e : pow[k] = p[k]
  <2> DEFINE T == {k \in 0 .. e : pow[k] # p[k]}
  <2> SUFFICES ASSUME T # {} PROVE FALSE
    OBVIOUS
  <2>1. PICK m \in T : \A y \in T : m <= y
    <3>1. T \in SUBSET Nat
      OBVIOUS
    <3> HIDE DEF T
    <3> QED BY <3>1, Least
  <2>2. m \in 0 .. e
    OBVIOUS
  <2>3. \A k \in 0 .. e : k < m => pow[k] = p[k]
    BY <2>1
  <2>4. pow[m] = IF m = 0 THEN 1 ELSE IF m % 2 = 1 THEN a (.) pow[m - 1]
                 ELSE pow[m \div 2] (.) pow[m \div 2]
    BY <1>3, <2>2
  <2>5. pow[m] = p[m]
    <3>1. CASE m = 0
      BY <1>2, <2>2, <2>4, <3>1
    <3>2. CASE m # 0
      <4>1. pow[m - 1] = p[m - 1] /\ pow[m \div 2] = p[m \div 2]
        BY <1>1, <2>2, <2>3, <3>2
      <4> QED BY <1>2, <2>2, <2>4, <3>2, <4>1
    <3> QED BY <3>1, <3>2
  <2> QED BY <2>1, <2>5
<1> QED BY <1>4, <1>5

LEMMA PowerLaws ==
  ASSUME NEW a \in F
  PROVE  /\ Power(a, 0) = 1
         /\ \A e \in Nat : Power(a, e) \in F /\ Power(a, e + 1) = a (.) Power(a, e)
         /\ \A e, k \in Nat : Power(a, e + k) = Power(a, e) (.) Power(a, k)
<1>1. PICK p : PowersOf(p, a)
  BY PowersExist
<1>2. \A e \in Nat : Power(a, e) = p[e] /\ Power(a, e + 1) = p[e + 1]
  <2>1. \A e \in Nat : e + 1 \in Nat
    OBVIOUS
  <2> QED BY <1>1, <2>1, PowerIs
<1>3. \A e, k \in Nat : Power(a, e + k) = p[e + k]
  <2>1. \A e, k \in Nat : e + k \in Nat
    OBVIOUS
  <2> QED BY <1>1, <2>1, PowerIs
<1>4. \A e, k \in Nat : p[e + k] = p[e] (.) p[k]
  BY <1>1, PowersAdd
<1>5. Power(a, 0) = 1 /\ \A e \in Nat : Power(a, e) \in F /\ Power(a, e + 1) = a (.) Power(a, e)
  BY <1>1, <1>2 DEF PowersOf
<1>6. \A e, k \in Nat : Power(a, e + k) = Power(a, e) (.) Power(a, k)
  BY ONLY <1>2, <1>3, <1>4
<1> QED BY <1>5, <1>6, Zenon

LEMMA PowersInvert ==
  ASSUME NEW a \in F \ {0}
  PROVE  \A e \in Nat : Power(a, e) \in F \ {0} /\ Power(Inv(a), e) = Inv(Power(a, e))
<1> DEFINE P == {e \in Nat : Power(a, e) \in F \ {0} /\ Power(Inv(a), e) = Inv(Power(a, e))}
<1>1. Inv(a) \in F /\ a \in F
  BY InverseIs
<1>2. 0 \in P
  <2>1. Inv(1) = 1
    BY ZeroOne, Neutral, OnlyInverse
  <2> QED BY <1>1, <2>1, PowerLaws, ZeroOne
<1>3. ASSUME NEW e \in Nat, e \in P PROVE e + 1 \in P
  <2>1. Power(a, e + 1) = a (.) Power(a, e) /\ Power(Inv(a), e + 1) = Inv(a) (.) Power(Inv(a), e)
    BY <1>1, PowerLaws
  <2> QED BY <1>3, <2>1, NonzeroProduct
<1>4. Nat \subseteq P
  <2> HIDE DEF P
  <2> QED BY <1>2, <1>3, Induction
<1> QED BY <1>4

-------------------------------------------------------------------------------
(* The kernels.                                                            *)

LEMMA UptoIs ==
  ASSUME NEW n \in Nat
  PROVE  \A k : k \in Upto(n) <=> k \in Nat /\ k < n
BY DEF Upto

\* gpu_vec_powers: the scan of 1, g, g, ... gives the powers of g.
LEMMA PowersAre ==
  ASSUME NEW g \in F, NEW n \in Nat
  PROVE  Powers(g, n) = [k \in Upto(n) |-> Power(g, k)]
<1> DEFINE v == [k \in Upto(n) |-> IF k = 0 THEN 1 ELSE g]
           s == ScanMul(v)
<1>1. v \in Vec(n)
  BY ZeroOne DEF Vec
<1>2. /\ s \in Vec(n) /\ (n > 0 => s[0] = v[0])
      /\ \A k \in Nat : k + 1 < n => s[k + 1] = s[k] (.) v[k + 1]
  BY <1>1, ScanMulIs
<1>3. (n > 0 => v[0] = 1) /\ \A k \in Nat : k + 1 < n => v[k + 1] = g
  BY UptoIs
<1>4. Powers(g, n) = s
  BY DEF Powers
<1> HIDE DEF s, v
<1> DEFINE P == {k \in Nat : k < n => s[k] = Power(g, k)}
<1>5. 0 \in P
  BY <1>2, <1>3, PowerLaws
<1>6. ASSUME NEW k \in Nat, k \in P PROVE k + 1 \in P
  <2> SUFFICES ASSUME k + 1 < n PROVE s[k + 1] = Power(g, k + 1)
    OBVIOUS
  <2>1. s[k] = Power(g, k) /\ s[k + 1] = s[k] (.) g
    BY <1>2, <1>3, <1>6
  <2>2. Power(g, k) \in F /\ Power(g, k + 1) = g (.) Power(g, k)
    BY PowerLaws
  <2> QED BY <2>1, <2>2, Commutes
<1>7. Nat \subseteq P
  <2> HIDE DEF P
  <2> QED BY <1>5, <1>6, Induction
<1>8. \A k \in Upto(n) : s[k] = Power(g, k)
  BY <1>7, UptoIs
<1> QED BY <1>2, <1>4, <1>8 DEF Vec

\* gpu_vec_scale_by_powers replaces p(X) by p(g X): it is scalePowers, for every
\* vector and every g.
THEOREM ScaleByPowersThm ==
  ASSUME NEW n \in Nat, NEW v \in Vec(n), NEW g \in F
  PROVE  ScaleByPowers(v, g) = Rescale(v, g)
<1>1. DOMAIN v = Upto(n) /\ Size(v) = n
  BY SizeIs DEF Vec
<1>2. Powers(g, Size(v)) = [k \in Upto(n) |-> Power(g, k)]
  BY <1>1, PowersAre
<1> QED BY <1>1, <1>2 DEF ScaleByPowers, Rescale

\* gpu_vec_batch_invert, with one inversion and two scans, inverts every entry of
\* a vector without zeros, whatever its length.
THEOREM VecBatchInvertThm ==
  ASSUME NEW n \in Nat, NEW v \in [Upto(n) -> F \ {0}]
  PROVE  VecBatchInvert(v) = [k \in Upto(n) |-> Inv(v[k])]
<1> DEFINE r    == Reversed(v)
           pre  == ScanMul(v)
           back == ScanMul(r)
           Left(k)  == IF k = 0 THEN 1 ELSE pre[k - 1]
           Right(k) == IF k = n - 1 THEN 1 ELSE back[n - 2 - k]
<1>1. DOMAIN v = Upto(n) /\ Size(v) = n /\ v \in Vec(n) /\ \A k \in Upto(n) : v[k] \in F \ {0}
  BY SizeIs DEF Vec
<1>2. r \in Vec(n) /\ \A k \in Nat : k < n => r[k] = v[n - 1 - k] /\ n - 1 - k \in Upto(n)
  <2>1. \A k \in Upto(n) : n - 1 - k \in Upto(n)
    BY UptoIs DEF Upto
  <2> QED BY <1>1, <2>1, UptoIs DEF Reversed, Vec
<1>3. /\ pre \in Vec(n) /\ (n > 0 => pre[0] = v[0])
      /\ \A k \in Nat : k + 1 < n => pre[k + 1] = pre[k] (.) v[k + 1]
  BY <1>1, ScanMulIs
<1>4. /\ back \in Vec(n) /\ (n > 0 => back[0] = r[0])
      /\ \A k \in Nat : k + 1 < n => back[k + 1] = back[k] (.) r[k + 1]
  BY <1>2, ScanMulIs
<1>5. VecBatchInvert(v) =
        [k \in Upto(n) |-> (Left(k) (.) Right(k)) (.) Inv(pre[n - 1])]
  BY <1>1 DEF VecBatchInvert, BatchInvertCombine
<1> HIDE DEF r, pre, back
<1>6. \A k \in Nat : k < n => pre[k] \in F \ {0} /\ back[k] \in F
  <2> DEFINE P == {k \in Nat : k < n => pre[k] \in F \ {0}}
  <2>1. 0 \in P
    BY <1>1, <1>3, UptoIs
  <2>2. ASSUME NEW k \in Nat, k \in P PROVE k + 1 \in P
    <3> SUFFICES ASSUME k + 1 < n PROVE pre[k + 1] \in F \ {0}
      OBVIOUS
    <3>1. v[k + 1] \in F \ {0} /\ pre[k] \in F \ {0} /\ pre[k + 1] = pre[k] (.) v[k + 1]
      BY <1>1, <1>3, <2>2, UptoIs
    <3> QED BY <3>1, NonzeroProduct
  <2>3. Nat \subseteq P
    <3> HIDE DEF P
    <3> QED BY <2>1, <2>2, Induction
  <2> QED BY <1>4, <2>3, UptoIs DEF Vec
<1>7. \A k \in Nat : k < n => Left(k) \in F /\ Right(k) \in F /\ Left(k) (.) v[k] = pre[k]
  <2> TAKE k \in Nat
  <2> SUFFICES ASSUME k < n PROVE Left(k) \in F /\ Right(k) \in F /\ Left(k) (.) v[k] = pre[k]
    OBVIOUS
  <2>1. k # n - 1 => n - 2 - k \in Nat /\ n - 2 - k < n
    OBVIOUS
  <2>2. Right(k) \in F
    BY <1>6, <2>1, ZeroOne
  <2>3. CASE k = 0
    BY <1>1, <1>3, <2>2, <2>3, Neutral, ZeroOne, UptoIs
  <2>4. CASE k # 0
    <3>1. k - 1 \in Nat /\ k - 1 < n /\ (k - 1) + 1 = k
      BY <2>4
    <3>2. pre[k] = pre[k - 1] (.) v[k]
      BY <1>3, <3>1
    <3> QED BY <1>6, <2>2, <2>4, <3>1, <3>2
  <2> QED BY <2>3, <2>4
<1>8. ASSUME NEW k \in Nat, k + 1 < n PROVE Right(k) = Right(k + 1) (.) v[k + 1]
  <2>1. k # n - 1 /\ k + 1 \in Nat /\ v[k + 1] \in F
    BY <1>1, <1>8, UptoIs
  <2>2. CASE k + 1 = n - 1
    <3>1. n - 2 - k = 0 /\ n - 1 - 0 = k + 1 /\ n > 0
      BY <2>2
    <3>2. back[0] = v[k + 1]
      BY <1>2, <1>4, <3>1
    <3> QED BY <2>1, <2>2, <3>1, <3>2, Neutral
  <2>3. CASE k + 1 # n - 1
    <3>1. PICK m \in Nat : m = n - 2 - (k + 1)
      BY <1>8, <2>3
    <3>2. n - 2 - k = m + 1 /\ m + 1 < n /\ n - 1 - (m + 1) = k + 1
      BY <3>1
    <3>3. back[m + 1] = back[m] (.) v[k + 1]
      BY <1>2, <1>4, <3>2
    <3> QED BY <2>1, <2>3, <3>1, <3>2, <3>3
  <2> QED BY <2>2, <2>3
<1>9. \A k \in Nat : k < n => pre[k] (.) Right(k) = pre[n - 1]
  <2> DEFINE P == {m \in Nat : m < n => pre[n - 1 - m] (.) Right(n - 1 - m) = pre[n - 1]}
  <2>1. 0 \in P
    <3>1. n - 1 - 0 = n - 1 /\ (0 < n => n - 1 \in Nat /\ n - 1 < n)
      OBVIOUS
    <3> QED BY <1>6, <3>1, Neutral
  <2>2. ASSUME NEW m \in Nat, m \in P PROVE m + 1 \in P
    <3> SUFFICES ASSUME m + 1 < n
                 PROVE  pre[n - 1 - (m + 1)] (.) Right(n - 1 - (m + 1)) = pre[n - 1]
      OBVIOUS
    <3>1. PICK k \in Nat : /\ k = n - 1 - (m + 1) /\ k + 1 = n - 1 - m /\ k < n /\ k + 1 < n
                          /\ k + 1 \in Nat
      OBVIOUS
    <3>2. pre[k + 1] (.) Right(k + 1) = pre[n - 1]
      BY <2>2, <3>1
    <3>3. Right(k) = Right(k + 1) (.) v[k + 1] /\ pre[k + 1] = pre[k] (.) v[k + 1]
      BY <1>3, <1>8, <3>1
    <3>4. pre[k] \in F /\ Right(k + 1) \in F /\ v[k + 1] \in F
      BY <1>1, <1>6, <1>7, <3>1, UptoIs
    <3>5. pre[k] (.) (Right(k + 1) (.) v[k + 1]) = (pre[k] (.) v[k + 1]) (.) Right(k + 1)
      BY <3>4, Associates, Commutes
    <3> QED BY <3>1, <3>2, <3>3, <3>5
  <2>3. Nat \subseteq P
    <3> HIDE DEF P
    <3> QED BY <2>1, <2>2, Induction
  <2>4. ASSUME NEW k \in Nat, k < n PROVE pre[k] (.) Right(k) = pre[n - 1]
    <3>1. PICK m \in Nat : m = n - 1 - k /\ m < n /\ n - 1 - m = k
      BY <2>4
    <3> QED BY <2>3, <3>1
  <2> QED BY <2>4
<1>10. ASSUME NEW k \in Upto(n) PROVE Inv(v[k]) = (Left(k) (.) Right(k)) (.) Inv(pre[n - 1])
  <2>1. k \in Nat /\ k < n /\ v[k] \in F /\ Left(k) \in F /\ Right(k) \in F
    BY <1>1, <1>7, UptoIs
  <2>2. n - 1 \in Nat /\ n - 1 < n
    BY <2>1
  <2> DEFINE all == pre[n - 1]
             inv == Inv(all)
             lft == Left(k)
             rgt == Right(k)
             e   == v[k]
  <2>3. all \in F /\ inv \in F /\ all (.) inv = 1
    BY <1>6, <2>2, InverseIs
  <2>4. (lft (.) e) (.) rgt = all
    BY <1>7, <1>9, <2>1
  <2>5. e \in F /\ lft \in F /\ rgt \in F
    BY <2>1
  <2>6. Inv(e) = (lft (.) rgt) (.) inv
    <3> HIDE DEF all, inv, lft, rgt, e
    <3>1. lft (.) rgt \in F /\ (lft (.) rgt) (.) inv \in F
      BY <2>3, <2>5, Closed
    <3>2. e (.) ((lft (.) rgt) (.) inv) = (e (.) (lft (.) rgt)) (.) inv
      BY <2>3, <2>5, <3>1, Associates
    <3>3. e (.) (lft (.) rgt) = (lft (.) e) (.) rgt
      BY <2>5, Associates, Commutes
    <3> QED BY <2>3, <2>4, <2>5, <3>1, <3>2, <3>3, OnlyInverse
  <2> QED BY <2>6
<1> QED BY <1>5, <1>10

\* The ratio kernels: two scans and one inversion give the copy-constraint product
\* from 1 on, for two entries or more, if no denominator is zero. (For one entry
\* ratio_copy_terms asks for a grid of no blocks, and its launch is an error.)
THEOREM RatioCopyConstraintThm ==
  ASSUME NEW n \in Nat \ {0, 1}, NEW num \in Vec(n - 1), NEW den \in [Upto(n - 1) -> F \ {0}]
  PROVE  LET z == RatioCopyConstraint(num, den, n)
         IN  /\ z \in Vec(n) /\ z[0] = 1
             /\ \A k \in Upto(n - 1) : z[k + 1] = z[k] (.) num[k] (.) Inv(den[k])
<1> DEFINE a == ScanMul(CopyTerms(num, n))
           b == ScanMul(CopyTerms(den, n))
           z == [k \in Upto(n) |-> a[k] (.) Inv(b[k])]
<1>1. /\ \A k \in Nat : k + 1 < n => k \in Upto(n - 1) /\ k + 1 \in Upto(n) /\ (k + 1) - 1 = k
      /\ \A k \in Upto(n) : k # 0 => k - 1 \in Upto(n - 1)
      /\ 0 \in Upto(n) /\ \A k \in Upto(n - 1) : k \in Nat /\ k + 1 < n
  BY DEF Upto
<1>2. ASSUME NEW f \in Vec(n - 1)
      PROVE  /\ CopyTerms(f, n) \in Vec(n) /\ CopyTerms(f, n)[0] = 1
             /\ \A k \in Nat : k + 1 < n => CopyTerms(f, n)[k + 1] = f[k]
  BY <1>1, ZeroOne DEF CopyTerms, Vec
<1>3. /\ a \in Vec(n) /\ a[0] = 1
      /\ \A k \in Nat : k + 1 < n => a[k + 1] = a[k] (.) num[k]
  BY <1>2, ScanMulIs
<1>4. den \in Vec(n - 1)
  BY DEF Vec
<1>5. /\ b \in Vec(n) /\ b[0] = 1
      /\ \A k \in Nat : k + 1 < n => b[k + 1] = b[k] (.) den[k]
  BY <1>2, <1>4, ScanMulIs
<1>6. RatioCopyConstraint(num, den, n) = z
  BY DEF RatioCopyConstraint
<1> HIDE DEF a, b
<1>7. \A k \in Nat : k < n => a[k] \in F /\ b[k] \in F \ {0}
  <2> DEFINE P == {k \in Nat : k < n => b[k] \in F \ {0}}
  <2>1. 0 \in P
    BY <1>5, ZeroOne
  <2>2. ASSUME NEW k \in Nat, k \in P PROVE k + 1 \in P
    <3> SUFFICES ASSUME k + 1 < n PROVE b[k + 1] \in F \ {0}
      OBVIOUS
    <3>1. k < n /\ den[k] \in F \ {0}
      BY <1>1
    <3> QED BY <1>5, <2>2, <3>1, NonzeroProduct
  <2>3. Nat \subseteq P
    <3> HIDE DEF P
    <3> QED BY <2>1, <2>2, Induction
  <2> QED BY <1>3, <2>3, UptoIs DEF Vec
<1>8. \A k \in Upto(n) : a[k] \in F /\ b[k] \in F \ {0} /\ Inv(b[k]) \in F
  BY <1>7, InverseIs, UptoIs
<1>9. z \in Vec(n)
  BY <1>8, Closed DEF Vec
<1>10. z[0] = 1
  <2>1. Inv(1) = 1
    BY ZeroOne, Neutral, OnlyInverse
  <2> QED BY <1>1, <1>3, <1>5, <2>1, ZeroOne, Neutral
<1>11. ASSUME NEW k \in Upto(n - 1) PROVE z[k + 1] = (z[k] (.) num[k]) (.) Inv(den[k])
  <2>1. /\ k \in Nat /\ k + 1 < n /\ k \in Upto(n) /\ k + 1 \in Upto(n)
        /\ num[k] \in F /\ den[k] \in F \ {0}
    BY <1>1 DEF Vec, Upto
  <2> DEFINE c == a[k]
             d == Inv(b[k])
             e == num[k]
             f == Inv(den[k])
  <2>2. c \in F /\ d \in F /\ e \in F /\ f \in F
    BY <1>8, <2>1, InverseIs
  <2>3. z[k] = c (.) d /\ z[k + 1] = (c (.) e) (.) (d (.) f)
    <3>1. Inv(b[k + 1]) = d (.) f
      BY <1>5, <1>8, <2>1, NonzeroProduct
    <3> QED BY <1>3, <2>1, <3>1
  <2>4. (c (.) e) (.) (d (.) f) = ((c (.) d) (.) e) (.) f
    <3> HIDE DEF c, d, e, f
    <3>1. c (.) e \in F /\ c (.) d \in F
      BY <2>2, Closed
    <3>2. (c (.) e) (.) (d (.) f) = ((c (.) e) (.) d) (.) f
      BY <2>2, <3>1, Associates
    <3>3. (c (.) e) (.) d = (c (.) d) (.) e
      BY <2>2, Associates, Commutes
    <3> QED BY <3>2, <3>3
  <2> QED BY <2>3, <2>4
<1> QED BY <1>6, <1>9, <1>10, <1>11

-------------------------------------------------------------------------------
(* Polynomials: Horner's rule, whole, over a slice and over the chunks.    *)

IsHorner(h, n, p, z) ==
  /\ h \in [0 .. n -> F] /\ h[n] = 0
  /\ \A k \in Nat : k < n => h[k] = p[k] (+) (z (.) h[k + 1])

LEMMA HornerExists ==
  ASSUME NEW n \in Nat, NEW p \in Vec(n), NEW z \in F
  PROVE  \E h : IsHorner(h, n, p, z)
<1> DEFINE G == [x \in Nat \X F |-> IF x[1] < n THEN p[n - 1 - x[1]] (+) (z (.) x[2]) ELSE 0]
<1>1. G \in [Nat \X F -> F]
  <2>1. ASSUME NEW x \in Nat \X F
        PROVE  (IF x[1] < n THEN p[n - 1 - x[1]] (+) (z (.) x[2]) ELSE 0) \in F
    <3>1. x[1] \in Nat /\ x[2] \in F /\ z (.) x[2] \in F
      BY Closed
    <3>2. CASE x[1] < n
      <4>1. n - 1 - x[1] \in Upto(n)
        BY <3>1, <3>2 DEF Upto
      <4>2. p[n - 1 - x[1]] \in F
        BY <4>1 DEF Vec
      <4> QED BY <3>1, <3>2, <4>2, Closed
    <3> QED BY <3>2, ZeroOne
  <2> QED BY <2>1
<1>2. PICK f : Follows(f, F, 0, G)
  <2>1. IsStep(F, 0, G)
    BY <1>1, ZeroOne DEF IsStep
  <2> HIDE DEF G
  <2> QED BY <2>1, Recursion
<1>3. f \in [Nat -> F] /\ f[0] = 0
  BY <1>2 DEF Follows
<1>4. \A m \in Nat : m < n => f[m + 1] = p[n - 1 - m] (+) (z (.) f[m])
  BY <1>2, <1>3 DEF Follows
<1> DEFINE h == [k \in 0 .. n |-> f[n - k]]
<1>5. h \in [0 .. n -> F] /\ h[n] = 0
  <2>1. n - n = 0 /\ n \in 0 .. n /\ \A k \in 0 .. n : n - k \in Nat
    OBVIOUS
  <2> QED BY <1>3, <2>1
<1>6. ASSUME NEW k \in Nat, k < n PROVE h[k] = p[k] (+) (z (.) h[k + 1])
  <2>1. PICK m \in Nat : /\ m = n - (k + 1) /\ m < n /\ n - k = m + 1 /\ n - 1 - m = k
                         /\ k \in 0 .. n /\ k + 1 \in 0 .. n
    BY <1>6
  <2> QED BY <1>4, <2>1
<1> HIDE DEF h
<1>7. IsHorner(h, n, p, z)
  BY <1>5, <1>6 DEF IsHorner
<1> QED BY <1>7

LEMMA EvalIs ==
  ASSUME NEW n \in Nat, NEW p \in Vec(n), NEW z \in F, NEW h, IsHorner(h, n, p, z)
  PROVE  Eval(p, z) = h[0] /\ Eval(p, z) \in F
<1> DEFINE IsFrom(g) ==
             g = [k \in 0 .. n |-> IF k = n THEN 0 ELSE p[k] (+) (z (.) g[k + 1])]
           from == CHOOSE g : IsFrom(g)
<1>1. h \in [0 .. n -> F] /\ h[n] = 0 /\ \A k \in Nat : k < n => h[k] = p[k] (+) (z (.) h[k + 1])
  BY DEF IsHorner
<1>2. IsFrom(h)
  <2>1. ASSUME NEW k \in 0 .. n
        PROVE  h[k] = IF k = n THEN 0 ELSE p[k] (+) (z (.) h[k + 1])
    <3>1. k = n \/ (k \in Nat /\ k < n /\ k # n)
      BY ONLY n \in Nat, k \in 0 .. n
    <3> QED BY <1>1, <3>1
  <2> QED BY <1>1, <2>1
<1>3. IsFrom(from)
  <2> HIDE DEF IsFrom
  <2> QED BY <1>2, Zenon
<1>4. Eval(p, z) = from[0]
  <2>1. Size(p) = n
    BY SizeIs DEF Vec
  <2>2. Eval(p, z) = (CHOOSE g : g = [k \in 0 .. Size(p) |->
            IF k = Size(p) THEN 0 ELSE p[k] (+) (z (.) g[k + 1])])[0]
    BY Zenon DEF Eval
  <2> QED BY ZenonT(30), <2>1, <2>2
<1> HIDE DEF from
<1>5. (\A k \in Nat : k < n => from[k] = p[k] (+) (z (.) from[k + 1])) /\ from[n] = 0
  <2>1. n \in 0 .. n /\ \A k \in Nat : k < n => k \in 0 .. n /\ k # n
    OBVIOUS
  <2> QED BY <1>3, <2>1
<1> DEFINE P == {m \in Nat : m <= n => from[n - m] = h[n - m]}
<1>6. 0 \in P
  <2>1. n - 0 = n
    OBVIOUS
  <2> QED BY <1>1, <1>5, <2>1
<1>7. ASSUME NEW m \in Nat, m \in P PROVE m + 1 \in P
  <2> SUFFICES ASSUME m + 1 <= n PROVE from[n - (m + 1)] = h[n - (m + 1)]
    OBVIOUS
  <2>1. PICK k \in Nat : k = n - (m + 1) /\ k + 1 = n - m /\ k < n /\ m <= n
    OBVIOUS
  <2>2. from[k + 1] = h[k + 1]
    BY <1>7, <2>1
  <2>3. from[k] = h[k]
    BY <1>1, <1>5, <2>1, <2>2
  <2> QED BY <2>1, <2>3
<1>8. Nat \subseteq P
  <2> HIDE DEF P
  <2> QED BY <1>6, <1>7, Induction
<1>9. from[0] = h[0]
  <2>1. n \in P /\ n - n = 0
    BY <1>8
  <2> QED BY <2>1
<1> QED BY <1>1, <1>4, <1>9

LEMMA EvalType ==
  ASSUME NEW n \in Nat, NEW p \in Vec(n), NEW z \in F
  PROVE  Eval(p, z) \in F
<1>1. PICK h : IsHorner(h, n, p, z)
  BY HornerExists
<1> QED BY <1>1, EvalIs

\* The value of a slice: what Horner's rule has added between its two ends.
LEMMA SliceEval ==
  ASSUME NEW n \in Nat, NEW p \in Vec(n), NEW z \in F, NEW h, IsHorner(h, n, p, z),
         NEW lo \in Nat, NEW hi \in Nat, lo <= hi, hi <= n
  PROVE  h[lo] = Eval(Slice(p, lo, hi), z) (+) (Power(z, hi - lo) (.) h[hi])
<1> DEFINE q == Slice(p, lo, hi)
<1>1. PICK m \in Nat : m = hi - lo
  OBVIOUS
<1>2. /\ q = [k \in Upto(m) |-> p[lo + k]] /\ q \in Vec(m)
      /\ \A k \in Nat : k < m => q[k] = p[lo + k]
  <2>1. \A k \in Upto(m) : lo + k \in Upto(n)
    BY <1>1 DEF Upto
  <2> QED BY <1>1, <2>1, UptoIs DEF Slice, Vec
<1> HIDE DEF q
<1>3. PICK e : IsHorner(e, m, q, z)
  BY <1>2, HornerExists
<1>4. /\ e \in [0 .. m -> F] /\ e[m] = 0
      /\ \A k \in Nat : k < m => e[k] = q[k] (+) (z (.) e[k + 1])
      /\ h \in [0 .. n -> F] /\ \A k \in Nat : k < n => h[k] = p[k] (+) (z (.) h[k + 1])
  BY <1>3 DEF IsHorner
<1>5. PICK t \in F : t = h[hi]
  <2>1. hi \in 0 .. n
    OBVIOUS
  <2> QED BY <1>4, <2>1
<1> DEFINE P == {j \in Nat : j <= m => h[hi - j] = e[m - j] (+) (Power(z, j) (.) t)}
<1>6. 0 \in P
  <2>1. hi - 0 = hi /\ m - 0 = m
    BY <1>1
  <2>2. Power(z, 0) = 1
    BY PowerLaws
  <2>3. h[hi] = e[m] (+) (Power(z, 0) (.) t)
    BY <1>4, <1>5, <2>2, Neutral
  <2> QED BY <2>1, <2>3
<1>7. ASSUME NEW j \in Nat, j \in P PROVE j + 1 \in P
  <2> SUFFICES ASSUME j + 1 <= m PROVE h[hi - (j + 1)] = e[m - (j + 1)] (+) (Power(z, j + 1) (.) t)
    OBVIOUS
  <2>1. PICK k \in Nat, i \in Nat :
          /\ k = hi - (j + 1) /\ k + 1 = hi - j /\ k < n /\ i = m - (j + 1) /\ i + 1 = m - j
          /\ i < m /\ k = lo + i /\ k + 1 \in 0 .. n /\ i + 1 \in 0 .. m /\ j <= m
    BY <1>1
  <2> DEFINE w == Power(z, j)
             a == q[i]
             b == e[i + 1]
  <2>2. /\ h[k + 1] = b (+) (w (.) t) /\ h[k] = a (+) (z (.) h[k + 1]) /\ e[i] = a (+) (z (.) b)
    <3>1. h[k + 1] = e[i + 1] (+) (Power(z, j) (.) t)
      BY <1>7, <2>1
    <3>2. q[i] = p[k]
      BY <1>2, <2>1
    <3> QED BY <1>4, <2>1, <3>1, <3>2
  <2>3. w \in F /\ a \in F /\ b \in F /\ Power(z, j + 1) = z (.) w
    <3>1. i \in Upto(m)
      BY <2>1, UptoIs, <1>1
    <3>2. q[i] \in F /\ e[i + 1] \in F
      BY <1>2, <1>4, <2>1, <3>1 DEF Vec
    <3> QED BY <3>2, PowerLaws
  <2>4. h[k] = e[i] (+) ((z (.) w) (.) t)
    <3> HIDE DEF w, a, b
    <3>1. w (.) t \in F /\ z (.) b \in F /\ z (.) (w (.) t) \in F
      BY <1>5, <2>3, Closed
    <3>2. z (.) (b (+) (w (.) t)) = (z (.) b) (+) (z (.) (w (.) t))
      BY <2>3, <3>1, Distributes
    <3>3. z (.) (w (.) t) = (z (.) w) (.) t
      BY <1>5, <2>3, Associates
    <3>4. a (+) ((z (.) b) (+) (z (.) (w (.) t))) = (a (+) (z (.) b)) (+) (z (.) (w (.) t))
      BY <2>3, <3>1, Associates
    <3> QED BY <2>2, <3>2, <3>3, <3>4
  <2>5. h[k] = e[i] (+) (Power(z, j + 1) (.) t)
    BY <2>3, <2>4
  <2> QED BY <2>1, <2>5
<1>8. Nat \subseteq P
  <2> HIDE DEF P
  <2> QED BY <1>6, <1>7, Induction
<1>9. h[lo] = e[0] (+) (Power(z, m) (.) t)
  <2>1. m \in P /\ hi - m = lo /\ m - m = 0
    BY <1>1, <1>8
  <2> QED BY <2>1
<1>10. Eval(q, z) = e[0]
  BY <1>2, <1>3, EvalIs
<1> QED BY <1>1, <1>5, <1>9, <1>10 DEF q

LEMMA Gap ==
  ASSUME NEW a \in Nat, NEW b \in Nat, a <= b
  PROVE  \E d \in Nat : b = a + d
<1>1. b - a \in Nat /\ b = a + (b - a)
  OBVIOUS
<1> QED BY <1>1

\* How gpu_poly_eval cuts n coefficients: chunks of one positive size, all but
\* the last full, none empty, that cover them all.
Tiles(size, used, n) ==
  /\ size \in Nat \ {0} /\ used \in Nat \ {0} /\ used * size >= n
  /\ \A tid \in Nat : tid < used => /\ tid * size \in Nat /\ tid * size < n
                                    /\ (tid + 1) * size = tid * size + size

LEMMA Chunks ==
  ASSUME NEW n \in Nat \ {0}, NEW chunks \in Nat \ {0},
         NEW size, size = (n + chunks - 1) \div chunks,
         NEW used, used = (n + size - 1) \div size
  PROVE  Tiles(size, used, n)
<1>1. size \in Nat \ {0}
  <2>1. PICK x \in Int : x = n + chunks - 1
    OBVIOUS
  <2>2. PICK r \in 0 .. chunks - 1, q \in Int : x = chunks * q + r /\ q = x \div chunks
    <3>1. chunks \in Nat /\ chunks # 0
      OBVIOUS
    <3> QED BY <3>1, ModRange
  <2>3. q > 0
    <3> SUFFICES ASSUME q <= 0 PROVE FALSE
      OBVIOUS
    <3>1. chunks * q <= 0
      BY <2>2
    <3> QED BY <2>1, <2>2, <3>1
  <2>4. size = q
    BY <2>1, <2>2
  <2> QED BY <2>3, <2>4
<1>2. PICK r \in 0 .. size - 1, q \in Int : n + size - 1 = size * q + r /\ used = q
  <2>1. PICK x \in Int : x = n + size - 1
    BY <1>1
  <2>2. PICK r \in 0 .. size - 1, q \in Int : x = size * q + r /\ q = x \div size
    <3>1. size \in Nat /\ size # 0
      BY <1>1
    <3> QED BY <3>1, ModRange
  <2>3. used = q
    BY <2>1, <2>2
  <2> QED BY <2>1, <2>2, <2>3
<1>3. size * used >= n /\ size * used - size < n
  BY ONLY <1>1, <1>2, n \in Nat
<1>4. used > 0
  <2> SUFFICES ASSUME used <= 0 PROVE FALSE
    BY <1>2
  <2>1. size * used <= 0
    BY ONLY <1>1, <1>2, used <= 0
  <2> QED BY <1>1, <1>3, <2>1
<1>5. ASSUME NEW tid \in Nat, tid < used
      PROVE  tid * size \in Nat /\ tid * size < n /\ (tid + 1) * size = tid * size + size
  <2>1. size \in Nat /\ used \in Nat /\ tid + 1 <= used
    BY <1>1, <1>2, <1>4, <1>5
  <2>2. PICK d \in Nat : used = (tid + 1) + d
    BY ONLY <2>1, tid \in Nat, Gap
  <2>3. size * used = (tid * size + size) + size * d /\ tid * size \in Nat /\ size * d \in Nat
    BY ONLY <2>1, <2>2, tid \in Nat
  <2>4. tid * size < n
    BY ONLY <1>3, <2>1, <2>3, n \in Nat
  <2>5. (tid + 1) * size = tid * size + size
    BY ONLY <2>1, tid \in Nat
  <2> QED BY <2>3, <2>4, <2>5
<1>6. used * size >= n
  BY ONLY <1>1, <1>2, <1>3, n \in Nat
<1> QED BY <1>1, <1>2, <1>4, <1>5, <1>6 DEF Tiles

\* gpu_poly_eval: Horner within each chunk, by one thread each, and then over the
\* chunks gives the value of the polynomial, whatever the length and the number
\* of chunks asked for, a last chunk that is not full included.
THEOREM PolyEvalThm ==
  ASSUME NEW n \in Nat \ {0}, NEW p \in Vec(n), NEW z \in F, NEW chunks \in Nat \ {0}
  PROVE  PolyEval(p, z, chunks) = Eval(p, z)
<1> DEFINE size == (n + chunks - 1) \div chunks
           used == (n + size - 1) \div size
           low(a, b) == IF a < b THEN a ELSE b
           partial(tid) == IF tid * size < low(tid * size + size, n)
                           THEN Eval(Slice(p, tid * size, low(tid * size + size, n)), z) ELSE 0
           partials == [tid \in Upto(used) |-> partial(tid)]
<1>1. PolyEval(p, z, chunks) = Eval(partials, Power(z, size))
  <2>1. Size(p) = n
    BY SizeIs DEF Vec
  <2> QED BY <2>1 DEF PolyEval
<1>2. /\ size \in Nat \ {0} /\ used \in Nat \ {0} /\ used * size >= n
      /\ \A tid \in Nat : tid < used => /\ tid * size \in Nat /\ tid * size < n
                                        /\ (tid + 1) * size = tid * size + size
  <2> HIDE DEF size, used
  <2>1. size = (n + chunks - 1) \div chunks
    BY DEF size
  <2>2. used = (n + size - 1) \div size
    BY DEF used
  <2>3. n \in Nat \ {0} /\ chunks \in Nat \ {0}
    OBVIOUS
  <2>4. Tiles(size, used, n)
    BY <2>1, <2>2, <2>3, Chunks
  <2> QED BY <2>4 DEF Tiles
<1> HIDE DEF size, used
<1>3. PICK h : IsHorner(h, n, p, z)
  BY HornerExists
<1>4. h \in [0 .. n -> F] /\ h[n] = 0
  BY <1>3 DEF IsHorner
<1> DEFINE H == [tid \in 0 .. used |-> h[low(tid * size, n)]]
<1>5. ASSUME NEW tid \in Nat, tid < used
      PROVE  /\ partials[tid] \in F /\ H[tid] = h[tid * size]
             /\ H[tid] = partials[tid] (+) (Power(z, size) (.) H[tid + 1])
  <2>1. PICK lo \in Nat : lo = tid * size /\ lo < n /\ (tid + 1) * size = lo + size
    BY <1>2, <1>5
  <2>2. PICK hi \in Nat : hi = low(lo + size, n) /\ lo < hi /\ hi <= n
    BY <1>2, <2>1
  <2> DEFINE v == Eval(Slice(p, lo, hi), z)
  <2>3. tid \in Upto(used) /\ tid \in 0 .. used /\ tid + 1 \in 0 .. used
    BY <1>2, <1>5, UptoIs
  <2>4. partials[tid] = v
    BY <2>1, <2>2, <2>3
  <2>5. H[tid] = h[lo] /\ H[tid + 1] = h[hi]
    BY <2>1, <2>2, <2>3
  <2>6. v \in F
    <3>1. PICK m \in Nat : m = hi - lo
      <4>1. lo < hi
        BY <2>2
      <4>2. hi - lo \in Nat
        BY ONLY <4>1, lo \in Nat, hi \in Nat
      <4> QED BY <4>2, Zenon
    <3>2. Slice(p, lo, hi) \in Vec(m)
      <4>1. \A k \in Upto(m) : lo + k \in Upto(n)
        BY <2>2, <3>1 DEF Upto
      <4> QED BY <3>1, <4>1 DEF Slice, Vec
    <3> QED BY <3>2, EvalType
  <2>7. h[lo] = v (+) (Power(z, hi - lo) (.) h[hi])
    BY <1>3, <2>2, SliceEval
  <2>8. Power(z, hi - lo) (.) h[hi] = Power(z, size) (.) h[hi]
    <3>1. CASE lo + size < n
      BY <1>2, <2>2, <3>1
    <3>2. CASE ~ (lo + size < n)
      <4>1. hi = n /\ hi - lo \in Nat
        BY <1>2, <2>2, <3>2
      <4>2. Power(z, hi - lo) \in F /\ Power(z, size) \in F
        BY <1>2, <4>1, PowerLaws
      <4> QED BY <1>4, <4>1, <4>2, Neutral
    <3> QED BY <3>1, <3>2
  <2> HIDE DEF partials, H, v
  <2> QED BY <2>1, <2>4, <2>5, <2>6, <2>7, <2>8
<1>6. partials \in Vec(used)
  <2> HIDE DEF partial
  <2>1. \A tid \in Upto(used) : partials[tid] \in F
    BY <1>2, <1>5, UptoIs
  <2> QED BY <2>1 DEF Vec
<1>7. H \in [0 .. used -> F] /\ H[used] = 0
  <2>1. ASSUME NEW tid \in 0 .. used PROVE h[low(tid * size, n)] \in F
    <3>1. tid * size \in Nat
      <4>1. tid \in Nat /\ size \in Nat
        BY <1>2
      <4> QED BY ONLY <4>1
    <3>2. low(tid * size, n) \in 0 .. n
      BY <3>1
    <3> HIDE DEF low
    <3> QED BY <1>4, <3>2
  <2>2. used \in 0 .. used /\ low(used * size, n) = n
    <3>1. PICK m \in Nat : m = used * size /\ m >= n
      <4>1. used \in Nat /\ size \in Nat
        BY <1>2
      <4>2. used * size \in Nat
        BY ONLY <4>1
      <4> QED BY <1>2, <4>2
    <3> QED BY <1>2, <3>1
  <2> HIDE DEF low
  <2> QED BY <1>4, <2>1, <2>2
<1> HIDE DEF H, partials
<1>8. IsHorner(H, used, partials, Power(z, size))
  BY <1>5, <1>7 DEF IsHorner
<1>9. Eval(partials, Power(z, size)) = H[0]
  <2>1. Power(z, size) \in F /\ used \in Nat
    BY <1>2, PowerLaws
  <2> QED BY <1>6, <1>8, <2>1, EvalIs, Zenon
<1>10. H[0] = h[0]
  <2>1. 0 < used /\ 0 * size = 0
    BY <1>2
  <2> QED BY <1>5, <2>1
<1> QED BY <1>1, <1>3, <1>9, <1>10, EvalIs

\* gpu_kzg_divide, by powers, a suffix scan and inverse powers, divides f(X) - f(a)
\* by X - a: the coefficients it returns are those of the quotient, and the value
\* of the quotient times t - a is f(t) - f(a) at every t.  It is so at every
\* nonzero a: the kernel scales by the powers of 1/a.
THEOREM KzgDivideThm ==
  ASSUME NEW n \in Nat \ {0}, NEW f \in Vec(n), NEW a \in F \ {0}
  PROVE  LET q == KzgDivide(f, a)
         IN  /\ q \in Vec(n - 1)
             /\ \A k \in Upto(n) :
                  f[k] = (IF k = 0 THEN Eval(f, a) ELSE q[k - 1])
                           (-) (IF k = n - 1 THEN 0 ELSE a (.) q[k])
             /\ \A t \in F : Eval(q, t) (.) (t (-) a) = Eval(f, t) (-) Eval(f, a)
<1>0. a \in F /\ Inv(a) \in F /\ n \in Nat /\ n - 1 \in Nat
  BY InverseIs
<1> DEFINE b    == [k \in Upto(n) |-> f[k] (.) Power(a, k)]
           s    == ScanAdd(Reversed(b))
           sums == Reversed(s)
           q    == [k \in Upto(n - 1) |-> sums[k + 1] (.) Power(Inv(a), k + 1)]
<1>1. PICK h : IsHorner(h, n, f, a)
  BY <1>0, HornerExists
<1>2. /\ h \in [0 .. n -> F] /\ h[n] = 0 /\ Eval(f, a) = h[0]
      /\ \A k \in Nat : k < n => h[k] = f[k] (+) (a (.) h[k + 1])
  BY <1>0, <1>1, EvalIs DEF IsHorner
<1>3. \A k \in Nat : k < n => /\ k \in Upto(n) /\ f[k] \in F /\ h[k] \in F /\ h[k + 1] \in F
                              /\ Power(a, k) \in F
  <2>1. \A k \in Nat : k < n => k \in 0 .. n /\ k + 1 \in 0 .. n /\ k \in Upto(n)
    BY UptoIs
  <2>2. \A k \in Upto(n) : f[k] \in F
    BY DEF Vec
  <2> QED BY <1>0, <1>2, <2>1, <2>2, PowerLaws
<1>4. b \in Vec(n) /\ \A k \in Nat : k < n => b[k] = f[k] (.) Power(a, k)
  <2>1. \A k \in Upto(n) : f[k] (.) Power(a, k) \in F
    BY <1>0, <1>3, UptoIs, Closed
  <2> QED BY <1>3, <2>1 DEF Vec
<1>5. KzgDivide(f, a) = q
  <2>1. DOMAIN f = Upto(n) /\ Size(f) = n
    BY SizeIs DEF Vec
  <2>2. Powers(a, n) = [k \in Upto(n) |-> Power(a, k)]
    BY <1>0, PowersAre
  <2>3. Powers(Inv(a), n) = [k \in Upto(n) |-> Power(Inv(a), k)]
    BY <1>0, PowersAre
  <2>4. [k \in DOMAIN f |-> f[k] (.) Powers(a, n)[k]] = b
    BY <2>1, <2>2
  <2> DEFINE invpow == Powers(Inv(a), n)
  <2>5. KzgDivide(f, a) = [k \in Upto(n - 1) |-> sums[k + 1] (.) invpow[k + 1]]
    <3> HIDE DEF b
    <3> QED BY <2>1, <2>4 DEF KzgDivide, KzgQuotient
  <2>6. \A k \in Upto(n - 1) : invpow[k + 1] = Power(Inv(a), k + 1)
    <3>1. \A k \in Upto(n - 1) : k + 1 \in Upto(n)
      BY DEF Upto
    <3> QED BY <2>3, <3>1
  <2> HIDE DEF invpow, sums
  <2> QED BY <2>5, <2>6
<1> HIDE DEF b
<1>6. \A v \in Vec(n) : Reversed(v) \in Vec(n) /\ \A k \in Nat : k < n => Reversed(v)[k] = v[n - 1 - k]
  <2> TAKE v \in Vec(n)
  <2>1. DOMAIN v = Upto(n) /\ Size(v) = n
    BY SizeIs DEF Vec
  <2>2. \A k \in Upto(n) : n - 1 - k \in Upto(n)
    BY UptoIs DEF Upto
  <2> QED BY <2>1, <2>2, UptoIs DEF Reversed, Vec
<1>7. s \in Vec(n) /\ s[0] = b[n - 1] /\ \A m \in Nat : m + 1 < n => s[m + 1] = s[m] (+) b[n - 1 - (m + 1)]
  <2>1. PICK r \in Vec(n) : r = Reversed(b) /\ \A k \in Nat : k < n => r[k] = b[n - 1 - k]
    BY <1>4, <1>6
  <2>2. /\ ScanAdd(r) \in Vec(n) /\ (n > 0 => ScanAdd(r)[0] = r[0])
        /\ \A k \in Nat : k + 1 < n => ScanAdd(r)[k + 1] = ScanAdd(r)[k] (+) r[k + 1]
    BY ScanAddIs
  <2>3. r[0] = b[n - 1] /\ n > 0
    BY <2>1
  <2>4. \A m \in Nat : m + 1 < n => r[m + 1] = b[n - 1 - (m + 1)]
    BY <2>1
  <2> QED BY <2>1, <2>2, <2>3, <2>4
<1>8. \A k \in Nat : k < n => sums[k] = s[n - 1 - k]
  BY <1>6, <1>7
<1> HIDE DEF s, sums
\* The suffix sum at k is the Horner value at k, scaled by the power of a.
<1>9. ASSUME NEW k \in Nat, k < n
      PROVE  Power(a, k) (.) h[k] = b[k] (+) (Power(a, k + 1) (.) h[k + 1])
  <2> DEFINE w == Power(a, k)
             c == f[k]
             d == h[k + 1]
  <2>1. w \in F /\ c \in F /\ d \in F
    BY <1>3, <1>9
  <2>2. Power(a, k + 1) = a (.) w /\ b[k] = c (.) w /\ h[k] = c (+) (a (.) d)
    BY <1>0, <1>2, <1>4, <1>9, PowerLaws
  <2>3. w (.) (c (+) (a (.) d)) = (c (.) w) (+) ((a (.) w) (.) d)
    <3> HIDE DEF w, c, d
    <3>1. a (.) d \in F
      BY <1>0, <2>1, Closed
    <3>2. w (.) (c (+) (a (.) d)) = (w (.) c) (+) (w (.) (a (.) d))
      BY <2>1, <3>1, Distributes
    <3>3. w (.) (a (.) d) = (a (.) w) (.) d /\ w (.) c = c (.) w
      BY <1>0, <2>1, Associates, Commutes
    <3> QED BY <3>2, <3>3
  <2> QED BY <2>2, <2>3
<1>10. \A k \in Nat : k < n => sums[k] = Power(a, k) (.) h[k]
  <2> DEFINE P == {m \in Nat : m < n => s[m] = Power(a, n - 1 - m) (.) h[n - 1 - m]}
  <2>1. 0 \in P
    <3>1. PICK k \in Nat : k = n - 1 /\ k < n /\ k + 1 = n /\ n - 1 - 0 = k
      BY <1>0
    <3>2. k + 1 \in Nat /\ h[k + 1] = 0 /\ b[k] \in F
      BY <1>2, <1>3, <1>4, <3>1 DEF Vec
    <3>3. Power(a, k + 1) (.) h[k + 1] = 0
      BY <1>0, <3>2, PowerLaws, Neutral
    <3>4. Power(a, k) (.) h[k] = b[k]
      BY <1>9, <3>1, <3>2, <3>3, Neutral
    <3> QED BY <1>7, <3>1, <3>4
  <2>2. ASSUME NEW m \in Nat, m \in P PROVE m + 1 \in P
    <3> SUFFICES ASSUME m + 1 < n
                 PROVE  s[m + 1] = Power(a, n - 1 - (m + 1)) (.) h[n - 1 - (m + 1)]
      OBVIOUS
    <3>1. PICK k \in Nat : k = n - 1 - (m + 1) /\ k + 1 = n - 1 - m /\ k < n /\ k + 1 < n /\ m < n
                          /\ k + 1 \in Nat
      OBVIOUS
    <3>2. s[m] = Power(a, k + 1) (.) h[k + 1] /\ s[m + 1] = s[m] (+) b[k]
      BY <1>7, <2>2, <3>1
    <3>3. s[m] \in F /\ b[k] \in F
      BY <1>3, <1>4, <1>7, <3>1, UptoIs DEF Vec
    <3>4. s[m + 1] = b[k] (+) (Power(a, k + 1) (.) h[k + 1])
      BY <3>2, <3>3, Commutes
    <3>5. s[m + 1] = Power(a, k) (.) h[k]
      BY <1>9, <3>1, <3>4
    <3> QED BY <3>1, <3>5
  <2>3. Nat \subseteq P
    <3> HIDE DEF P
    <3> QED BY <2>1, <2>2, Induction
  <2>4. ASSUME NEW k \in Nat, k < n PROVE sums[k] = Power(a, k) (.) h[k]
    <3>1. PICK m \in Nat : m = n - 1 - k /\ m < n /\ n - 1 - m = k
      BY <2>4
    <3>2. s[m] = Power(a, k) (.) h[k]
      BY <2>3, <3>1
    <3> QED BY <1>8, <2>4, <3>1, <3>2
  <2> QED BY <2>4
\* So the quotient is the tail of the Horner table.
<1>11. q \in Vec(n - 1) /\ \A k \in Nat : k + 1 < n => q[k] = h[k + 1]
  <2>1. ASSUME NEW k \in Nat, k + 1 < n
        PROVE  sums[k + 1] (.) Power(Inv(a), k + 1) = h[k + 1] /\ h[k + 1] \in F
    <3>1. PICK j \in Nat : j = k + 1 /\ j < n
      BY <2>1
    <3> DEFINE w == Power(a, j)
               c == h[j]
    <3>2. w \in F \ {0} /\ Power(Inv(a), j) = Inv(w) /\ c \in F
      BY <1>3, <3>1, PowersInvert
    <3>3. sums[j] = w (.) c
      BY <1>10, <3>1
    <3>4. (w (.) c) (.) Inv(w) = c
      <4> HIDE DEF w, c
      <4>1. Inv(w) \in F /\ w (.) Inv(w) = 1
        BY <3>2, InverseIs
      <4>2. (w (.) c) (.) Inv(w) = (w (.) Inv(w)) (.) c
        BY <3>2, <4>1, Associates, Commutes
      <4> QED BY <3>2, <4>1, <4>2, Neutral
    <3> QED BY <3>1, <3>2, <3>3, <3>4
  <2>2. \A k : k \in Upto(n - 1) <=> k \in Nat /\ k + 1 < n
    BY <1>0 DEF Upto
  <2> QED BY <2>1, <2>2 DEF Vec
<1> HIDE DEF q
<1>12. ASSUME NEW k \in Upto(n)
       PROVE  f[k] = (IF k = 0 THEN Eval(f, a) ELSE q[k - 1])
                       (-) (IF k = n - 1 THEN 0 ELSE a (.) q[k])
  <2>1. k \in Nat /\ k < n
    BY UptoIs
  <2>2. (IF k = 0 THEN Eval(f, a) ELSE q[k - 1]) = h[k]
    <3>1. CASE k = 0
      BY <1>2, <3>1
    <3>2. CASE k # 0
      <4>1. PICK j \in Nat : j = k - 1 /\ j + 1 = k
        BY <2>1, <3>2
      <4> QED BY <1>11, <2>1, <3>2, <4>1
    <3> QED BY <3>1, <3>2
  <2>3. (IF k = n - 1 THEN 0 ELSE a (.) q[k]) = a (.) h[k + 1]
    <3>1. CASE k = n - 1
      <4>1. k + 1 = n
        BY <3>1
      <4> QED BY <1>0, <1>2, <3>1, <4>1, Neutral
    <3>2. CASE k # n - 1
      <4>1. k + 1 < n
        BY <2>1, <3>2
      <4> QED BY <1>11, <2>1, <3>2, <4>1
    <3> QED BY <3>1, <3>2
  <2>4. f[k] \in F /\ a (.) h[k + 1] \in F /\ h[k] \in F
    BY <1>0, <1>3, <2>1, Closed
  <2>5. h[k] = f[k] (+) (a (.) h[k + 1])
    BY <1>2, <2>1
  <2>6. h[k] (-) (a (.) h[k + 1]) = f[k]
    BY <2>4, <2>5, Subtracts
  <2> QED BY <2>2, <2>3, <2>6
<1>13. ASSUME NEW t \in F PROVE Eval(q, t) (.) (t (-) a) = Eval(f, t) (-) Eval(f, a)
  <2>1. PICK d \in F : d = t (-) a /\ t = a (+) d
    <3>1. t (-) a \in F /\ (t (-) a) (+) a = t
      BY <1>0, Closed, Subtracts
    <3> QED BY <1>0, <3>1, Commutes
  <2>2. PICK e : IsHorner(e, n, f, t)
    BY <1>0, HornerExists
  <2>3. PICK g : IsHorner(g, n - 1, q, t)
    BY <1>0, <1>11, HornerExists
  <2>4. /\ e \in [0 .. n -> F] /\ e[n] = 0 /\ Eval(f, t) = e[0]
        /\ \A k \in Nat : k < n => e[k] = f[k] (+) (t (.) e[k + 1])
    BY <1>0, <2>2, EvalIs DEF IsHorner
  <2>5. /\ g \in [0 .. n - 1 -> F] /\ g[n - 1] = 0 /\ Eval(q, t) = g[0]
        /\ \A k \in Nat : k < n - 1 => g[k] = q[k] (+) (t (.) g[k + 1])
    <3>1. Eval(q, t) = g[0]
      <4>1. PICK j \in Nat : j = n - 1
        BY <1>0
      <4>2. q \in Vec(j) /\ IsHorner(g, j, q, t)
        BY <1>11, <2>3, <4>1
      <4> QED BY <4>2, EvalIs
    <3> QED BY <2>3, <3>1 DEF IsHorner
  <2> DEFINE P == {m \in Nat : m <= n - 1 => e[n - 1 - m] = h[n - 1 - m] (+) (d (.) g[n - 1 - m])}
  <2>6. 0 \in P
    <3>1. PICK k \in Nat : k = n - 1 /\ k < n /\ k + 1 = n /\ n - 1 - 0 = k
      BY <1>0
    <3>2. e[k] = f[k] (+) (t (.) 0) /\ h[k] = f[k] (+) (a (.) 0) /\ g[k] = 0
      BY <1>2, <2>4, <2>5, <3>1
    <3>3. e[k] = f[k] /\ h[k] = f[k] /\ d (.) g[k] = 0 /\ f[k] (+) 0 = f[k]
      BY <1>0, <1>3, <3>1, <3>2, Neutral
    <3> QED BY <3>1, <3>3
  <2>7. ASSUME NEW m \in Nat, m \in P PROVE m + 1 \in P
    <3> SUFFICES ASSUME m + 1 <= n - 1
                 PROVE  e[n - 1 - (m + 1)] = h[n - 1 - (m + 1)] (+) (d (.) g[n - 1 - (m + 1)])
      OBVIOUS
    <3>1. PICK k \in Nat : /\ k = n - 1 - (m + 1) /\ k + 1 = n - 1 - m /\ k < n /\ k < n - 1
                          /\ k + 1 < n /\ m <= n - 1 /\ k + 1 \in 0 .. n - 1
      BY <1>0
    <3> DEFINE c == f[k]
               u == h[k + 1]
               v == g[k + 1]
    <3>2. c \in F /\ u \in F /\ v \in F
      BY <1>3, <2>5, <3>1
    <3>3. e[k] = c (+) (t (.) (u (+) (d (.) v)))
      <4>1. e[k + 1] = h[k + 1] (+) (d (.) g[k + 1])
        BY <2>7, <3>1
      <4> QED BY <2>4, <3>1, <4>1
    <3>4. h[k] = c (+) (a (.) u) /\ g[k] = u (+) (t (.) v)
      BY <1>2, <1>11, <2>5, <3>1
    <3>5. c (+) (t (.) (u (+) (d (.) v))) = (c (+) (a (.) u)) (+) (d (.) (u (+) (t (.) v)))
      <4> HIDE DEF c, u, v
      <4>1. /\ a (.) u \in F /\ d (.) u \in F /\ d (.) v \in F /\ t (.) v \in F /\ t (.) u \in F
            /\ t (.) (d (.) v) \in F
        BY <1>0, <2>1, <3>2, Closed
      <4>2. t (.) (u (+) (d (.) v)) = (t (.) u) (+) (t (.) (d (.) v))
        BY <3>2, <4>1, Distributes
      <4>3. d (.) (u (+) (t (.) v)) = (d (.) u) (+) (d (.) (t (.) v))
        BY <2>1, <3>2, <4>1, Distributes
      <4>4. d (.) (t (.) v) = t (.) (d (.) v)
        BY <2>1, <3>2, Associates, Commutes
      <4>5. t (.) u = (a (.) u) (+) (d (.) u)
        BY <1>0, <2>1, <3>2, Distributes
      <4> DEFINE x == a (.) u
                 y == d (.) u
                 w == t (.) (d (.) v)
      <4>6. c (+) ((x (+) y) (+) w) = (c (+) x) (+) (y (+) w)
        <5>1. x \in F /\ y \in F /\ w \in F
          BY <4>1
        <5> HIDE DEF x, y, w
        <5>2. x (+) y \in F /\ y (+) w \in F
          BY <5>1, Closed
        <5>3. (x (+) y) (+) w = x (+) (y (+) w)
          BY <5>1, Associates
        <5>4. c (+) (x (+) (y (+) w)) = (c (+) x) (+) (y (+) w)
          BY <3>2, <5>1, <5>2, Associates
        <5> QED BY <5>3, <5>4
      <4> QED BY <4>2, <4>3, <4>4, <4>5, <4>6
    <3> HIDE DEF c, u, v
    <3> QED BY <3>1, <3>3, <3>4, <3>5
  <2>8. Nat \subseteq P
    <3> HIDE DEF P
    <3> QED BY <2>6, <2>7, Induction
  <2>9. e[0] = h[0] (+) (d (.) g[0])
    <3>1. PICK m \in Nat : m = n - 1 /\ m <= n - 1 /\ n - 1 - m = 0
      BY <1>0
    <3> QED BY <2>8, <3>1
  <2>10. h[0] \in F /\ g[0] \in F /\ d (.) g[0] \in F
    <3>1. 0 \in 0 .. n - 1 /\ 0 \in 0 .. n
      BY <1>0
    <3> QED BY <1>2, <2>1, <2>5, <3>1, Closed
  <2>11. e[0] (-) h[0] = d (.) g[0]
    BY <2>9, <2>10, Subtracts
  <2>12. d (.) g[0] = g[0] (.) d
    BY <2>1, <2>10, Commutes
  <2> QED BY <1>2, <2>1, <2>4, <2>5, <2>11, <2>12
<1> QED BY <1>5, <1>11, <1>12, <1>13
===============================================================================
