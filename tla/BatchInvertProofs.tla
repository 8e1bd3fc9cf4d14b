-------------------------- MODULE BatchInvertProofs --------------------------
(***************************************************************************)
(* batchInvert inverts every vector of any length, cut into chunks for any *)
(* number of CPUs, over any commutative group, and its goroutines share no *)
(* entry.                                                                  *)
(*                                                                         *)
(* The first round leaves the running products of each chunk, the last of  *)
(* which is the product W(c) of chunk c.  The loops over the chunk         *)
(* products keep prefixBefore[c] * W(c) * suffixAfter[c] equal to the      *)
(* product of everything, whatever c, so that acc becomes the inverse of   *)
(* the running product the backward walk stands on, and stays it.          *)
(***************************************************************************)
EXTENDS BatchInvert, TLAPS

base  == n \div nbTasks
extra == n % nbTasks

\* Chunks 0 .. k-1, with starts s and ends f, lie one after the other in
\* 0 .. e-1 and cover it.
CutOf(s, f, k, e) ==
  /\ s \in [0 .. k - 1 -> Nat] /\ f \in [0 .. k - 1 -> Nat]
  /\ \A c \in 0 .. k - 1 : s[c] < f[c] /\ f[c] <= e
  /\ \A c, d \in 0 .. k - 1 : c < d => f[c] <= s[d]
  /\ \A c \in 1 .. k - 1 : s[c] = f[c - 1]
  /\ \A x \in 0 .. e - 1 : \E c \in 0 .. k - 1 : s[c] <= x /\ x < f[c]
  /\ IF k = 0 THEN e = 0 ELSE s[0] = 0 /\ f[k - 1] = e

Cut(k, e) == CutOf(chunkStarts, chunkEnds, k, e)

\* Entry x of chunk c holds the product of the chunk up to x.
Running(c, x) ==
  vec[x] = IF x = chunkStarts[c] THEN buf[x] ELSE Mul(vec[x - 1], buf[x])

\* The product of chunk c, as long as the backward round has not started.
W(c) == vec[chunkEnds[c] - 1]

RunningChunk(c) == \A x \in chunkStarts[c] .. chunkEnds[c] - 1 : Running(c, x)

Rounds == {"forward", "prefix", "suffix", "combine", "backward"}

BaseInv ==
  /\ n \in Nat /\ nbTasks \in Nat \ {0} /\ i \in Int
  /\ vec \in [Indices -> F] /\ buf \in [Indices -> F] /\ input \in [Indices -> F]
  /\ acc \in F
  /\ pc \in {"start", "serial", "serial.back", "split", "done"} \cup Rounds
  /\ pc = "start" => vec = input
  /\ pc \notin {"start", "done"} => n > 1 /\ buf = input /\ nbTasks <= n
  /\ pc \in Rounds => Cut(nbTasks, n)

\* What is still as it was before the chunks are cut.
FreshInv ==
  /\ pc = "start" => start = 0 /\ chunkStarts = [c \in {} |-> 0] /\ chunkEnds = chunkStarts
  /\ pc \in {"start", "split"} => chunkProd = [c \in {} |-> One]
  /\ pc \in {"start", "split", "forward"} => prefixBefore = [c \in {} |-> One]
  /\ pc \in {"start", "split", "forward", "prefix"} => suffixAfter = [c \in {} |-> One]

SerialInv ==
  /\ pc = "serial" =>
       /\ i \in 1 .. n /\ vec[0] = buf[0]
       /\ \A x \in 1 .. i - 1 : vec[x] = Mul(buf[x], vec[x - 1])
       /\ \A x \in i .. n - 1 : vec[x] = buf[x]
  /\ pc = "serial.back" =>
       /\ i \in 0 .. n - 1 /\ vec[0] = buf[0]
       /\ \A x \in 1 .. i : vec[x] = Mul(buf[x], vec[x - 1])
       /\ Mul(acc, vec[i]) = One
       /\ \A x \in i + 1 .. n - 1 : Mul(vec[x], buf[x]) = One

SplitInv ==
  pc = "split" => /\ i \in 0 .. nbTasks
                  /\ start = i * base + (IF i < extra THEN i ELSE extra)
                  /\ Cut(i, start)

ForwardInv ==
  pc = "forward" =>
    /\ at \in [Tasks -> Int]
    /\ DOMAIN chunkProd \subseteq Tasks
    /\ \A c \in Tasks :
         /\ chunkStarts[c] <= at[c] /\ at[c] <= chunkEnds[c] + 1
         /\ \A x \in chunkStarts[c] .. chunkEnds[c] - 1 : x < at[c] => Running(c, x)
         /\ at[c] > chunkEnds[c] => c \in DOMAIN chunkProd /\ chunkProd[c] = W(c)
    /\ chunkProd = [c \in DOMAIN chunkProd |-> chunkProd[c]]

ProductsInv ==
  /\ pc \in {"prefix", "suffix", "combine"} =>
       at \in [Tasks -> Int] /\ \A c \in Tasks : RunningChunk(c)
  /\ pc \in {"prefix", "suffix"} => chunkProd = [c \in Tasks |-> W(c)]
  /\ pc = "prefix" =>
       /\ i \in 1 .. nbTasks /\ prefixBefore \in [0 .. i - 1 -> F]
       /\ \A k \in 1 .. i - 1 : prefixBefore[k] = Mul(prefixBefore[k - 1], W(k - 1))
  /\ pc = "suffix" =>
       /\ i \in -1 .. nbTasks - 2 /\ prefixBefore \in [Tasks -> F]
       /\ suffixAfter \in [i + 1 .. nbTasks - 1 -> F]
       /\ \A k \in 1 .. nbTasks - 1 : prefixBefore[k] = Mul(prefixBefore[k - 1], W(k - 1))
       /\ \A k \in i + 1 .. nbTasks - 1 :
            Mul(Mul(prefixBefore[k], W(k)), suffixAfter[k]) =
            Mul(prefixBefore[nbTasks - 1], W(nbTasks - 1))
  /\ pc = "combine" =>
       /\ i \in 0 .. nbTasks
       /\ prefixBefore \in [Tasks -> F] /\ suffixAfter \in [Tasks -> F]
       /\ chunkProd \in [Tasks -> F]
       /\ \A k \in Tasks : Mul(acc, Mul(Mul(prefixBefore[k], W(k)), suffixAfter[k])) = One
       /\ \A k \in 0 .. i - 1 : Mul(chunkProd[k], W(k)) = One

BackwardInv ==
  pc = "backward" =>
    /\ at \in [Tasks -> Int] /\ accs \in [Tasks -> F] /\ chunkProd \in [Tasks -> F]
    /\ \A c \in Tasks :
         /\ chunkStarts[c] - 1 <= at[c] /\ at[c] <= chunkEnds[c] - 1
         /\ at[c] >= chunkStarts[c] => Mul(accs[c], vec[at[c]]) = One
         /\ \A x \in chunkStarts[c] .. at[c] : Running(c, x)
         /\ \A x \in at[c] + 1 .. chunkEnds[c] - 1 : Mul(vec[x], buf[x]) = One

IInv ==
  BaseInv /\ FreshInv /\ SerialInv /\ SplitInv /\ ForwardInv /\ ProductsInv /\ BackwardInv
  /\ Inverted

-------------------------------------------------------------------------------
(* The group, the division of n among the tasks, and With.                 *)

\* Mul in the forms the steps need.
LEMMA MulFacts ==
  /\ One \in F
  /\ \A a \in F : Inv(a) \in F /\ Mul(Inv(a), a) = One /\ Mul(a, One) = a
  /\ \A a, b \in F : Mul(a, b) \in F /\ Mul(a, b) = Mul(b, a)
  /\ \A a, b, c \in F : Mul(Mul(a, b), c) = Mul(a, Mul(b, c))
  BY GroupAssumption

\* A step of a backward walk: acc inverts the running product v = p * b.
LEMMA BackwardAlgebra ==
  ASSUME NEW a \in F, NEW p \in F, NEW b \in F, Mul(a, Mul(p, b)) = One
  PROVE  /\ Mul(p, a) \in F /\ Mul(a, b) \in F
         /\ Mul(Mul(p, a), b) = One /\ Mul(Mul(a, b), p) = One
<1>1. Mul(p, a) = Mul(a, p) /\ Mul(b, p) = Mul(p, b)  BY MulFacts
<1>2. Mul(Mul(a, p), b) = Mul(a, Mul(p, b))  BY MulFacts
<1>3. Mul(Mul(a, b), p) = Mul(a, Mul(b, p))  BY MulFacts
<1> QED  BY <1>1, <1>2, <1>3, MulFacts

\* A step of the loop over the suffixes: p * w is the prefix of the chunk that
\* has product x and suffix s.
LEMMA SuffixAlgebra ==
  ASSUME NEW q \in F, NEW x \in F, NEW s \in F
  PROVE  Mul(q, Mul(s, x)) = Mul(Mul(q, x), s)
<1>1. Mul(s, x) = Mul(x, s)  BY MulFacts
<1> QED  BY <1>1, MulFacts

\* A step of the loop over the inverses of the chunks.
LEMMA CombineAlgebra ==
  ASSUME NEW t \in F, NEW p \in F, NEW w \in F, NEW s \in F
  PROVE  Mul(Mul(Mul(t, p), s), w) = Mul(t, Mul(Mul(p, w), s))
<1>1. Mul(t, p) \in F /\ Mul(s, w) \in F /\ Mul(w, s) \in F /\ Mul(p, w) \in F  BY MulFacts
<1>2. Mul(Mul(Mul(t, p), s), w) = Mul(Mul(t, p), Mul(s, w))  BY <1>1, MulFacts
<1>3. Mul(Mul(t, p), Mul(s, w)) = Mul(t, Mul(p, Mul(s, w)))  BY <1>1, MulFacts
<1>4. Mul(s, w) = Mul(w, s)  BY MulFacts
<1>5. Mul(p, Mul(w, s)) = Mul(Mul(p, w), s)  BY MulFacts
<1> QED  BY <1>2, <1>3, <1>4, <1>5

\* n divided among d tasks.
LEMMA Division ==
  ASSUME NEW x \in Nat, NEW d \in Nat \ {0}
  PROVE  /\ x \div d \in Nat /\ x % d \in 0 .. d - 1
         /\ x = d * (x \div d) + (x % d)
  OBVIOUS

\* With changes one place.
LEMMA WithFacts ==
  ASSUME NEW f, NEW c, NEW v
  PROVE  /\ DOMAIN With(f, c, v) = DOMAIN f \cup {c}
         /\ With(f, c, v)[c] = v
         /\ \A k \in DOMAIN f \ {c} : With(f, c, v)[k] = f[k]
         /\ With(f, c, v) = [k \in DOMAIN f \cup {c} |-> With(f, c, v)[k]]
  BY DEF With

\* In the range of one chunk there is no entry of another.
LEMMA Apart ==
  ASSUME Cut(nbTasks, n), nbTasks \in Nat, NEW c \in Tasks, NEW d \in Tasks, c # d,
         NEW x \in Int, chunkStarts[c] <= x, x < chunkEnds[c]
  PROVE  ~(chunkStarts[d] <= x /\ x < chunkEnds[d])
<1>1. c \in Int /\ d \in Int /\ c \in 0 .. nbTasks - 1 /\ d \in 0 .. nbTasks - 1  BY DEF Tasks
<1>2. /\ chunkStarts[c] \in Nat /\ chunkEnds[c] \in Nat
      /\ chunkStarts[d] \in Nat /\ chunkEnds[d] \in Nat
  BY <1>1 DEF Cut, CutOf
<1>3. CASE c < d
  <2>1. chunkEnds[c] <= chunkStarts[d]  BY <1>1, <1>3 DEF Cut, CutOf
  <2> QED  BY <1>2, <2>1
<1>4. CASE d < c
  <2>1. chunkEnds[d] <= chunkStarts[c]  BY <1>1, <1>4 DEF Cut, CutOf
  <2> QED  BY <1>2, <2>1
<1> QED  BY <1>1, <1>3, <1>4

-------------------------------------------------------------------------------
(* The inductive invariant.                                                *)

LEMMA InitInv == Init => IInv
<1> SUFFICES ASSUME Init PROVE IInv  OBVIOUS
<1>1. BaseInv  BY SizesAssumption, GroupAssumption DEF Init, BaseInv, Indices, Rounds
<1>2. FreshInv  BY DEF Init, FreshInv
<1> QED  BY <1>1, <1>2 DEF Init, IInv, SerialInv, SplitInv, ForwardInv, ProductsInv,
                           BackwardInv, Inverted

LEMMA BeginInv == ASSUME IInv, Begin PROVE IInv'
<1> USE DEF IInv
<1>1. BaseInv'
  <2>1. /\ n \in Nat /\ nbTasks \in Nat \ {0} /\ vec \in [0 .. n - 1 -> F]
        /\ buf \in [0 .. n - 1 -> F] /\ input = vec /\ acc \in F
    BY DEF Begin, BaseInv, Indices
  <2>2. n' = n /\ input' = input /\ acc' = acc  BY DEF Begin
  <2>3. nbTasks' \in Nat \ {0} /\ i' \in Int /\ (n > 1 => nbTasks' <= n)
    BY <2>1 DEF Begin, BaseInv
  <2>4. vec' \in [0 .. n - 1 -> F] /\ buf' \in [0 .. n - 1 -> F]
    <3>1. CASE n = 1
      <4>1. Inv(vec[0]) \in F  BY <2>1, <3>1, MulFacts
      <4> QED  BY <2>1, <3>1, <4>1 DEF Begin
    <3> QED  BY <2>1, <3>1 DEF Begin, arrays
  <2>5. /\ pc' \in {"serial", "split", "done"}
        /\ pc' # "done" => n > 1 /\ buf' = input
    BY <2>1 DEF Begin
  <2>6. pc' \notin Rounds  BY <2>5 DEF Rounds
  <2> QED  BY <2>1, <2>2, <2>3, <2>4, <2>5, <2>6 DEF BaseInv, Indices
<1>2. FreshInv'  BY DEF Begin, FreshInv, chunks, prods
<1>3. SerialInv'
  BY DEF Begin, SerialInv, BaseInv, Indices, arrays
<1>4. SplitInv'
  <2> SUFFICES ASSUME pc' = "split" PROVE SplitInv'  BY DEF SplitInv
  <2>1. i' = 0 /\ start' = 0 /\ nbTasks' \in Nat \ {0} /\ n' \in Nat
    BY DEF Begin, FreshInv, BaseInv, chunks
  <2>2. base' \in Nat /\ extra' \in Nat
    <3> DEFINE m == n'  t == nbTasks'
    <3>1. m \in Nat /\ t \in Nat \ {0}  BY <2>1
    <3> HIDE DEF m, t
    <3>2. m \div t \in Nat /\ m % t \in 0 .. t - 1  BY <3>1, Division
    <3>3. m \div t \in Nat /\ m % t \in Nat  BY <3>1, <3>2
    <3> QED  BY <3>3 DEF base, extra, m, t
  <2>3. Cut(0, 0)'  BY DEF Begin, FreshInv, Cut, CutOf, chunks
  <2>4. start' = i' * base' + (IF i' < extra' THEN i' ELSE extra')
    <3>1. \A b, e \in Nat : 0 = 0 * b + (IF 0 < e THEN 0 ELSE e)  OBVIOUS
    <3> HIDE DEF base, extra
    <3> QED  BY <2>1, <2>2, <3>1
  <2> QED  BY <2>1, <2>3, <2>4 DEF SplitInv
<1>5. Inverted'
  <2> SUFFICES ASSUME pc' = "done" PROVE Inverted'  BY DEF Inverted
  <2>1. CASE n = 0  BY <2>1 DEF Begin, Inverted, Indices, arrays
  <2>2. CASE n = 1
    <3>1. Indices = {0} /\ Indices' = {0}  BY <2>2 DEF Begin, Indices
    <3>2. vec'[0] = Inv(vec[0]) /\ input'[0] = vec[0] /\ vec[0] \in F
      BY <2>2, <3>1 DEF Begin, BaseInv
    <3> QED  BY <3>1, <3>2, MulFacts DEF Inverted
  <2> QED  BY <2>1, <2>2 DEF Begin
<1>6. ForwardInv' /\ ProductsInv' /\ BackwardInv'
  BY DEF Begin, ForwardInv, ProductsInv, BackwardInv
<1> QED  BY <1>1, <1>2, <1>3, <1>4, <1>5, <1>6

LEMMA SerialForwardInv == ASSUME IInv, SerialForward PROVE IInv'
<1> USE DEF IInv
<1>1. n \in Nat /\ n > 1 /\ i \in 1 .. n /\ vec \in [0 .. n - 1 -> F] /\ buf \in [0 .. n - 1 -> F]
  BY DEF SerialForward, BaseInv, SerialInv, Indices
<1>2. BaseInv'
  <2>1. vec' \in [0 .. n - 1 -> F] /\ acc' \in F /\ i' \in Int
    <3>1. CASE i < n
      <4>1. vec[i] \in F /\ vec[i - 1] \in F  BY <1>1, <3>1
      <4>2. Mul(vec[i], vec[i - 1]) \in F  BY <4>1, MulFacts
      <4> QED  BY <1>1, <3>1, <4>2 DEF SerialForward, BaseInv
    <3>2. CASE ~(i < n)
      <4>1. vec[n - 1] \in F  BY <1>1
      <4> QED  BY <1>1, <3>2, <4>1, MulFacts DEF SerialForward
    <3> QED  BY <3>1, <3>2
  <2>2. pc' \in {"serial", "serial.back"} /\ pc' \notin Rounds
    BY DEF SerialForward, Rounds
  <2>3. n' = n /\ nbTasks' = nbTasks /\ buf' = buf /\ input' = input  BY DEF SerialForward
  <2>4. nbTasks \in Nat \ {0} /\ input = buf /\ nbTasks <= n  BY DEF SerialForward, BaseInv
  <2> QED  BY <1>1, <2>1, <2>2, <2>3, <2>4 DEF BaseInv, Indices
<1>3. SerialInv'
  <2>1. CASE i < n
    BY <1>1, <2>1 DEF SerialForward, SerialInv
  <2>2. CASE ~(i < n)
    <3>1. Mul(Inv(vec[n - 1]), vec[n - 1]) = One  BY <1>1, MulFacts
    <3> QED  BY <1>1, <2>2, <3>1 DEF SerialForward, SerialInv
  <2> QED  BY <2>1, <2>2
<1> QED  BY <1>2, <1>3 DEF SerialForward, FreshInv, SplitInv, ForwardInv, ProductsInv,
                           BackwardInv, Inverted

LEMMA SerialBackwardInv == ASSUME IInv, SerialBackward PROVE IInv'
<1> USE DEF IInv
<1>1. /\ n \in Nat /\ n > 1 /\ i \in 0 .. n - 1 /\ vec \in [0 .. n - 1 -> F]
      /\ buf \in [0 .. n - 1 -> F] /\ acc \in F /\ Mul(acc, vec[i]) = One
  BY DEF SerialBackward, BaseInv, SerialInv, Indices
<1>2. CASE i > 0
  <2>1. vec[i - 1] \in F /\ buf[i] \in F /\ vec[i] = Mul(vec[i - 1], buf[i])
    <3>1. vec[i] = Mul(buf[i], vec[i - 1])  BY <1>1, <1>2 DEF SerialBackward, SerialInv
    <3> QED  BY <1>1, <1>2, <3>1, MulFacts
  <2>2. /\ Mul(vec[i - 1], acc) \in F /\ Mul(acc, buf[i]) \in F
        /\ Mul(Mul(vec[i - 1], acc), buf[i]) = One /\ Mul(Mul(acc, buf[i]), vec[i - 1]) = One
    BY <1>1, <2>1, BackwardAlgebra
  <2>3. Mul(acc, vec[i - 1]) = Mul(vec[i - 1], acc)  BY <1>1, <2>1, MulFacts
  <2>4. BaseInv'
    BY <1>1, <1>2, <2>2, <2>3
       DEF SerialBackward, BaseInv, Indices, Rounds, chunks, prods, arrays
  <2>5. SerialInv'
    BY <1>1, <1>2, <2>2, <2>3 DEF SerialBackward, SerialInv
  <2> QED  BY <1>2, <2>4, <2>5 DEF SerialBackward, FreshInv, SplitInv, ForwardInv,
              ProductsInv, BackwardInv, Inverted
<1>3. CASE ~(i > 0)
  <2>1. i = 0 /\ vec[0] = buf[0] /\ input = buf
    BY <1>1, <1>3 DEF SerialBackward, SerialInv, BaseInv
  <2>2. BaseInv'
    BY <1>1, <1>3 DEF SerialBackward, BaseInv, Indices, Rounds, chunks, prods, arrays
  <2>3. Inverted'
    BY <1>1, <1>3, <2>1 DEF SerialBackward, SerialInv, Inverted, Indices
  <2> QED  BY <1>3, <2>2, <2>3 DEF SerialBackward, FreshInv, SerialInv, SplitInv, ForwardInv,
              ProductsInv, BackwardInv
<1> QED  BY <1>2, <1>3

\* The next chunk starts where the last one ended.
LEMMA CutGrows ==
  ASSUME NEW s, NEW f, NEW k \in Nat, NEW e \in Nat, NEW e2 \in Nat, e < e2,
         CutOf(s, f, k, e)
  PROVE  CutOf(With(s, k, e), With(f, k, e2), k + 1, e2)
<1> DEFINE s2 == With(s, k, e)  f2 == With(f, k, e2)
<1>1. s \in [0 .. k - 1 -> Nat] /\ f \in [0 .. k - 1 -> Nat]  BY DEF CutOf
<1>2. (0 .. k - 1) \cup {k} = 0 .. k /\ k + 1 - 1 = k  OBVIOUS
<1>3. /\ s2 \in [0 .. k -> Nat] /\ f2 \in [0 .. k -> Nat]
      /\ s2[k] = e /\ f2[k] = e2
      /\ \A c \in 0 .. k - 1 : s2[c] = s[c] /\ f2[c] = f[c]
  BY <1>1, <1>2 DEF With
<1> HIDE DEF s2, f2
<1>4. \A c \in 0 .. k - 1 : s[c] < f[c] /\ f[c] <= e  BY DEF CutOf
<1>5. \A c \in 0 .. k : s2[c] < f2[c] /\ f2[c] <= e2
  <2> TAKE c \in 0 .. k
  <2>1. CASE c = k  BY <2>1, <1>3
  <2>2. CASE c # k
    <3>1. c \in 0 .. k - 1 /\ s[c] \in Nat /\ f[c] \in Nat  BY <2>2, <1>1
    <3> QED  BY <3>1, <1>3, <1>4
  <2> QED  BY <2>1, <2>2
<1>6. \A c, d \in 0 .. k : c < d => f2[c] <= s2[d]
  <2> TAKE c, d \in 0 .. k
  <2> HAVE c < d
  <2>1. c \in 0 .. k - 1 /\ f2[c] = f[c]  BY <1>3
  <2>2. CASE d = k  BY <2>1, <2>2, <1>3, <1>4
  <2>3. CASE d # k
    <3>1. d \in 0 .. k - 1 /\ s2[d] = s[d]  BY <2>3, <1>3
    <3> QED  BY <2>1, <3>1 DEF CutOf
  <2> QED  BY <2>2, <2>3
<1>7. \A c \in 1 .. k : s2[c] = f2[c - 1]
  <2> TAKE c \in 1 .. k
  <2>1. c - 1 \in 0 .. k - 1 /\ f2[c - 1] = f[c - 1]  BY <1>3
  <2>2. CASE c = k
    <3>1. k # 0  BY <2>2
    <3>2. f[k - 1] = e  BY <3>1 DEF CutOf
    <3> QED  BY <2>1, <2>2, <3>2, <1>3
  <2>3. CASE c # k
    <3>1. c \in 1 .. k - 1 /\ c \in 0 .. k - 1  BY <2>3
    <3>2. s[c] = f[c - 1]  BY <3>1 DEF CutOf
    <3> QED  BY <2>1, <3>1, <3>2, <1>3
  <2> QED  BY <2>2, <2>3
<1>8. \A x \in 0 .. e2 - 1 : \E c \in 0 .. k : s2[c] <= x /\ x < f2[c]
  <2> TAKE x \in 0 .. e2 - 1
  <2>1. CASE x < e
    <3>0. x \in 0 .. e - 1  BY <2>1
    <3>1. PICK c \in 0 .. k - 1 : s[c] <= x /\ x < f[c]  BY <3>0 DEF CutOf
    <3>2. c \in 0 .. k /\ s2[c] <= x /\ x < f2[c]  BY <3>1, <1>3
    <3> QED  BY <3>2
  <2>2. CASE ~(x < e)
    <3>1. k \in 0 .. k /\ s2[k] <= x /\ x < f2[k]  BY <2>2, <1>3
    <3> QED  BY <3>1
  <2> QED  BY <2>1, <2>2
<1>9. s2[0] = 0 /\ f2[k] = e2
  <2>1. CASE k = 0
    <3>1. e = 0  BY <2>1 DEF CutOf
    <3> QED  BY <2>1, <3>1, <1>3
  <2>2. CASE k # 0
    <3>1. s[0] = 0 /\ 0 \in 0 .. k - 1  BY <2>2 DEF CutOf
    <3> QED  BY <3>1, <1>3
  <2> QED  BY <2>1, <2>2
<1>10. CutOf(s2, f2, k + 1, e2)
  BY <1>2, <1>3, <1>5, <1>6, <1>7, <1>8, <1>9 DEF CutOf
<1> QED  BY <1>10 DEF s2, f2

LEMMA SplitStep == ASSUME IInv, Split PROVE IInv'
<1> USE DEF IInv
<1> DEFINE b == base  x == extra
<1>1. /\ n \in Nat /\ nbTasks \in Nat \ {0} /\ nbTasks <= n /\ i \in 0 .. nbTasks
      /\ Cut(i, start) /\ start = i * base + (IF i < extra THEN i ELSE extra)
  BY DEF Split, BaseInv, SplitInv
<1>2. b \in Nat /\ x \in Nat /\ x < nbTasks /\ n = nbTasks * b + x
  <2>1. n \div nbTasks \in Nat /\ n % nbTasks \in 0 .. nbTasks - 1
        /\ n = nbTasks * (n \div nbTasks) + (n % nbTasks)
    BY <1>1, Division
  <2> QED  BY <1>1, <2>1 DEF base, extra
<1>3. /\ n' = n /\ nbTasks' = nbTasks /\ arrays' = arrays /\ acc' = acc /\ prods' = prods
      /\ input' = input /\ pc = "split"
  BY DEF Split
<1>4. base' = base /\ extra' = extra  BY <1>3 DEF base, extra
<1>5. CASE i < nbTasks
  <2>1. /\ start' = start + ChunkSize(i) /\ i' = i + 1 /\ pc' = "split"
        /\ chunkStarts' = With(chunkStarts, i, start)
        /\ chunkEnds' = With(chunkEnds, i, start')
    BY <1>5 DEF Split
  <2>2. ChunkSize(i) = b + IF i < x THEN 1 ELSE 0  BY DEF ChunkSize, base, extra
  <2>3. start = i * b + (IF i < x THEN i ELSE x)  BY <1>1
  <2> HIDE DEF b, x
  <2>4. b >= 1
    <3>1. b # 0  BY <1>1, <1>2
    <3> QED  BY <1>2, <3>1
  <2>5. start \in Nat
    <3>1. i * b \in Nat  BY <1>1, <1>2
    <3> QED  BY <1>1, <1>2, <2>3, <3>1
  <2>6. start' \in Nat /\ start < start'  BY <1>2, <2>1, <2>2, <2>4, <2>5
  <2>7. start' = (i + 1) * b + (IF i + 1 < x THEN i + 1 ELSE x)
    <3>1. (i + 1) * b = i * b + b /\ i * b \in Nat  BY <1>1, <1>2
    <3> QED  BY <1>1, <1>2, <2>1, <2>2, <2>3, <3>1
  <2>8. CutOf(chunkStarts', chunkEnds', i + 1, start')
    BY <1>1, <2>1, <2>5, <2>6, CutGrows DEF Cut
  <2>9. SplitInv'
    BY <1>1, <1>3, <1>4, <1>5, <2>1, <2>7, <2>8 DEF SplitInv, Cut, b, x
  <2>10. BaseInv'
    BY <1>1, <1>3, <1>5, <2>1 DEF BaseInv, arrays, Indices, Rounds
  <2> QED  BY <1>3, <2>1, <2>9, <2>10 DEF FreshInv, SerialInv, ForwardInv, ProductsInv,
              BackwardInv, Inverted, prods
<1>6. CASE ~(i < nbTasks)
  <2>1. /\ i = nbTasks /\ pc' = "forward" /\ at' = chunkStarts /\ i' = i
        /\ chunkStarts' = chunkStarts /\ chunkEnds' = chunkEnds
    BY <1>1, <1>6 DEF Split, chunks
  <2>2. start = n
    <3>1. start = nbTasks * b + x  BY <1>1, <1>2, <2>1
    <3> QED  BY <1>2, <3>1
  <2>3. Cut(nbTasks, n)  BY <1>1, <2>1, <2>2
  <2>4. Cut(nbTasks, n)'  BY <2>1, <2>3, <1>3 DEF Cut
  <2>5. BaseInv'
    BY <1>1, <1>3, <2>1, <2>4 DEF BaseInv, arrays, Indices, Rounds
  <2>6. ForwardInv'
    <3>1. /\ chunkStarts \in [Tasks -> Nat] /\ chunkEnds \in [Tasks -> Nat]
          /\ \A c \in Tasks : chunkStarts[c] < chunkEnds[c]
      BY <2>3 DEF Cut, CutOf, Tasks
    <3>2. Tasks' = Tasks  BY <1>3 DEF Tasks
    <3>3. chunkProd' = chunkProd /\ DOMAIN chunkProd = {}
      BY <1>3 DEF FreshInv, prods
    <3>4. chunkProd = [c \in DOMAIN chunkProd |-> chunkProd[c]]
      BY <1>3 DEF FreshInv
    <3>5. at' \in [Tasks -> Int]  BY <2>1, <3>1
    <3>6. \A c \in Tasks : /\ chunkStarts[c] <= at'[c] /\ at'[c] <= chunkEnds[c] + 1
                           /\ ~(at'[c] > chunkEnds[c])
                           /\ \A y \in chunkStarts[c] .. chunkEnds[c] - 1 : ~(y < at'[c])
      <4> TAKE c \in Tasks
      <4>1. /\ chunkStarts[c] \in Nat /\ chunkEnds[c] \in Nat
            /\ chunkStarts[c] < chunkEnds[c] /\ at'[c] = chunkStarts[c]
        BY <2>1, <3>1
      <4> QED  BY <4>1
    <3> QED  BY <2>1, <3>2, <3>3, <3>4, <3>5, <3>6 DEF ForwardInv
  <2> QED  BY <1>3, <2>1, <2>5, <2>6 DEF FreshInv, SerialInv, SplitInv, ProductsInv,
              BackwardInv, Inverted, prods
<1> QED  BY <1>1, <1>5, <1>6

\* What the goroutines rely on.
LEMMA RoundFacts ==
  ASSUME BaseInv, pc \in Rounds
  PROVE  /\ n \in Nat /\ nbTasks \in Nat \ {0} /\ Cut(nbTasks, n) /\ n > 1
         /\ vec \in [0 .. n - 1 -> F] /\ buf \in [0 .. n - 1 -> F] /\ buf = input /\ acc \in F
         /\ chunkStarts \in [Tasks -> Nat] /\ chunkEnds \in [Tasks -> Nat]
         /\ \A c \in Tasks : /\ chunkStarts[c] \in Nat /\ chunkEnds[c] \in Nat
                             /\ chunkStarts[c] < chunkEnds[c] /\ chunkEnds[c] <= n
         /\ \A c \in Tasks : W(c) \in F
<1>1. /\ n \in Nat /\ nbTasks \in Nat \ {0} /\ Cut(nbTasks, n) /\ n > 1 /\ nbTasks <= n
      /\ vec \in [0 .. n - 1 -> F] /\ buf \in [0 .. n - 1 -> F] /\ buf = input /\ acc \in F
  BY DEF BaseInv, Indices, Rounds
<1>2. /\ chunkStarts \in [Tasks -> Nat] /\ chunkEnds \in [Tasks -> Nat]
      /\ \A c \in Tasks : chunkStarts[c] < chunkEnds[c] /\ chunkEnds[c] <= n
  BY <1>1 DEF Cut, CutOf, Tasks
<1>3. \A c \in Tasks : W(c) \in F
  <2> TAKE c \in Tasks
  <2>1. chunkStarts[c] \in Nat /\ chunkEnds[c] \in Nat  BY <1>2
  <2>2. chunkEnds[c] - 1 \in 0 .. n - 1  BY <1>1, <1>2, <2>1
  <2> QED  BY <1>1, <2>2 DEF W
<1> QED  BY <1>1, <1>2, <1>3

\* A write at p of chunk c leaves what is said of other chunks.
LEMMA OtherChunks ==
  ASSUME BaseInv, pc \in Rounds, NEW c \in Tasks, NEW d \in Tasks, c # d,
         NEW p \in Int, chunkStarts[c] <= p, p < chunkEnds[c], NEW v,
         vec' = [vec EXCEPT ![p] = v], UNCHANGED <<buf, chunkStarts, chunkEnds>>
  PROVE  /\ \A y \in chunkStarts[d] .. chunkEnds[d] - 1 :
              vec'[y] = vec[y] /\ Running(d, y)' = Running(d, y)
         /\ W(d)' = W(d)
<1>1. /\ chunkStarts[d] \in Nat /\ chunkEnds[d] \in Nat /\ chunkEnds[d] <= n /\ n \in Nat
      /\ chunkStarts[d] < chunkEnds[d] /\ vec \in [0 .. n - 1 -> F]
      /\ nbTasks \in Nat /\ Cut(nbTasks, n)
  BY RoundFacts
<1>2. ~(chunkStarts[d] <= p /\ p < chunkEnds[d])  BY <1>1, Apart
<1>3. \A y \in chunkStarts[d] .. chunkEnds[d] - 1 : y # p /\ vec'[y] = vec[y]
  <2> TAKE y \in chunkStarts[d] .. chunkEnds[d] - 1
  <2>1. y # p /\ y \in 0 .. n - 1  BY <1>1, <1>2
  <2> QED  BY <1>1, <2>1
<1>4. \A y \in chunkStarts[d] .. chunkEnds[d] - 1 : Running(d, y)' = Running(d, y)
  <2> TAKE y \in chunkStarts[d] .. chunkEnds[d] - 1
  <2>1. CASE y = chunkStarts[d]  BY <1>3, <2>1 DEF Running
  <2>2. CASE y # chunkStarts[d]
    <3>1. y - 1 \in chunkStarts[d] .. chunkEnds[d] - 1  BY <1>1, <2>2
    <3>2. vec'[y] = vec[y] /\ vec'[y - 1] = vec[y - 1]  BY <1>3, <3>1
    <3> QED  BY <2>2, <3>2 DEF Running
  <2> QED  BY <2>1, <2>2
<1>5. chunkEnds[d] - 1 \in chunkStarts[d] .. chunkEnds[d] - 1  BY <1>1
<1> QED  BY <1>3, <1>4, <1>5 DEF W

\* The invariant of the first round, as a goroutine steps.
LEMMA ForwardStep == ASSUME IInv, NEW c \in Tasks, Forward(c) PROVE IInv'
<1> USE DEF IInv
<1>1. /\ pc = "forward" /\ pc' = pc /\ pc \in Rounds
      /\ n' = n /\ nbTasks' = nbTasks /\ i' = i /\ buf' = buf /\ acc' = acc /\ input' = input
      /\ chunkStarts' = chunkStarts /\ chunkEnds' = chunkEnds /\ chunks' = chunks
      /\ prefixBefore' = prefixBefore /\ suffixAfter' = suffixAfter /\ Tasks' = Tasks
      /\ at' = [at EXCEPT ![c] = @ + 1]
  BY DEF Forward, chunks, Tasks, Rounds
<1>2. /\ n \in Nat /\ vec \in [0 .. n - 1 -> F] /\ buf \in [0 .. n - 1 -> F]
      /\ \A d \in Tasks : /\ chunkStarts[d] \in Nat /\ chunkEnds[d] \in Nat
                          /\ chunkStarts[d] < chunkEnds[d] /\ chunkEnds[d] <= n
  BY <1>1, RoundFacts
<1>3. /\ at \in [Tasks -> Int] /\ DOMAIN chunkProd \subseteq Tasks
      /\ chunkProd = [d \in DOMAIN chunkProd |-> chunkProd[d]]
      /\ \A d \in Tasks :
           /\ chunkStarts[d] <= at[d] /\ at[d] <= chunkEnds[d] + 1
           /\ \A y \in chunkStarts[d] .. chunkEnds[d] - 1 : y < at[d] => Running(d, y)
           /\ at[d] > chunkEnds[d] => d \in DOMAIN chunkProd /\ chunkProd[d] = W(d)
  BY <1>1 DEF ForwardInv
<1>4. /\ at' \in [Tasks -> Int] /\ at'[c] = at[c] + 1
      /\ \A d \in Tasks \ {c} : at'[d] = at[d]
  BY <1>1, <1>3
<1>5. SUFFICES BaseInv' /\ ForwardInv'
  BY <1>1 DEF FreshInv, SerialInv, SplitInv, ProductsInv, BackwardInv, Inverted
<1>6. CASE at[c] < chunkEnds[c]
  <2> DEFINE p == at[c]
             v == IF p = chunkStarts[c] THEN buf[p] ELSE Mul(vec[p - 1], buf[p])
  <2>1. vec' = [vec EXCEPT ![p] = v] /\ chunkProd' = chunkProd
    <3>1. at[c] # chunkEnds[c]  BY <1>2, <1>3, <1>6
    <3> QED  BY <3>1 DEF Forward
  <2>2. p \in Int /\ chunkStarts[c] <= p /\ p < chunkEnds[c] /\ p \in 0 .. n - 1
    BY <1>2, <1>3, <1>6
  <2>3. v \in F
    <3>1. buf[p] \in F  BY <1>2, <2>2
    <3>2. CASE p # chunkStarts[c]
      <4>1. p - 1 \in 0 .. n - 1  BY <1>2, <2>2, <3>2
      <4> QED  BY <1>2, <3>1, <3>2, <4>1, MulFacts
    <3> QED  BY <3>1, <3>2
  <2>4. vec' \in [0 .. n - 1 -> F]  BY <1>2, <2>1, <2>2, <2>3
  <2>5. BaseInv'
    BY <1>1, <2>4 DEF BaseInv, Indices, Cut, Rounds
  <2>6. \A d \in Tasks \ {c} :
          /\ \A y \in chunkStarts[d] .. chunkEnds[d] - 1 : Running(d, y)' = Running(d, y)
          /\ W(d)' = W(d)
    <3> HIDE DEF v, p
    <3> QED  BY <1>1, <2>1, <2>2, OtherChunks
  <2>7. \A y \in chunkStarts[c] .. chunkEnds[c] - 1 : y < at'[c] => Running(c, y)'
    <3> TAKE y \in chunkStarts[c] .. chunkEnds[c] - 1
    <3> HAVE y < at'[c]
    <3>1. y <= p /\ y \in Int /\ y \in 0 .. n - 1  BY <1>2, <1>4, <2>2
    <3>2. CASE y = p
      <4>1. vec'[p] = v  BY <1>2, <2>1, <2>2
      <4>2. CASE p # chunkStarts[c]
        <5>1. p - 1 \in 0 .. n - 1 /\ p - 1 # p  BY <1>2, <2>2, <4>2
        <5>2. vec'[p - 1] = vec[p - 1]  BY <1>2, <2>1, <5>1
        <5> QED  BY <1>1, <3>2, <4>1, <4>2, <5>2 DEF Running
      <4> QED  BY <1>1, <3>2, <4>1, <4>2 DEF Running
    <3>3. CASE y # p
      <4>1. y < p /\ y - 1 # p /\ Running(c, y)  BY <1>3, <2>2, <3>1, <3>3
      <4>2. vec'[y] = vec[y]  BY <1>2, <2>1, <3>1, <3>3
      <4>3. CASE y # chunkStarts[c]
        <5>1. y - 1 \in 0 .. n - 1  BY <1>2, <3>1, <4>3
        <5>2. vec'[y - 1] = vec[y - 1]  BY <1>2, <2>1, <4>1, <5>1
        <5> QED  BY <1>1, <4>1, <4>2, <5>2 DEF Running
      <4> QED  BY <1>1, <4>1, <4>2, <4>3 DEF Running
    <3> QED  BY <3>2, <3>3
  <2>8. chunkStarts[c] <= at'[c] /\ at'[c] <= chunkEnds[c] + 1 /\ ~(at'[c] > chunkEnds[c])
    BY <1>2, <1>4, <2>2
  <2> HIDE DEF p, v
  <2>9. \A d \in Tasks :
          /\ chunkStarts[d] <= at'[d] /\ at'[d] <= chunkEnds[d] + 1
          /\ \A y \in chunkStarts[d] .. chunkEnds[d] - 1 : y < at'[d] => Running(d, y)'
          /\ at'[d] > chunkEnds[d] => d \in DOMAIN chunkProd /\ chunkProd[d] = W(d)'
    <3> TAKE d \in Tasks
    <3>1. CASE d = c  BY <2>7, <2>8, <3>1
    <3>2. CASE d # c
      <4>1. at'[d] = at[d]  BY <1>4, <3>2
      <4> QED  BY <1>3, <2>6, <3>2, <4>1
    <3> QED  BY <3>1, <3>2
  <2>10. ForwardInv'  BY <1>1, <1>3, <1>4, <2>1, <2>9 DEF ForwardInv
  <2> QED  BY <2>5, <2>10
<1>7. CASE ~(at[c] < chunkEnds[c])
  <2>1. at[c] = chunkEnds[c] /\ vec' = vec /\ chunkProd' = With(chunkProd, c, W(c))
    BY <1>7 DEF Forward, W
  <2>2. BaseInv'  BY <1>1, <2>1 DEF BaseInv, Indices, Cut, Rounds
  <2>3. \A d \in Tasks : /\ W(d)' = W(d)
                         /\ \A y \in chunkStarts[d] .. chunkEnds[d] - 1 : Running(d, y)' = Running(d, y)
    BY <1>1, <2>1 DEF W, Running
  <2>4. /\ DOMAIN chunkProd' = DOMAIN chunkProd \cup {c} /\ chunkProd'[c] = W(c)
        /\ \A d \in DOMAIN chunkProd \ {c} : chunkProd'[d] = chunkProd[d]
        /\ chunkProd' = [d \in DOMAIN chunkProd' |-> chunkProd'[d]]
    <3> DEFINE g == With(chunkProd, c, W(c))
    <3>1. /\ DOMAIN g = DOMAIN chunkProd \cup {c} /\ g[c] = W(c)
          /\ \A d \in DOMAIN chunkProd \ {c} : g[d] = chunkProd[d]
          /\ g = [d \in DOMAIN chunkProd \cup {c} |-> g[d]]
      BY DEF With
    <3>2. chunkProd' = g  BY <2>1
    <3> HIDE DEF g
    <3> QED  BY <3>1, <3>2
  <2>5. \A d \in Tasks :
          /\ chunkStarts[d] <= at'[d] /\ at'[d] <= chunkEnds[d] + 1
          /\ \A y \in chunkStarts[d] .. chunkEnds[d] - 1 : y < at'[d] => Running(d, y)'
          /\ at'[d] > chunkEnds[d] => d \in DOMAIN chunkProd' /\ chunkProd'[d] = W(d)'
    <3> TAKE d \in Tasks
    <3>1. CASE d = c
      <4>1. at'[c] = chunkEnds[c] + 1  BY <1>4, <2>1
      <4>2. \A y \in chunkStarts[c] .. chunkEnds[c] - 1 : Running(c, y)'
        <5> TAKE y \in chunkStarts[c] .. chunkEnds[c] - 1
        <5>1. y < at[c]  BY <1>2, <2>1
        <5> QED  BY <1>3, <2>3, <5>1
      <4> QED  BY <1>2, <2>3, <2>4, <3>1, <4>1, <4>2
    <3>2. CASE d # c
      <4>1. at'[d] = at[d]  BY <1>4, <3>2
      <4> QED  BY <1>3, <2>3, <2>4, <3>2, <4>1
    <3> QED  BY <3>1, <3>2
  <2>6. ForwardInv'  BY <1>1, <1>3, <1>4, <2>4, <2>5 DEF ForwardInv
  <2> QED  BY <2>2, <2>6
<1> QED  BY <1>6, <1>7

LEMMA JoinForwardStep == ASSUME IInv, JoinForward PROVE IInv'
<1> USE DEF IInv
<1>1. /\ pc = "forward" /\ pc' = "prefix" /\ pc \in Rounds /\ pc' \in Rounds /\ i' = 1
      /\ n' = n /\ nbTasks' = nbTasks /\ vec' = vec /\ buf' = buf /\ acc' = acc /\ input' = input
      /\ chunkStarts' = chunkStarts /\ chunkEnds' = chunkEnds /\ Tasks' = Tasks
      /\ prefixBefore' = With(prefixBefore, 0, One) /\ suffixAfter' = suffixAfter
      /\ chunkProd' = chunkProd /\ at' = at
      /\ \A c \in Tasks : at[c] > chunkEnds[c]
  BY DEF JoinForward, arrays, chunks, Tasks, Rounds
<1>2. /\ n \in Nat /\ nbTasks \in Nat \ {0}
      /\ \A d \in Tasks : chunkStarts[d] \in Nat /\ chunkEnds[d] \in Nat
  BY <1>1, RoundFacts
<1>3. BaseInv'  BY <1>1 DEF BaseInv, Indices, Cut, Rounds
<1>4. \A c \in Tasks : RunningChunk(c)'
  <2> TAKE c \in Tasks
  <2>1. \A y \in chunkStarts[c] .. chunkEnds[c] - 1 : Running(c, y)
    <3> TAKE y \in chunkStarts[c] .. chunkEnds[c] - 1
    <3>1. at[c] \in Int /\ at[c] > chunkEnds[c]  BY <1>1 DEF ForwardInv
    <3>2. y < at[c]  BY <1>2, <3>1
    <3> QED  BY <1>1, <3>2 DEF ForwardInv
  <2> QED  BY <1>1, <2>1 DEF RunningChunk, Running
<1>5. chunkProd' = [c \in Tasks' |-> W(c)']
  <2>1. \A c \in Tasks : c \in DOMAIN chunkProd /\ chunkProd[c] = W(c)
    BY <1>1 DEF ForwardInv
  <2>2. DOMAIN chunkProd = Tasks  BY <1>1, <2>1 DEF ForwardInv
  <2>3. chunkProd = [c \in DOMAIN chunkProd |-> chunkProd[c]]  BY <1>1 DEF ForwardInv
  <2>4. chunkProd = [c \in Tasks |-> W(c)]  BY <2>1, <2>2, <2>3
  <2> QED  BY <1>1, <2>4 DEF W
<1>6. prefixBefore' \in [0 .. 0 -> F]
  <2>1. prefixBefore = [c \in {} |-> One]  BY <1>1 DEF FreshInv
  <2>2. prefixBefore' = [c \in {0} |-> One]  BY <1>1, <2>1 DEF With
  <2>3. 0 .. 0 = {0}  OBVIOUS
  <2> QED  BY <2>2, <2>3, MulFacts
<1>7. ProductsInv'
  <2>1. at' \in [Tasks' -> Int]  BY <1>1 DEF ForwardInv
  <2>2. i' \in 1 .. nbTasks' /\ 0 .. i' - 1 = 0 .. 0 /\ 1 .. i' - 1 = {}  BY <1>1, <1>2
  <2> QED  BY <1>1, <1>4, <1>5, <1>6, <2>1, <2>2 DEF ProductsInv
<1> QED  BY <1>1, <1>3, <1>7 DEF FreshInv, SerialInv, SplitInv, ForwardInv, BackwardInv, Inverted

\* The loops over the chunk products leave vec and the chunks alone.
LEMMA QuietFacts ==
  ASSUME BaseInv, ProductsInv, pc \in {"prefix", "suffix", "combine"},
         UNCHANGED <<n, nbTasks, vec, buf, input, chunkStarts, chunkEnds>>,
         pc' \in Rounds, acc' \in F, i' \in Int
  PROVE  /\ BaseInv' /\ Tasks' = Tasks /\ \A c \in Tasks : W(c)' = W(c)
         /\ \A c \in Tasks : RunningChunk(c)' /\ RunningChunk(c)
         /\ nbTasks \in Nat \ {0} /\ \A c \in Tasks : W(c) \in F
         /\ at \in [Tasks -> Int]
<1>1. Tasks' = Tasks /\ pc \in Rounds  BY DEF Tasks, Rounds
<1>2. BaseInv'  BY <1>1 DEF BaseInv, Indices, Cut, Rounds
<1>3. \A c \in Tasks : W(c)' = W(c)  BY DEF W
<1>4. \A c \in Tasks : RunningChunk(c)' /\ RunningChunk(c)
  BY DEF ProductsInv, RunningChunk, Running
<1>5. nbTasks \in Nat \ {0} /\ \A c \in Tasks : W(c) \in F  BY <1>1, RoundFacts
<1>6. at \in [Tasks -> Int]  BY DEF ProductsInv
<1> QED  BY <1>1, <1>2, <1>3, <1>4, <1>5, <1>6

LEMMA PrefixStep == ASSUME IInv, Prefix PROVE IInv'
<1> USE DEF IInv
<1>1. /\ pc = "prefix" /\ pc' \in {"prefix", "suffix"} /\ pc' \in Rounds
      /\ n' = n /\ nbTasks' = nbTasks /\ vec' = vec /\ buf' = buf /\ acc' = acc /\ input' = input
      /\ chunkStarts' = chunkStarts /\ chunkEnds' = chunkEnds /\ chunkProd' = chunkProd /\ at' = at
  BY DEF Prefix, arrays, chunks, Rounds
<1>2. /\ i \in 1 .. nbTasks /\ prefixBefore \in [0 .. i - 1 -> F] /\ acc \in F
      /\ \A k \in 1 .. i - 1 : prefixBefore[k] = Mul(prefixBefore[k - 1], W(k - 1))
      /\ chunkProd = [c \in Tasks |-> W(c)] /\ nbTasks \in Nat \ {0}
  BY <1>1 DEF ProductsInv, BaseInv
<1>3. i' \in Int  BY <1>2 DEF Prefix
<1>4. /\ BaseInv' /\ Tasks' = Tasks /\ \A c \in Tasks : W(c)' = W(c)
      /\ \A c \in Tasks : RunningChunk(c)'
      /\ \A c \in Tasks : W(c) \in F
      /\ at \in [Tasks -> Int]
  BY <1>1, <1>2, <1>3, QuietFacts
<1>5. chunkProd' = [c \in Tasks' |-> W(c)']  BY <1>1, <1>2, <1>4
<1>6. CASE i < nbTasks
  <2> DEFINE v == Mul(prefixBefore[i - 1], chunkProd[i - 1])
  <2>1. /\ prefixBefore' = With(prefixBefore, i, v) /\ i' = i + 1 /\ pc' = "prefix"
        /\ suffixAfter' = suffixAfter
    BY <1>6 DEF Prefix
  <2>2. i - 1 \in Tasks /\ i - 1 \in 0 .. i - 1  BY <1>2, <1>6 DEF Tasks
  <2>3. v = Mul(prefixBefore[i - 1], W(i - 1)) /\ v \in F  BY <1>2, <1>4, <2>2, MulFacts
  <2> HIDE DEF v
  <2>4. (0 .. i - 1) \cup {i} = 0 .. i /\ i' - 1 = i  BY <1>2, <2>1
  <2>5. /\ prefixBefore' \in [0 .. i -> F] /\ prefixBefore'[i] = v
        /\ \A k \in 0 .. i - 1 : prefixBefore'[k] = prefixBefore[k]
    BY <1>2, <2>1, <2>3, <2>4 DEF With
  <2>6. \A k \in 1 .. i : prefixBefore'[k] = Mul(prefixBefore'[k - 1], W(k - 1)')
    <3> TAKE k \in 1 .. i
    <3>1. k - 1 \in 0 .. i - 1 /\ k - 1 \in Tasks  BY <1>2, <1>6 DEF Tasks
    <3>2. prefixBefore'[k - 1] = prefixBefore[k - 1] /\ W(k - 1)' = W(k - 1)  BY <1>4, <2>5, <3>1
    <3>3. CASE k = i  BY <2>3, <2>5, <3>2, <3>3
    <3>4. CASE k # i
      <4>1. k \in 1 .. i - 1 /\ k \in 0 .. i - 1  BY <1>2, <3>4
      <4> QED  BY <1>2, <2>5, <3>2, <4>1
    <3> QED  BY <3>3, <3>4
  <2>7. i' \in 1 .. nbTasks  BY <1>2, <1>6, <2>1
  <2>8. ProductsInv'
    BY <1>1, <1>4, <1>5, <2>1, <2>4, <2>5, <2>6, <2>7 DEF ProductsInv
  <2> QED  BY <1>1, <1>4, <2>1, <2>8 DEF FreshInv, SerialInv, SplitInv, ForwardInv,
              BackwardInv, Inverted
<1>7. CASE ~(i < nbTasks)
  <2>1. /\ suffixAfter' = With(suffixAfter, nbTasks - 1, One) /\ i' = nbTasks - 2
        /\ pc' = "suffix" /\ prefixBefore' = prefixBefore /\ i = nbTasks
    BY <1>2, <1>7 DEF Prefix
  <2>2. suffixAfter' = [c \in {nbTasks - 1} |-> One]
    BY <1>1, <2>1 DEF FreshInv, With
  <2>3. i' + 1 .. nbTasks - 1 = {nbTasks - 1} /\ i' \in -1 .. nbTasks - 2
    BY <1>2, <2>1
  <2>4. suffixAfter' \in [i' + 1 .. nbTasks - 1 -> F] /\ suffixAfter'[nbTasks - 1] = One
    BY <2>2, <2>3, MulFacts
  <2>5. prefixBefore \in [Tasks -> F]  BY <1>2, <2>1 DEF Tasks
  <2>6. \A k \in 1 .. nbTasks - 1 : prefixBefore'[k] = Mul(prefixBefore'[k - 1], W(k - 1)')
    <3> TAKE k \in 1 .. nbTasks - 1
    <3>1. k - 1 \in Tasks /\ k \in 1 .. i - 1  BY <1>2, <2>1 DEF Tasks
    <3> QED  BY <1>2, <1>4, <2>1, <3>1
  <2>7. \A k \in i' + 1 .. nbTasks - 1 :
          Mul(Mul(prefixBefore'[k], W(k)'), suffixAfter'[k]) =
          Mul(prefixBefore'[nbTasks - 1], W(nbTasks - 1)')
    <3> TAKE k \in i' + 1 .. nbTasks - 1
    <3>0. k \in {nbTasks - 1}  BY <2>3
    <3>1. k = nbTasks - 1 /\ k \in Tasks  BY <1>2, <3>0 DEF Tasks
    <3>2. Mul(prefixBefore[k], W(k)) \in F  BY <1>4, <2>5, <3>1, MulFacts
    <3>3. Mul(Mul(prefixBefore[k], W(k)), suffixAfter'[k]) = Mul(prefixBefore[k], W(k))
      BY <2>4, <3>1, <3>2, MulFacts
    <3>4. W(k)' = W(k)  BY <1>4, <3>1
    <3>5. W(nbTasks - 1)' = W(nbTasks - 1)  BY <1>1, <1>4, <3>1
    <3> QED  BY <1>1, <2>1, <3>1, <3>3, <3>4, <3>5
  <2>8. ProductsInv'
    BY <1>1, <1>4, <1>5, <2>1, <2>3, <2>4, <2>5, <2>6, <2>7 DEF ProductsInv
  <2> QED  BY <1>1, <1>4, <2>1, <2>8 DEF FreshInv, SerialInv, SplitInv, ForwardInv,
              BackwardInv, Inverted
<1> QED  BY <1>6, <1>7

LEMMA SuffixStep == ASSUME IInv, Suffix PROVE IInv'
<1> USE DEF IInv
<1> DEFINE total == Mul(prefixBefore[nbTasks - 1], W(nbTasks - 1))
<1>1. /\ pc = "suffix" /\ pc' \in {"suffix", "combine"} /\ pc' \in Rounds
      /\ n' = n /\ nbTasks' = nbTasks /\ vec' = vec /\ buf' = buf /\ input' = input
      /\ chunkStarts' = chunkStarts /\ chunkEnds' = chunkEnds /\ chunkProd' = chunkProd
      /\ prefixBefore' = prefixBefore /\ at' = at
  BY DEF Suffix, arrays, chunks, Rounds
<1>2. /\ i \in -1 .. nbTasks - 2 /\ prefixBefore \in [Tasks -> F] /\ acc \in F
      /\ suffixAfter \in [i + 1 .. nbTasks - 1 -> F]
      /\ \A k \in 1 .. nbTasks - 1 : prefixBefore[k] = Mul(prefixBefore[k - 1], W(k - 1))
      /\ \A k \in i + 1 .. nbTasks - 1 :
           Mul(Mul(prefixBefore[k], W(k)), suffixAfter[k]) = total
      /\ chunkProd = [c \in Tasks |-> W(c)] /\ nbTasks \in Nat \ {0}
  BY <1>1 DEF ProductsInv, BaseInv
<1>3. \A c \in Tasks : W(c) \in F  BY <1>1, RoundFacts DEF Rounds
<1>4. nbTasks - 1 \in Tasks /\ total \in F
  <2>1. nbTasks - 1 \in Tasks  BY <1>2 DEF Tasks
  <2> QED  BY <1>2, <1>3, <2>1, MulFacts
<1>5. acc' \in F /\ i' \in Int
  <2>1. CASE i >= 0  BY <1>2, <2>1 DEF Suffix
  <2>2. CASE ~(i >= 0)
    <3>1. acc' = Inv(total) /\ i' = 0  BY <1>2, <1>4, <2>2 DEF Suffix
    <3> QED  BY <1>4, <3>1, MulFacts
  <2> QED  BY <2>1, <2>2
<1>6. /\ BaseInv' /\ Tasks' = Tasks /\ \A c \in Tasks : W(c)' = W(c)
      /\ \A c \in Tasks : RunningChunk(c)'
      /\ at \in [Tasks -> Int]
  BY <1>1, <1>5, QuietFacts
<1>7. total' = total  BY <1>1, <1>4, <1>6
<1> HIDE DEF total
<1>8. CASE i >= 0
  <2> DEFINE v == Mul(suffixAfter[i + 1], chunkProd[i + 1])
  <2>1. suffixAfter' = With(suffixAfter, i, v) /\ i' = i - 1 /\ pc' = "suffix" /\ acc' = acc
    BY <1>8 DEF Suffix
  <2>2. /\ i + 1 \in Tasks /\ i \in Tasks /\ i + 1 \in i + 1 .. nbTasks - 1
        /\ i + 1 \in 1 .. nbTasks - 1 /\ i + 1 - 1 = i
    BY <1>2, <1>8 DEF Tasks
  <2>3. v = Mul(suffixAfter[i + 1], W(i + 1)) /\ v \in F /\ suffixAfter[i + 1] \in F
    BY <1>2, <1>3, <2>2, MulFacts
  <2> HIDE DEF v
  <2>4. (i + 1 .. nbTasks - 1) \cup {i} = i .. nbTasks - 1 /\ i' + 1 = i  BY <1>2, <2>1
  <2>5. /\ suffixAfter' \in [i .. nbTasks - 1 -> F] /\ suffixAfter'[i] = v
        /\ \A k \in i + 1 .. nbTasks - 1 : suffixAfter'[k] = suffixAfter[k]
    BY <1>2, <2>1, <2>3, <2>4 DEF With
  <2>6. Mul(Mul(prefixBefore[i], W(i)), v) = total
    <3>1. prefixBefore[i + 1] = Mul(prefixBefore[i], W(i)) /\ prefixBefore[i + 1] \in F
      <4>1. prefixBefore[i + 1] = Mul(prefixBefore[i + 1 - 1], W(i + 1 - 1))  BY <1>2, <2>2
      <4>2. prefixBefore[i + 1] = Mul(prefixBefore[i], W(i))  BY <2>2, <4>1
      <4> QED  BY <1>2, <2>2, <4>2
    <3>2. Mul(prefixBefore[i + 1], Mul(suffixAfter[i + 1], W(i + 1)))
            = Mul(Mul(prefixBefore[i + 1], W(i + 1)), suffixAfter[i + 1])
      BY <1>3, <2>2, <2>3, <3>1, SuffixAlgebra
    <3> QED  BY <1>2, <2>2, <2>3, <3>1, <3>2
  <2>7. \A k \in i .. nbTasks - 1 :
          Mul(Mul(prefixBefore'[k], W(k)'), suffixAfter'[k]) = total
    <3> TAKE k \in i .. nbTasks - 1
    <3>1. k \in Tasks  BY <1>2, <2>2 DEF Tasks
    <3>2. W(k)' = W(k) /\ prefixBefore'[k] = prefixBefore[k]  BY <1>1, <1>6, <3>1
    <3>3. CASE k = i  BY <2>5, <2>6, <3>2, <3>3
    <3>4. CASE k # i
      <4>1. k \in i + 1 .. nbTasks - 1  BY <1>2, <3>4
      <4> QED  BY <1>2, <2>5, <3>2, <4>1
    <3> QED  BY <3>3, <3>4
  <2>8. i' \in -1 .. nbTasks - 2  BY <1>2, <1>8, <2>1
  <2>9. \A k \in 1 .. nbTasks - 1 : prefixBefore'[k] = Mul(prefixBefore'[k - 1], W(k - 1)')
    <3> TAKE k \in 1 .. nbTasks - 1
    <3>1. k - 1 \in Tasks  BY <1>2 DEF Tasks
    <3> QED  BY <1>1, <1>2, <1>6, <3>1
  <2>10. ProductsInv'
    <3>1. chunkProd' = [c \in Tasks' |-> W(c)']  BY <1>1, <1>2, <1>6
    <3> QED  BY <1>1, <1>2, <1>6, <1>7, <2>1, <2>4, <2>5, <2>7, <2>8, <2>9, <3>1
             DEF ProductsInv, total
  <2> QED  BY <1>1, <1>6, <2>1, <2>10 DEF FreshInv, SerialInv, SplitInv, ForwardInv,
              BackwardInv, Inverted
<1>9. CASE ~(i >= 0)
  <2>1. acc' = Inv(total) /\ i' = 0 /\ pc' = "combine" /\ suffixAfter' = suffixAfter
    BY <1>2, <1>4, <1>9 DEF Suffix, total
  <2>2. i = -1 /\ i + 1 .. nbTasks - 1 = Tasks  BY <1>2, <1>9 DEF Tasks
  <2>3. suffixAfter \in [Tasks -> F]  BY <1>2, <2>2
  <2>4. Mul(acc', total) = One  BY <1>4, <2>1, MulFacts
  <2>5. \A k \in Tasks :
          Mul(acc', Mul(Mul(prefixBefore'[k], W(k)'), suffixAfter'[k])) = One
    BY <1>1, <1>2, <1>6, <2>1, <2>2, <2>4
  <2>6. chunkProd' \in [Tasks -> F]  BY <1>1, <1>2, <1>3
  <2>7. i' \in 0 .. nbTasks /\ 0 .. i' - 1 = {}  BY <1>2, <2>1
  <2>8. ProductsInv'
    BY <1>1, <1>2, <1>6, <2>1, <2>3, <2>5, <2>6, <2>7 DEF ProductsInv
  <2> QED  BY <1>1, <1>6, <2>1, <2>8 DEF FreshInv, SerialInv, SplitInv, ForwardInv,
              BackwardInv, Inverted
<1> QED  BY <1>8, <1>9

LEMMA CombineStep == ASSUME IInv, Combine PROVE IInv'
<1> USE DEF IInv
<1>1. /\ pc = "combine" /\ pc' \in {"combine", "backward"} /\ pc' \in Rounds
      /\ n' = n /\ nbTasks' = nbTasks /\ vec' = vec /\ buf' = buf /\ input' = input /\ acc' = acc
      /\ chunkStarts' = chunkStarts /\ chunkEnds' = chunkEnds
      /\ prefixBefore' = prefixBefore /\ suffixAfter' = suffixAfter
  BY DEF Combine, arrays, chunks, Rounds
<1>2. /\ i \in 0 .. nbTasks /\ prefixBefore \in [Tasks -> F] /\ suffixAfter \in [Tasks -> F]
      /\ chunkProd \in [Tasks -> F] /\ acc \in F /\ nbTasks \in Nat \ {0}
      /\ \A k \in Tasks : Mul(acc, Mul(Mul(prefixBefore[k], W(k)), suffixAfter[k])) = One
      /\ \A k \in 0 .. i - 1 : Mul(chunkProd[k], W(k)) = One
  BY <1>1 DEF ProductsInv, BaseInv
<1>3. i' \in Int  BY <1>2 DEF Combine
<1>4. /\ BaseInv' /\ Tasks' = Tasks /\ \A c \in Tasks : W(c)' = W(c) /\ W(c) \in F
      /\ \A c \in Tasks : RunningChunk(c)' /\ RunningChunk(c)
      /\ at \in [Tasks -> Int]
  BY <1>1, <1>2, <1>3, QuietFacts
<1>5. CASE i < nbTasks
  <2> DEFINE v == Mul(Mul(acc, prefixBefore[i]), suffixAfter[i])
  <2>1. chunkProd' = With(chunkProd, i, v) /\ i' = i + 1 /\ pc' = "combine" /\ at' = at
    BY <1>5 DEF Combine
  <2>2. i \in Tasks  BY <1>2, <1>5 DEF Tasks
  <2>3. v \in F /\ Mul(v, W(i)) = One
    <3>1. prefixBefore[i] \in F /\ suffixAfter[i] \in F /\ W(i) \in F  BY <1>2, <1>4, <2>2
    <3>2. Mul(v, W(i)) = Mul(acc, Mul(Mul(prefixBefore[i], W(i)), suffixAfter[i]))
      BY <1>2, <3>1, CombineAlgebra
    <3>3. v \in F  BY <1>2, <3>1, MulFacts
    <3> QED  BY <1>2, <2>2, <3>2, <3>3
  <2> HIDE DEF v
  <2>4. Tasks \cup {i} = Tasks  BY <2>2
  <2>5. /\ chunkProd' \in [Tasks -> F] /\ chunkProd'[i] = v
        /\ \A k \in Tasks \ {i} : chunkProd'[k] = chunkProd[k]
    BY <1>2, <2>1, <2>3, <2>4 DEF With
  <2>6. \A k \in 0 .. i' - 1 : Mul(chunkProd'[k], W(k)') = One
    <3> TAKE k \in 0 .. i' - 1
    <3>1. k \in Tasks /\ (k = i \/ k \in 0 .. i - 1)  BY <1>2, <1>5, <2>1 DEF Tasks
    <3>2. W(k)' = W(k)  BY <1>4, <3>1
    <3>3. CASE k = i  BY <2>3, <2>5, <3>2, <3>3
    <3>4. CASE k # i  BY <1>2, <2>5, <3>1, <3>2, <3>4
    <3> QED  BY <3>3, <3>4
  <2>7. i' \in 0 .. nbTasks  BY <1>2, <1>5, <2>1
  <2>8. ProductsInv'
    <3>1. \A k \in Tasks :
            Mul(acc', Mul(Mul(prefixBefore'[k], W(k)'), suffixAfter'[k])) = One
      BY <1>1, <1>2, <1>4
    <3> QED  BY <1>1, <1>2, <1>4, <2>1, <2>5, <2>6, <2>7, <3>1 DEF ProductsInv
  <2> QED  BY <1>1, <1>4, <2>1, <2>8 DEF FreshInv, SerialInv, SplitInv, ForwardInv,
              BackwardInv, Inverted
<1>6. CASE ~(i < nbTasks)
  <2>1. /\ pc' = "backward" /\ at' = [c \in Tasks |-> chunkEnds[c] - 1] /\ accs' = chunkProd
        /\ chunkProd' = chunkProd /\ i = nbTasks
    BY <1>2, <1>6 DEF Combine
  <2>2. \A c \in Tasks : /\ chunkStarts[c] \in Nat /\ chunkEnds[c] \in Nat
                         /\ chunkStarts[c] < chunkEnds[c]
    BY <1>1, RoundFacts DEF Rounds
  <2>3. at' \in [Tasks -> Int]  BY <2>1, <2>2
  <2>4. \A c \in Tasks : Mul(chunkProd[c], W(c)) = One  BY <1>2, <2>1 DEF Tasks
  <2>5. BackwardInv'
    <3> SUFFICES ASSUME NEW c \in Tasks
                 PROVE  /\ chunkStarts[c] - 1 <= at'[c] /\ at'[c] <= chunkEnds[c] - 1
                        /\ at'[c] >= chunkStarts[c] => Mul(accs'[c], vec'[at'[c]]) = One
                        /\ \A x \in chunkStarts[c] .. at'[c] : Running(c, x)'
                        /\ \A x \in at'[c] + 1 .. chunkEnds[c] - 1 : Mul(vec'[x], buf'[x]) = One
      BY <1>1, <1>2, <1>4, <2>1, <2>3 DEF BackwardInv
    <3>1. at'[c] = chunkEnds[c] - 1  BY <2>1
    <3>2. vec'[at'[c]] = W(c)  BY <1>1, <3>1 DEF W
    <3>3. \A x \in chunkStarts[c] .. at'[c] : Running(c, x)'
      BY <1>1, <1>4, <3>1 DEF RunningChunk
    <3>4. at'[c] + 1 .. chunkEnds[c] - 1 = {}  BY <2>2, <3>1
    <3> QED  BY <2>1, <2>2, <2>4, <3>1, <3>2, <3>3, <3>4
  <2> QED  BY <1>1, <1>4, <2>1, <2>5 DEF FreshInv, SerialInv, SplitInv, ForwardInv,
              ProductsInv, Inverted
<1> QED  BY <1>5, <1>6

\* The invariant of the second round, as a goroutine steps.
LEMMA BackwardStep == ASSUME IInv, NEW c \in Tasks, Backward(c) PROVE IInv'
<1> USE DEF IInv
<1> DEFINE p == at[c]
           v == IF p > chunkStarts[c] THEN Mul(vec[p - 1], accs[c]) ELSE accs[c]
           a == IF p > chunkStarts[c] THEN Mul(accs[c], buf[p]) ELSE accs[c]
<1>1. /\ pc = "backward" /\ pc' = pc /\ pc \in Rounds /\ p >= chunkStarts[c]
      /\ n' = n /\ nbTasks' = nbTasks /\ i' = i /\ buf' = buf /\ acc' = acc /\ input' = input
      /\ chunkStarts' = chunkStarts /\ chunkEnds' = chunkEnds /\ Tasks' = Tasks
      /\ chunkProd' = chunkProd
      /\ at' = [at EXCEPT ![c] = @ - 1] /\ vec' = [vec EXCEPT ![p] = v]
  BY DEF Backward, chunks, prods, Tasks, Rounds
<1>2. accs' = [accs EXCEPT ![c] = a]
  <2>1. CASE p > chunkStarts[c]  BY <2>1 DEF Backward
  <2>2. CASE ~(p > chunkStarts[c])
    <3>1. accs' = accs /\ a = accs[c] /\ accs \in [Tasks -> F]
      BY <1>1, <2>2 DEF Backward, BackwardInv
    <3> QED  BY <3>1
  <2> QED  BY <2>1, <2>2
<1>3. /\ n \in Nat /\ vec \in [0 .. n - 1 -> F] /\ buf \in [0 .. n - 1 -> F]
      /\ \A d \in Tasks : /\ chunkStarts[d] \in Nat /\ chunkEnds[d] \in Nat
                          /\ chunkStarts[d] < chunkEnds[d] /\ chunkEnds[d] <= n
  BY <1>1, RoundFacts
<1>4. /\ at \in [Tasks -> Int] /\ accs \in [Tasks -> F] /\ chunkProd \in [Tasks -> F]
      /\ \A d \in Tasks :
           /\ chunkStarts[d] - 1 <= at[d] /\ at[d] <= chunkEnds[d] - 1
           /\ at[d] >= chunkStarts[d] => Mul(accs[d], vec[at[d]]) = One
           /\ \A x \in chunkStarts[d] .. at[d] : Running(d, x)
           /\ \A x \in at[d] + 1 .. chunkEnds[d] - 1 : Mul(vec[x], buf[x]) = One
  BY <1>1 DEF BackwardInv
<1>5. /\ p \in Int /\ chunkStarts[c] <= p /\ p < chunkEnds[c] /\ p \in 0 .. n - 1
      /\ accs[c] \in F /\ buf[p] \in F /\ Mul(accs[c], vec[p]) = One /\ Running(c, p)
  <2>1. p \in Int /\ chunkStarts[c] <= p /\ p <= chunkEnds[c] - 1  BY <1>1, <1>4
  <2>2. p \in 0 .. n - 1 /\ p < chunkEnds[c] /\ p \in chunkStarts[c] .. at[c]  BY <1>3, <2>1
  <2> QED  BY <1>1, <1>3, <1>4, <2>1, <2>2
<1>6. /\ v \in F /\ a \in F /\ Mul(v, buf[p]) = One
      /\ p > chunkStarts[c] => p - 1 \in 0 .. n - 1 /\ Mul(a, vec[p - 1]) = One
  <2>1. CASE p > chunkStarts[c]
    <3>1. p - 1 \in 0 .. n - 1 /\ vec[p - 1] \in F  BY <1>3, <1>5, <2>1
    <3>2. vec[p] = Mul(vec[p - 1], buf[p])  BY <1>3, <1>5, <2>1 DEF Running
    <3>3. /\ Mul(vec[p - 1], accs[c]) \in F /\ Mul(accs[c], buf[p]) \in F
          /\ Mul(Mul(vec[p - 1], accs[c]), buf[p]) = One
          /\ Mul(Mul(accs[c], buf[p]), vec[p - 1]) = One
      BY <1>5, <3>1, <3>2, BackwardAlgebra
    <3> QED  BY <2>1, <3>1, <3>3
  <2>2. CASE ~(p > chunkStarts[c])
    <3>1. p = chunkStarts[c]  BY <1>3, <1>5, <2>2
    <3>2. vec[p] = buf[p]  BY <1>5, <3>1 DEF Running
    <3> QED  BY <1>5, <2>2, <3>2
  <2> QED  BY <2>1, <2>2
<1>7. vec' \in [0 .. n - 1 -> F] /\ vec'[p] = v /\ \A x \in 0 .. n - 1 : x # p => vec'[x] = vec[x]
  BY <1>1, <1>3, <1>5, <1>6
<1>8. BaseInv'  BY <1>1, <1>7 DEF BaseInv, Indices, Cut, Rounds
<1>9. /\ at' \in [Tasks -> Int] /\ at'[c] = p - 1 /\ accs' \in [Tasks -> F] /\ accs'[c] = a
      /\ \A d \in Tasks \ {c} : at'[d] = at[d] /\ accs'[d] = accs[d]
  BY <1>1, <1>2, <1>4, <1>6
<1> HIDE DEF v, a
<1>10. \A d \in Tasks \ {c} :
         \A y \in chunkStarts[d] .. chunkEnds[d] - 1 :
           vec'[y] = vec[y] /\ Running(d, y)' = Running(d, y)
  <2> HIDE DEF p
  <2> QED  BY <1>1, <1>5, OtherChunks
<1>11. \A d \in Tasks :
         /\ chunkStarts[d] - 1 <= at'[d] /\ at'[d] <= chunkEnds[d] - 1
         /\ at'[d] >= chunkStarts[d] => Mul(accs'[d], vec'[at'[d]]) = One
         /\ \A x \in chunkStarts[d] .. at'[d] : Running(d, x)'
         /\ \A x \in at'[d] + 1 .. chunkEnds[d] - 1 : Mul(vec'[x], buf'[x]) = One
  <2> TAKE d \in Tasks
  <2>1. CASE d = c
    <3>1. chunkStarts[c] - 1 <= at'[c] /\ at'[c] <= chunkEnds[c] - 1  BY <1>3, <1>5, <1>9
    <3>2. at'[c] >= chunkStarts[c] => Mul(accs'[c], vec'[at'[c]]) = One
      <4> HAVE at'[c] >= chunkStarts[c]
      <4>1. p > chunkStarts[c] /\ p - 1 # p  BY <1>3, <1>5, <1>9
      <4>2. vec'[p - 1] = vec[p - 1]  BY <1>6, <1>7, <4>1
      <4> QED  BY <1>6, <1>9, <4>1, <4>2
    <3>3. \A x \in chunkStarts[c] .. at'[c] : Running(c, x)'
      <4> TAKE x \in chunkStarts[c] .. at'[c]
      <4>1. x \in 0 .. n - 1 /\ x # p /\ x \in chunkStarts[c] .. at[c] /\ x - 1 # p
        BY <1>3, <1>5, <1>9
      <4>2. Running(c, x) /\ vec'[x] = vec[x]  BY <1>4, <1>7, <4>1
      <4>3. CASE x # chunkStarts[c]
        <5>1. x - 1 \in 0 .. n - 1  BY <1>3, <4>1, <4>3
        <5>2. vec'[x - 1] = vec[x - 1]  BY <1>7, <4>1, <5>1
        <5> QED  BY <1>1, <4>2, <5>2 DEF Running
      <4>4. CASE x = chunkStarts[c]  BY <1>1, <4>2, <4>4 DEF Running
      <4> QED  BY <4>3, <4>4
    <3>4. \A x \in at'[c] + 1 .. chunkEnds[c] - 1 : Mul(vec'[x], buf'[x]) = One
      <4> TAKE x \in at'[c] + 1 .. chunkEnds[c] - 1
      <4>1. CASE x = p  BY <1>1, <1>6, <1>7, <4>1
      <4>2. CASE x # p
        <5>1. x \in at[c] + 1 .. chunkEnds[c] - 1 /\ x \in 0 .. n - 1  BY <1>3, <1>5, <1>9, <4>2
        <5> QED  BY <1>1, <1>4, <1>7, <4>2, <5>1
      <4> QED  BY <4>1, <4>2
    <3> QED  BY <2>1, <3>1, <3>2, <3>3, <3>4
  <2>2. CASE d # c
    <3>1. at'[d] = at[d] /\ accs'[d] = accs[d] /\ at[d] \in Int  BY <1>4, <1>9, <2>2
    <3>2. chunkStarts[d] - 1 <= at[d] /\ at[d] <= chunkEnds[d] - 1  BY <1>4
    <3>3. at'[d] >= chunkStarts[d] => Mul(accs'[d], vec'[at'[d]]) = One
      <4> HAVE at'[d] >= chunkStarts[d]
      <4>1. at[d] \in chunkStarts[d] .. chunkEnds[d] - 1  BY <1>3, <3>1, <3>2
      <4> QED  BY <1>4, <1>10, <2>2, <3>1, <4>1
    <3>4. \A x \in chunkStarts[d] .. at'[d] : Running(d, x)'
      <4> TAKE x \in chunkStarts[d] .. at'[d]
      <4>1. x \in chunkStarts[d] .. chunkEnds[d] - 1 /\ x \in chunkStarts[d] .. at[d]
        BY <1>3, <3>1, <3>2
      <4> QED  BY <1>4, <1>10, <2>2, <4>1
    <3>5. \A x \in at'[d] + 1 .. chunkEnds[d] - 1 : Mul(vec'[x], buf'[x]) = One
      <4> TAKE x \in at'[d] + 1 .. chunkEnds[d] - 1
      <4>1. x \in chunkStarts[d] .. chunkEnds[d] - 1 /\ x \in at[d] + 1 .. chunkEnds[d] - 1
        BY <1>3, <3>1, <3>2
      <4> QED  BY <1>1, <1>4, <1>10, <2>2, <4>1
    <3> QED  BY <3>1, <3>2, <3>3, <3>4, <3>5
  <2> QED  BY <2>1, <2>2
<1>12. BackwardInv'  BY <1>1, <1>4, <1>9, <1>11 DEF BackwardInv
<1> QED  BY <1>1, <1>8, <1>12 DEF FreshInv, SerialInv, SplitInv, ForwardInv, ProductsInv, Inverted

LEMMA JoinBackwardStep == ASSUME IInv, JoinBackward PROVE IInv'
<1> USE DEF IInv
<1>1. /\ pc = "backward" /\ pc' = "done" /\ pc \in Rounds
      /\ n' = n /\ nbTasks' = nbTasks /\ i' = i /\ vec' = vec /\ buf' = buf /\ acc' = acc
      /\ input' = input
      /\ \A c \in Tasks : at[c] < chunkStarts[c]
  BY DEF JoinBackward, arrays, Rounds
<1>2. /\ n \in Nat /\ vec \in [0 .. n - 1 -> F] /\ buf = input /\ Cut(nbTasks, n)
      /\ nbTasks \in Nat
      /\ \A d \in Tasks : chunkStarts[d] \in Nat /\ chunkEnds[d] \in Nat
  BY <1>1, RoundFacts
<1>3. Inverted'
  <2> SUFFICES ASSUME NEW k \in 0 .. n - 1 PROVE Mul(vec[k], input[k]) = One
    BY <1>1 DEF Inverted, Indices
  <2>1. PICK c \in Tasks : chunkStarts[c] <= k /\ k < chunkEnds[c]
    BY <1>2 DEF Cut, CutOf, Tasks
  <2>2. at[c] \in Int /\ at[c] < chunkStarts[c]  BY <1>1 DEF BackwardInv
  <2>3. k \in at[c] + 1 .. chunkEnds[c] - 1  BY <1>2, <2>1, <2>2
  <2> QED  BY <1>1, <1>2, <2>3 DEF BackwardInv
<1>4. BaseInv'
  <2>1. pc' \notin Rounds  BY <1>1 DEF Rounds
  <2> QED  BY <1>1, <2>1 DEF BaseInv, Indices
<1> QED  BY <1>1, <1>3, <1>4 DEF FreshInv, SerialInv, SplitInv, ForwardInv, ProductsInv,
            BackwardInv

LEMMA StutterStep == ASSUME IInv, UNCHANGED vars PROVE IInv'
<1> USE DEF IInv
<1>1. /\ pc' = pc /\ n' = n /\ nbTasks' = nbTasks /\ i' = i /\ vec' = vec /\ buf' = buf
      /\ acc' = acc /\ start' = start /\ chunkStarts' = chunkStarts /\ chunkEnds' = chunkEnds
      /\ chunkProd' = chunkProd /\ prefixBefore' = prefixBefore /\ suffixAfter' = suffixAfter
      /\ at' = at /\ accs' = accs /\ input' = input
  BY DEF vars, arrays, chunks, prods
<1>2. BaseInv'  BY <1>1 DEF BaseInv, Indices, Cut, Rounds
<1>3. FreshInv' /\ SerialInv' /\ Inverted'  BY <1>1 DEF FreshInv, SerialInv, Inverted, Indices
<1>4. SplitInv'  BY <1>1 DEF SplitInv, Cut, base, extra
<1>5. ForwardInv'  BY <1>1 DEF ForwardInv, Running, W, Tasks
<1>6. ProductsInv'  BY <1>1 DEF ProductsInv, RunningChunk, Running, W, Tasks
<1>7. BackwardInv'  BY <1>1 DEF BackwardInv, Running, Tasks
<1> QED  BY <1>2, <1>3, <1>4, <1>5, <1>6, <1>7

\* The inductive invariant holds in every reachable state.
THEOREM Invariance == Spec => []IInv
<1>1. Init => IInv  BY InitInv
<1>2. IInv /\ [Next]_vars => IInv'
  <2> SUFFICES ASSUME IInv, [Next]_vars PROVE IInv'  OBVIOUS
  <2>1. CASE Begin  BY <2>1, BeginInv
  <2>2. CASE SerialForward  BY <2>2, SerialForwardInv
  <2>3. CASE SerialBackward  BY <2>3, SerialBackwardInv
  <2>4. CASE Split  BY <2>4, SplitStep
  <2>5. CASE JoinForward  BY <2>5, JoinForwardStep
  <2>6. CASE Prefix  BY <2>6, PrefixStep
  <2>7. CASE Suffix  BY <2>7, SuffixStep
  <2>8. CASE Combine  BY <2>8, CombineStep
  <2>9. CASE JoinBackward  BY <2>9, JoinBackwardStep
  <2>10. CASE \E c \in Tasks : Worker(c)
    <3>1. PICK c \in Tasks : Worker(c)  BY <2>10
    <3> QED  BY <3>1, ForwardStep, BackwardStep DEF Worker
  <2>11. CASE UNCHANGED vars  BY <2>11, StutterStep
  <2> QED  BY <2>1, <2>2, <2>3, <2>4, <2>5, <2>6, <2>7, <2>8, <2>9, <2>10, <2>11
           DEF Next, Caller
<1> QED  BY <1>1, <1>2, PTL DEF Spec

\* The types of batchInvert's variables (prove.go:1371-1409).
THEOREM TypeOKThm == Spec => []TypeOK
<1>1. IInv => TypeOK
  <2> SUFFICES ASSUME IInv PROVE TypeOK  OBVIOUS
  <2>1. Parallel =>
          DOMAIN chunkStarts = Tasks /\ DOMAIN chunkEnds = Tasks /\ DOMAIN at = Tasks
    <3> HAVE Parallel
    <3>1. chunkStarts \in [Tasks -> Nat] /\ chunkEnds \in [Tasks -> Nat]
      BY RoundFacts DEF IInv, Parallel, Rounds
    <3>2. at \in [Tasks -> Int]
      BY DEF IInv, Parallel, ForwardInv, ProductsInv, BackwardInv
    <3> QED  BY <3>1, <3>2
  <2> QED  BY <2>1 DEF TypeOK, IInv, BaseInv, BackwardInv
<1> QED  BY <1>1, Invariance, PTL

\* When batchInvert (prove.go:1371) returns, every entry of vec is the inverse
\* of what it was: for every group, length and number of CPUs.
THEOREM InvertedThm == Spec => []Inverted
<1>1. IInv => Inverted  BY DEF IInv
<1> QED  BY <1>1, Invariance, PTL

\* The chunks batchInvert starts its goroutines on partition the vector.
THEOREM ChunksPartitionThm == Spec => []ChunksPartition
<1>1. IInv => ChunksPartition
  <2> SUFFICES ASSUME IInv, Parallel PROVE ChunksPartition  BY DEF ChunksPartition
  <2>1. nbTasks \in Nat \ {0} /\ Cut(nbTasks, n)
    BY RoundFacts DEF IInv, Parallel, Rounds
  <2> QED  BY <2>1 DEF ChunksPartition, Cut, CutOf, Tasks
<1> QED  BY <1>1, Invariance, PTL

\* In both rounds the goroutines of batchInvert stay inside the vector, and none
\* writes an entry another reads or writes.
THEOREM NoRaceThm == Spec => []NoRace
<1>1. IInv => NoRace
  <2> SUFFICES ASSUME IInv, NEW c \in Tasks, pc \in {"forward", "backward"}
               PROVE  /\ Writes(c) \cup Reads(c) \subseteq Indices
                      /\ \A d \in Tasks \ {c} : Writes(c) \cap (Writes(d) \cup Reads(d)) = {}
    BY DEF NoRace
  <2>1. /\ n \in Nat /\ nbTasks \in Nat /\ Cut(nbTasks, n)
        /\ \A d \in Tasks : /\ chunkStarts[d] \in Nat /\ chunkEnds[d] \in Nat
                            /\ chunkStarts[d] < chunkEnds[d] /\ chunkEnds[d] <= n
    BY RoundFacts DEF IInv, Rounds
  <2>2. \A d \in Tasks : /\ at[d] \in Int
                         /\ pc = "forward" => chunkStarts[d] <= at[d]
                         /\ pc = "backward" => at[d] < chunkEnds[d]
    BY <2>1 DEF IInv, ForwardInv, BackwardInv
  <2>3. \A d \in Tasks : \A x \in Writes(d) \cup Reads(d) :
          x \in Int /\ chunkStarts[d] <= x /\ x < chunkEnds[d]
    <3> TAKE d \in Tasks
    <3> TAKE x \in Writes(d) \cup Reads(d)
    <3>1. CASE pc = "forward"  BY <2>1, <2>2, <3>1 DEF Writes, Reads
    <3>2. CASE pc = "backward"  BY <2>1, <2>2, <3>2 DEF Writes, Reads
    <3> QED  BY <3>1, <3>2
  <2>4. Writes(c) \cup Reads(c) \subseteq Indices  BY <2>1, <2>3 DEF Indices
  <2>5. ASSUME NEW d \in Tasks \ {c}, NEW x \in Writes(c) \cap (Writes(d) \cup Reads(d))
        PROVE  FALSE
    <3>1. /\ x \in Int /\ chunkStarts[c] <= x /\ x < chunkEnds[c]
          /\ chunkStarts[d] <= x /\ x < chunkEnds[d]
      BY <2>3
    <3> QED  BY <2>1, <3>1, Apart
  <2> QED  BY <2>4, <2>5
<1> QED  BY <1>1, Invariance, PTL
==============================================================================
