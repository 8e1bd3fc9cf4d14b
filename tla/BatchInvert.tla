----------------------------- MODULE BatchInvert -----------------------------
(***************************************************************************)
(* batchInvert (integration/prove.go): the inverses of a vector with one   *)
(* inversion.  Long vectors are cut into one chunk per CPU; goroutines     *)
(* compute the running products of the chunks, the caller combines the     *)
(* chunk products into the inverse of each, and goroutines walk the chunks *)
(* backwards.  F with Mul is the group of the nonzero field elements: the  *)
(* function does not check for zero.                                       *)
(***************************************************************************)
EXTENDS Integers

CONSTANTS
  F, One, Mul(_, _), Inv(_),
  Lengths,      \* the lengths of vec
  CPUs,         \* the values of runtime.NumCPU()
  Threshold     \* 1 << 16: shorter vectors are inverted by the caller

ASSUME GroupAssumption ==
  /\ One \in F
  /\ \A a \in F : Mul(a, One) = a /\ Inv(a) \in F /\ Mul(a, Inv(a)) = One
  /\ \A a, b \in F : Mul(a, b) \in F /\ Mul(a, b) = Mul(b, a)
  /\ \A a, b, c \in F : Mul(Mul(a, b), c) = Mul(a, Mul(b, c))

ASSUME SizesAssumption ==
  Lengths \subseteq Nat /\ CPUs \subseteq Nat \ {0} /\ Threshold \in Nat

VARIABLES
  pc,
  n,             \* len(vec)
  nbTasks,
  i,             \* the caller's loop counter
  vec, buf,
  acc,           \* the caller's acc, or totalInv
  start,         \* where the next chunk starts
  chunkStarts, chunkEnds, chunkProd, prefixBefore, suffixAfter,
  at,            \* at[c]: the index goroutine c works on next
  accs,          \* accs[c]: its acc
  input          \* history: vec when batchInvert was called

arrays == <<vec, buf>>
chunks == <<start, chunkStarts, chunkEnds>>
prods  == <<chunkProd, prefixBefore, suffixAfter>>
vars   == <<pc, n, nbTasks, i, arrays, acc, chunks, prods, at, accs, input>>

Indices == 0 .. n - 1
Tasks   == 0 .. nbTasks - 1

Init ==
  /\ pc = "start"
  /\ n \in Lengths
  /\ nbTasks \in CPUs
  /\ i = 0
  /\ vec \in [0 .. n - 1 -> F] /\ input = vec
  /\ buf = [k \in 0 .. n - 1 |-> One]
  /\ acc = One
  /\ start = 0
  /\ chunkStarts = [c \in {} |-> 0] /\ chunkEnds = chunkStarts
  /\ chunkProd = [c \in {} |-> One] /\ prefixBefore = chunkProd /\ suffixAfter = chunkProd
  /\ at = chunkStarts /\ accs = chunkProd

-------------------------------------------------------------------------------
(* The start, and short vectors.                                           *)

Begin ==
  /\ pc = "start"
  /\ \/ /\ n = 0
        /\ pc' = "done"
        /\ UNCHANGED <<nbTasks, i, arrays>>
     \/ /\ n = 1
        /\ pc' = "done"
        /\ vec' = [vec EXCEPT ![0] = Inv(@)]
        /\ UNCHANGED <<nbTasks, i, buf>>
     \/ /\ n > 1
        /\ buf' = vec
        /\ nbTasks' = IF nbTasks > n THEN n ELSE nbTasks
        /\ \/ /\ n < Threshold \/ nbTasks' = 1
              /\ pc' = "serial" /\ i' = 1
           \/ /\ n >= Threshold /\ nbTasks' # 1
              /\ pc' = "split" /\ i' = 0
        /\ UNCHANGED vec
  /\ UNCHANGED <<n, acc, chunks, prods, at, accs, input>>

SerialForward ==
  /\ pc = "serial"
  /\ IF i < n
     THEN /\ vec' = [vec EXCEPT ![i] = Mul(@, vec[i - 1])]
          /\ i' = i + 1
          /\ UNCHANGED <<pc, acc>>
     ELSE /\ acc' = Inv(vec[n - 1])
          /\ i' = n - 1
          /\ pc' = "serial.back"
          /\ UNCHANGED vec
  /\ UNCHANGED <<n, nbTasks, buf, chunks, prods, at, accs, input>>

SerialBackward ==
  /\ pc = "serial.back"
  /\ IF i > 0
     THEN /\ vec' = [vec EXCEPT ![i] = Mul(acc, vec[i - 1])]
          /\ acc' = Mul(acc, buf[i])
          /\ i' = i - 1
          /\ UNCHANGED pc
     ELSE /\ vec' = [vec EXCEPT ![0] = acc]
          /\ pc' = "done"
          /\ UNCHANGED <<i, acc>>
  /\ UNCHANGED <<n, nbTasks, buf, chunks, prods, at, accs, input>>

-------------------------------------------------------------------------------
(* Chunks.                                                                 *)

\* f, extended to or changed at c.
With(f, c, v) == [k \in DOMAIN f \cup {c} |-> IF k = c THEN v ELSE f[k]]

\* Faulty: one chunk too many gets an element of the remainder.
ChunkSizeOneMore(c) == n \div nbTasks + IF c <= n % nbTasks THEN 1 ELSE 0

ChunkSize(c) == n \div nbTasks + IF c < n % nbTasks THEN 1 ELSE 0

\* Faulty: the loop runs once too often.
SplitOneMore ==
  /\ pc = "split"
  /\ IF i <= nbTasks
     THEN /\ start' = start + ChunkSize(i)
          /\ chunkStarts' = With(chunkStarts, i, start)
          /\ chunkEnds' = With(chunkEnds, i, start')
          /\ i' = i + 1
          /\ UNCHANGED <<pc, at>>
     ELSE /\ pc' = "forward"
          /\ at' = chunkStarts
          /\ UNCHANGED <<chunks, i>>
  /\ UNCHANGED <<n, nbTasks, arrays, acc, prods, accs, input>>

\* Faulty: the end of a chunk is taken as its last index.
SplitInclusive ==
  /\ pc = "split"
  /\ IF i < nbTasks
     THEN /\ start' = start + ChunkSize(i)
          /\ chunkStarts' = With(chunkStarts, i, start)
          /\ chunkEnds' = With(chunkEnds, i, start' + 1)
          /\ i' = i + 1
          /\ UNCHANGED <<pc, at>>
     ELSE /\ pc' = "forward"
          /\ at' = chunkStarts
          /\ UNCHANGED <<chunks, i>>
  /\ UNCHANGED <<n, nbTasks, arrays, acc, prods, accs, input>>

\* The loop that cuts the vector; after it the goroutines are started.
Split ==
  /\ pc = "split"
  /\ IF i < nbTasks
     THEN /\ start' = start + ChunkSize(i)
          /\ chunkStarts' = With(chunkStarts, i, start)
          /\ chunkEnds' = With(chunkEnds, i, start')
          /\ i' = i + 1
          /\ UNCHANGED <<pc, at>>
     ELSE /\ pc' = "forward"
          /\ at' = chunkStarts
          /\ UNCHANGED <<chunks, i>>
  /\ UNCHANGED <<n, nbTasks, arrays, acc, prods, accs, input>>

\* Goroutine c of the first round: the running products of its chunk, read
\* from buf, and then the product of the chunk.
Forward(c) ==
  /\ pc = "forward"
  /\ \/ /\ at[c] < chunkEnds[c]
        /\ vec' = [vec EXCEPT ![at[c]] =
                     IF at[c] = chunkStarts[c] THEN buf[at[c]]
                     ELSE Mul(vec[at[c] - 1], buf[at[c]])]
        /\ UNCHANGED chunkProd
     \/ /\ at[c] = chunkEnds[c]
        /\ chunkProd' = With(chunkProd, c, vec[chunkEnds[c] - 1])
        /\ UNCHANGED vec
  /\ at' = [at EXCEPT ![c] = @ + 1]
  /\ UNCHANGED <<pc, n, nbTasks, i, buf, acc, chunks, prefixBefore, suffixAfter, accs, input>>

\* wg.Wait(), then the products before each chunk.
JoinForward ==
  /\ pc = "forward"
  /\ \A c \in Tasks : at[c] > chunkEnds[c]
  /\ pc' = "prefix"
  /\ prefixBefore' = With(prefixBefore, 0, One)
  /\ i' = 1
  /\ UNCHANGED <<n, nbTasks, arrays, acc, chunks, chunkProd, suffixAfter, at, accs, input>>

Prefix ==
  /\ pc = "prefix"
  /\ IF i < nbTasks
     THEN /\ prefixBefore' = With(prefixBefore, i, Mul(prefixBefore[i - 1], chunkProd[i - 1]))
          /\ i' = i + 1
          /\ UNCHANGED <<pc, suffixAfter>>
     ELSE /\ suffixAfter' = With(suffixAfter, nbTasks - 1, One)
          /\ i' = nbTasks - 2
          /\ pc' = "suffix"
          /\ UNCHANGED prefixBefore
  /\ UNCHANGED <<n, nbTasks, arrays, acc, chunks, chunkProd, at, accs, input>>

\* Faulty: the product of the chunk itself instead of the next one.
SuffixSame ==
  /\ pc = "suffix"
  /\ IF i >= 0
     THEN /\ suffixAfter' = With(suffixAfter, i, Mul(suffixAfter[i + 1], chunkProd[i]))
          /\ i' = i - 1
          /\ UNCHANGED <<pc, acc>>
     ELSE /\ acc' = Inv(Mul(prefixBefore[nbTasks - 1], chunkProd[nbTasks - 1]))
          /\ i' = 0
          /\ pc' = "combine"
          /\ UNCHANGED suffixAfter
  /\ UNCHANGED <<n, nbTasks, arrays, chunks, chunkProd, prefixBefore, at, accs, input>>

\* The products after each chunk, then the one inversion.
Suffix ==
  /\ pc = "suffix"
  /\ IF i >= 0
     THEN /\ suffixAfter' = With(suffixAfter, i, Mul(suffixAfter[i + 1], chunkProd[i + 1]))
          /\ i' = i - 1
          /\ UNCHANGED <<pc, acc>>
     ELSE /\ acc' = Inv(Mul(prefixBefore[nbTasks - 1], chunkProd[nbTasks - 1]))
          /\ i' = 0
          /\ pc' = "combine"
          /\ UNCHANGED suffixAfter
  /\ UNCHANGED <<n, nbTasks, arrays, chunks, chunkProd, prefixBefore, at, accs, input>>

\* The inverse of each chunk's product; then the second round is started.
Combine ==
  /\ pc = "combine"
  /\ IF i < nbTasks
     THEN /\ chunkProd' = With(chunkProd, i, Mul(Mul(acc, prefixBefore[i]), suffixAfter[i]))
          /\ i' = i + 1
          /\ UNCHANGED <<pc, at, accs>>
     ELSE /\ pc' = "backward"
          /\ at' = [c \in Tasks |-> chunkEnds[c] - 1]
          /\ accs' = chunkProd
          /\ UNCHANGED <<chunkProd, i>>
  /\ UNCHANGED <<n, nbTasks, arrays, acc, chunks, prefixBefore, suffixAfter, input>>

\* Goroutine c of the second round, from the end of its chunk to its start.
Backward(c) ==
  /\ pc = "backward"
  /\ at[c] >= chunkStarts[c]
  /\ IF at[c] > chunkStarts[c]
     THEN /\ vec' = [vec EXCEPT ![at[c]] = Mul(vec[at[c] - 1], accs[c])]
          /\ accs' = [accs EXCEPT ![c] = Mul(@, buf[at[c]])]
     ELSE /\ vec' = [vec EXCEPT ![at[c]] = accs[c]]
          /\ UNCHANGED accs
  /\ at' = [at EXCEPT ![c] = @ - 1]
  /\ UNCHANGED <<pc, n, nbTasks, i, buf, acc, chunks, prods, input>>

\* Faulty: a goroutine whose chunk has a single entry does not call Done.
JoinLongChunks ==
  /\ pc = "backward"
  /\ \A c \in Tasks : at[c] < chunkStarts[c] /\ chunkEnds[c] - chunkStarts[c] > 1
  /\ pc' = "done"
  /\ UNCHANGED <<n, nbTasks, i, arrays, acc, chunks, prods, at, accs, input>>

JoinBackward ==
  /\ pc = "backward"
  /\ \A c \in Tasks : at[c] < chunkStarts[c]
  /\ pc' = "done"
  /\ UNCHANGED <<n, nbTasks, i, arrays, acc, chunks, prods, at, accs, input>>

Caller == \/ Begin \/ SerialForward \/ SerialBackward \/ Split \/ JoinForward
          \/ Prefix \/ Suffix \/ Combine \/ JoinBackward

Worker(c) == Forward(c) \/ Backward(c)

Next == Caller \/ \E c \in Tasks : Worker(c)

\* The Go scheduler runs the caller and every goroutine it waits for.
Fairness == WF_vars(Caller) /\ WF_vars(\E c \in Tasks : Worker(c))

Spec == Init /\ [][Next]_vars /\ Fairness

-------------------------------------------------------------------------------
(* Properties.                                                             *)

Parallel == pc \in {"forward", "prefix", "suffix", "combine", "backward"}

TypeOK ==
  /\ n \in Nat /\ nbTasks \in Nat \ {0} /\ i \in Int
  /\ vec \in [Indices -> F] /\ buf \in [Indices -> F] /\ input \in [Indices -> F]
  /\ acc \in F
  /\ Parallel => DOMAIN chunkStarts = Tasks /\ DOMAIN chunkEnds = Tasks /\ DOMAIN at = Tasks
  /\ pc = "backward" => accs \in [Tasks -> F] /\ chunkProd \in [Tasks -> F]

\* When batchInvert returns, every entry is the inverse of what it was, for any
\* length, number of CPUs and interleaving of the goroutines.
Inverted == pc = "done" => \A k \in Indices : Mul(vec[k], input[k]) = One

\* The chunks follow each other without a gap or an overlap, none is empty, and
\* the last one ends with the vector.
ChunksPartition ==
  Parallel => /\ chunkStarts[0] = 0 /\ chunkEnds[nbTasks - 1] = n
              /\ \A c \in Tasks : chunkStarts[c] < chunkEnds[c]
              /\ \A c \in Tasks \ {0} : chunkStarts[c] = chunkEnds[c - 1]

\* What goroutine c writes and reads of vec in its next step.
Writes(c) ==
  CASE pc = "forward" /\ at[c] < chunkEnds[c]    -> {at[c]}
    [] pc = "backward" /\ at[c] >= chunkStarts[c] -> {at[c]}
    [] OTHER                                      -> {}

Reads(c) ==
  CASE pc = "forward" /\ at[c] \in chunkStarts[c] + 1 .. chunkEnds[c] -> {at[c] - 1}
    [] pc = "backward" /\ at[c] > chunkStarts[c]                      -> {at[c] - 1}
    [] OTHER                                                          -> {}

\* No goroutine writes an entry of vec another one reads or writes, and all
\* entries are in the vector.
NoRace ==
  \A c \in Tasks :
    /\ pc \in {"forward", "backward"} => Writes(c) \cup Reads(c) \subseteq Indices
    /\ pc \in {"forward", "backward"} =>
         \A d \in Tasks \ {c} : Writes(c) \cap (Writes(d) \cup Reads(d)) = {}

\* batchInvert returns: every goroutine it waits for ends.
Returns == <>(pc = "done")
===============================================================================
