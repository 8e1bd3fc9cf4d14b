---------------------------- MODULE MCPlonkAlgebra ----------------------------
(***************************************************************************)
(* Circuits of 2, 3, 4, 5 and 7 rows over the integers modulo 193, whose   *)
(* subgroups of order 2 to 64 serve as domains: the five have domain1 of   *)
(* size 16, 32, 32, 64 and 32, and rho of 8, 8, 8, 8 and 4.                *)
(***************************************************************************)
EXTENDS PlonkAlgebra, Sequences

ZeroBased(q) == [k \in 0 .. Len(q) - 1 |-> q[k + 1]]

Gate(l, r, o, ql, qr, qm, qo, qk) ==
    [l |-> l, r |-> r, o |-> o, ql |-> ql, qr |-> qr, qm |-> qm, qo |-> qo, qk |-> qk]

Neg1 == Prime - 1

\* A committed variable has a row of its own, and the hash of the commitment is
\* injected by a row whose constant completeQk fills in.
Pinned(v) == Gate(v, 0, 0, Neg1, 0, 0, 0, 0)
Committed(set, index) == [committed |-> set, index |-> index]

\* The square root 7 of the public input 49.
Square == [nbPublic |-> 1,
           gates    |-> ZeroBased(<<Gate(1, 1, 0, 0, 0, 1, Neg1, 0)>>),
           commits  |-> << >>,
           witness  |-> [v \in {<< >>} |-> ZeroBased(<<49, 7>>)]]

\* The product of two public inputs.
Product == [nbPublic |-> 2,
            gates    |-> ZeroBased(<<Gate(0, 1, 2, 0, 0, 1, Neg1, 0)>>),
            commits  |-> << >>,
            witness  |-> [v \in {<< >>} |-> ZeroBased(<<8, 17, 136>>)]]

\* x1 committed, x2 its hash, x3 = x1 x2 + 5.
OneCommit ==
    [nbPublic |-> 1,
     gates    |-> ZeroBased(<<Pinned(1), Pinned(2), Gate(1, 2, 3, 0, 0, 1, Neg1, 5)>>),
     commits  |-> ZeroBased(<<Committed({0}, 1)>>),
     witness  |-> [v \in [{0} -> HashValues] |->
                     ZeroBased(<<11, 31, v[0], (31 * v[0] + 5) % Prime>>)]]

\* x2 committed, x3 its hash, x4 = x0 x3 + 6.
PublicCommit ==
    [nbPublic |-> 2,
     gates    |-> ZeroBased(<<Pinned(2), Pinned(3), Gate(0, 3, 4, 0, 0, 1, Neg1, 6)>>),
     commits  |-> ZeroBased(<<Committed({0}, 1)>>),
     witness  |-> [v \in [{0} -> HashValues] |->
                     ZeroBased(<<9, 2, 150, v[0], (9 * v[0] + 6) % Prime>>)]]

\* x2 and x4 committed one after the other, x3 and x5 the hashes,
\* x6 = x3 + 2 x4 + x3 x4 + 7.
TwoCommits ==
    [nbPublic |-> 2,
     gates    |-> ZeroBased(<<Pinned(2), Pinned(3), Pinned(4), Pinned(5),
                              Gate(3, 4, 6, 1, 2, 1, Neg1, 7)>>),
     commits  |-> ZeroBased(<<Committed({0}, 1), Committed({2}, 3)>>),
     witness  |-> [v \in [{0, 1} -> HashValues] |->
                     ZeroBased(<<3, 60, 22, v[0], 45, v[1],
                                 (v[0] + 2 * 45 + v[0] * 45 + 7) % Prime>>)]]

AllCircuits == {Square, Product, OneCommit, PublicCommit, TwoCommits}

Blinding(l0, l1, r0, r1, o0, o1, z0, z1, z2) ==
    [L |-> ZeroBased(<<l0, l1>>), R |-> ZeroBased(<<r0, r1>>), O |-> ZeroBased(<<o0, o1>>),
     Z |-> ZeroBased(<<z0, z1, z2>>)]

SomeBlindings   == {Blinding(12, 80, 5, 133, 71, 9, 14, 152, 66)}
SomeRandomizers == {<<19, 183>>}
SomeHashes      == {28, 190}
SomeGammaBetas  == {<<23, 57>>, <<111, 40>>}
SomeAlphas      == {64}
SomeZetas       == {38, 75}
===============================================================================
