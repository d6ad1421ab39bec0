--------------------------- MODULE MCShieldedPool ---------------------------
(* An instance of ShieldedPool for TLC.                                    *)
EXTENDS ShieldedPoolProperties, TLC

CONSTANTS n1, n2, n3, n4, n5, r1, r2

\* A node is the pairing of its children: equal only if all below them is.
Pairing(left, right) == <<left, right>>

\* x^5 is a permutation of a field of 13, as it is of BLS12-381 Fr.
MCRoundConstant == [i \in 0..Rounds - 1 |-> IF i = 1 THEN 3 ELSE IF i = 2 THEN 7 ELSE 0]

MCAmount == [n \in Notes |-> IF n = n1 THEN 2 ELSE 1]

\* Requests are interchangeable, and so are the notes of equal amount.
PoolSymmetry == {f @@ g : f \in Permutations({r1, r2}), g \in Permutations({n2, n3, n4, n5})}
=============================================================================
