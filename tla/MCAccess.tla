------------------------------ MODULE MCAccess ------------------------------
(* One administrator, two concurrent requests.                             *)
EXTENDS AccessProperties, TLC

CONSTANTS u1, k1, r1, r2

RequestSymmetry == Permutations({r1, r2})

MCLimits == [login |-> 2, signup |-> 1]
=============================================================================
