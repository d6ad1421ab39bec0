---------------------------- MODULE MCPoolClaims ----------------------------
(* Two rows: one for a person with an address, one without.                *)
EXTENDS PoolClaimsProperties, TLC

CONSTANTS ann, c1, c2

ClaimSymmetry == Permutations({c1, c2})

MCEmail == <<ann, NoEmail>>
MCAmount == <<3, 4>>
=============================================================================
