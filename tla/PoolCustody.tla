----------------------------- MODULE PoolCustody -----------------------------
(***************************************************************************)
(* What the shielded pool promises about money, without tree, roots,       *)
(* proofs and clients: a note is deposited once; it is paid once, after    *)
(* its deposit and in full; and nothing else moves the pool's balance.     *)
(* ShieldedPool implements it with the contract, PoolClaims relies on it   *)
(* for its chain: both models of a withdrawal meet here.                   *)
(***************************************************************************)
EXTENDS Integers

CONSTANTS Notes, Amount

VARIABLES
  unspent,   \* notes whose deposit is in the pool
  paid,      \* notes that have been withdrawn
  held       \* what the pool holds of its token

kvars == <<unspent, paid, held>>

KInit == unspent = {} /\ paid = {} /\ held = 0

Accept(n) ==
  /\ n \notin unspent \cup paid
  /\ unspent' = unspent \cup {n}
  /\ held' = held + Amount[n]
  /\ UNCHANGED paid

PayOut(n) ==
  /\ n \in unspent
  /\ unspent' = unspent \ {n} /\ paid' = paid \cup {n}
  /\ held >= Amount[n] /\ held' = held - Amount[n]

KNext == \E n \in Notes : Accept(n) \/ PayOut(n)

KSpec == KInit /\ [][KNext]_kvars
=============================================================================
