----------------------------- MODULE PoolNotes -----------------------------
(***************************************************************************)
(* From a note to a withdrawal the contract verifies, over small fields:   *)
(* the note and its text (lib/pool/note.ts, lib/validation/pool.ts), the   *)
(* amount in stroops (lib/pool/service.ts), the withdraw circuit, the      *)
(* encoding of a proof (lib/pool/proof-encoding.ts, lib/zk/groth16.ts) and *)
(* the pairing check of the contract (zk/verifier/src/groth16.rs).         *)
(*                                                                         *)
(* External: a group element is its exponent and the pairing multiplies    *)
(* exponents; a point shows as coordinates in which -s differs from s.     *)
(***************************************************************************)
EXTENDS PoolTree

CONSTANTS
  TextWidth,   \* numbers the 64 hex digits of a field can spell: more than Order
  I128Max,     \* the largest amount an i128 holds
  Places,      \* decimal places of an XLM amount (7)
  MaxXlm,      \* the most XLM a request may shield (10000)
  Precision    \* significant digits Decimal arithmetic keeps (20)

TenTo(n) == LET power[i \in 0..n] == IF i = 0 THEN 1 ELSE 10 * power[i - 1] IN power[n]

\* The order is a prime beyond 5, and the stroops of the largest amount have no
\* more digits than Decimal keeps.
ASSUME NotesAssumption ==
  /\ TextWidth \in Nat /\ TextWidth > Order
  /\ I128Max \in Field /\ I128Max > 1
  /\ {Places, MaxXlm, Precision} \subseteq Nat \ {0}
  /\ \A p \in {2, 3, 5} : Order % p # 0
  /\ MaxXlm * TenTo(Places) < TenTo(Precision)
  /\ Depth > 1

\* parseNote throws.
Malformed == -1

-----------------------------------------------------------------------------
(* Notes.                                                                  *)

WithDerived(secret, nullifier, amount) ==
  LET s == ToField(secret)  n == ToField(nullifier)  a == ToField(amount)
  IN  [secret |-> s, nullifier |-> n, amount |-> a,
       commitment |-> CommitmentHash(s, n, a), nullifierHash |-> NullifierHash(n)]

\* A text that starts with NOTE_PREFIX or not, and the fields of its payload;
\* other payloads are not three numbers of lower-case digits.
SerializeNote(n) ==
  [prefix |-> TRUE, fields |-> <<ToField(n.secret), ToField(n.nullifier), ToField(n.amount)>>]

\* The digits may spell numbers beyond the field: each is reduced.
ParseNote(text) ==
  IF text.prefix /\ Len(text.fields) = 3
    THEN WithDerived(text.fields[1], text.fields[2], text.fields[3])
    ELSE [commitment |-> Malformed]

ClaimableNote(text) == text.prefix /\ ParseNote(text).commitment # Malformed

-----------------------------------------------------------------------------
(* Amounts: value * 10^-dp XLM.                                            *)

\* decimalPlaces() of the number, trailing zeros left out.
DecimalPlaces(value, dp) ==
  IF value = 0 THEN 0
  ELSE CHOOSE k \in 0..dp : /\ value % TenTo(dp - k) = 0
                            /\ \A j \in 0..k - 1 : value % TenTo(dp - j) # 0

XlmAmount(value, dp) ==
  value > 0 /\ value <= MaxXlm * TenTo(dp) /\ DecimalPlaces(value, dp) <= Places

\* Multiplication rounds half up to Precision digits.
Significant(value) ==
  LET excess == CHOOSE e \in 0..value : /\ value < TenTo(Precision + e)
                                        /\ e = 0 \/ value >= TenTo(Precision + e - 1)
      unit == TenTo(excess)
  IN  unit * ((2 * value + unit) \div (2 * unit))

\* Whole stroops, or 0 when the amount is refused.
XlmToStroops(value, dp) ==
  LET scaled == Significant(value * TenTo(Places))
  IN  IF value > 0 /\ scaled % TenTo(dp) = 0 THEN scaled \div TenTo(dp) ELSE 0

-----------------------------------------------------------------------------
(* The withdraw circuit.                                                   *)

DualMux(in0, in1, s) == <<ToField((in1 - in0) * s + in0), ToField((in0 - in1) * s + in1)>>

MerkleTreeChecker(leaf, elements, indices) ==
  LET node[i \in 0..Depth] ==
        IF i = 0 THEN leaf
        ELSE LET pair == DualMux(node[i - 1], elements[i - 1], indices[i - 1])
             IN  CircuitHash2(pair[1], pair[2])
  IN  node[Depth]

Withdraw(in) ==
  LET hasher == CommitmentHasher(in.secret, in.nullifier, in.amount) IN
  /\ \A i \in 0..Depth - 1 : in.pathIndices[i] * (1 - in.pathIndices[i]) = 0
  /\ hasher.nullifierHash = in.nullifierHash
  /\ MerkleTreeChecker(hasher.commitment, in.pathElements, in.pathIndices) = in.root

\* The order every party uses.
PublicSignals(in) == <<in.root, in.nullifierHash, in.recipient, in.amount>>

\* The input of the circuit for the note at a leaf of the client's tree; a key
\* is reduced like any number.
WithdrawInput(n, recipientKey, leaves, index) ==
  [root |-> RootOf("client", leaves), nullifierHash |-> n.nullifierHash,
   recipient |-> ToField(recipientKey), amount |-> n.amount,
   secret |-> n.secret, nullifier |-> n.nullifier,
   pathElements |-> PathOf("client", leaves, index),
   pathIndices |-> [i \in 0..Depth - 1 |-> IF IsRight(index, i) THEN 1 ELSE 0]]

-----------------------------------------------------------------------------
(* Proofs.                                                                 *)

G1(s) == <<(s * s) % Order, s>>
G2(s) == <<<<s, (2 * s + 1) % Order>>, <<(3 * s) % Order, (s * s) % Order>>>>

\* Groth16: a prover with a satisfied circuit picks a and b and solves for c.
FullProve(vk, signals, a, b) ==
  LET x == vk.ic[1] + vk.ic[2] * signals[1] + vk.ic[3] * signals[2]
             + vk.ic[4] * signals[3] + vk.ic[5] * signals[4]
      c == CHOOSE c \in Field :
             (a * b - vk.alpha * vk.beta - x * vk.gamma - c * vk.delta) % Order = 0
  IN  [a |-> G1(a), b |-> G2(b), c |-> G1(c)]

EncodeG1(p) == <<ToField(p[1]), ToField(p[2])>>
EncodeG2(p) == <<ToField(p[1][2]), ToField(p[1][1]), ToField(p[2][2]), ToField(p[2][1])>>
NegG1(p)    == EncodeG1(<<p[1], (Order - (p[2] % Order)) % Order>>)

EncodeWithdrawProof(proof, signals) ==
  [negA |-> NegG1(proof.a), b |-> EncodeG2(proof.b), c |-> EncodeG1(proof.c),
   root |-> ToField(signals[1]), nullifierHash |-> ToField(signals[2]),
   recipientField |-> ToField(signals[3]), amount |-> signals[4]]

\* The host reads a point from its bytes: Fp2 with the imaginary part first.
G1FromBytes(bytes) == CHOOSE s \in Field : G1(s) = bytes
G2FromBytes(bytes) ==
  CHOOSE s \in Field : G2(s) = <<<<bytes[2], bytes[1]>>, <<bytes[4], bytes[3]>>>>

\* e(-A, B) * e(alpha, beta) * e(vk_x, gamma) * e(C, delta) = 1.
Verify(vk, negA, b, c, signals) ==
  LET acc[i \in 0..Len(signals)] ==
        IF i = 0 THEN vk.ic[1] ELSE (acc[i - 1] + signals[i] * vk.ic[i + 1]) % Order
  IN  (  G1FromBytes(negA) * G2FromBytes(b) + vk.alpha * vk.beta
       + acc[Len(signals)] * vk.gamma + G1FromBytes(c) * vk.delta) % Order = 0

\* The low half of the element, which an i128 fills.
AmountToFr(amount) == amount % (2 * (I128Max + 1))

\* What the contract verifies, in the order it rebuilds the signals.
Verifies(vk, call) ==
  /\ call.amount \in 1..I128Max
  /\ Verify(vk, call.negA, call.b, call.c,
            <<call.root, call.nullifierHash, call.recipientField, AmountToFr(call.amount)>>)

-----------------------------------------------------------------------------
(* The commitment of a payment (lib/zk/commit.ts, commit.circom).          *)

DeriveCommitment(secret, blinding) == (((secret * secret) % Order) + blinding) % Order

ProveCommitment(secret, blinding) ==
  (((secret * secret) % Order) + (blinding % Order)) % Order

Commit(secret, blinding, commitment) == (secret * secret + blinding - commitment) % Order = 0
=============================================================================
