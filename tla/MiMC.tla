-------------------------------- MODULE MiMC --------------------------------
(***************************************************************************)
(* The MiMC sponge of the shielded pool, written three times in the        *)
(* repository: lib/pool/mimc.ts for the client, zk/verifier/src/mimc.rs    *)
(* for the contract and zk/circuits/mimcsponge.circom for the circuit.     *)
(* Only the field, the number of rounds and the round constants are        *)
(* parameters; in the code they are BLS12-381 Fr, 220 and SHA256 digests.  *)
(***************************************************************************)
EXTENDS Integers, Sequences

CONSTANTS
  Order,           \* FR: the order of the scalar field
  Rounds,          \* MIMC_ROUNDS
  RoundConstant    \* MIMC_CONSTANTS, by round

Field == 0..Order - 1

\* The first and the last constant are 0, as in circomlib.
ASSUME MiMCAssumption ==
  /\ Order \in Nat \ {0, 1} /\ Rounds \in Nat \ {0, 1}
  /\ RoundConstant \in [0..Rounds - 1 -> Field]
  /\ RoundConstant[0] = 0 /\ RoundConstant[Rounds - 1] = 0

-----------------------------------------------------------------------------
(* The client.                                                             *)

ToField(x) == ((x % Order) + Order) % Order

Pow5(t) == LET t2 == (t * t) % Order IN (((t2 * t2) % Order) * t) % Order

\* One keyed permutation; the last round does not swap.
MimcFeistel(left, right, key) ==
  LET round[i \in 0..Rounds] ==
        IF i = 0 THEN <<ToField(left), ToField(right)>>
        ELSE LET s == round[i - 1]
                 t == (ToField(key) + s[1] + (IF i = 1 THEN 0 ELSE RoundConstant[i - 1])) % Order
                 sum == (s[2] + Pow5(t)) % Order
             IN  IF i < Rounds THEN <<sum, s[1]>> ELSE <<s[1], sum>>
  IN  round[Rounds]

\* Absorb the inputs, then squeeze the outputs.
MimcSponge(inputs, outputs, key) ==
  LET state[i \in 1..Len(inputs) + outputs - 1] ==
        IF i = 1 THEN MimcFeistel(inputs[1], 0, key)
        ELSE LET s == state[i - 1]
             IN  MimcFeistel((s[1] + (IF i <= Len(inputs) THEN ToField(inputs[i]) ELSE 0)) % Order,
                             s[2], key)
  IN  [j \in 1..outputs |-> state[Len(inputs) + j - 1][1]]

ClientHash2(left, right) == MimcSponge(<<left, right>>, 1, 0)[1]

CommitmentHash(secret, nullifier, amount) == MimcSponge(<<secret, nullifier, amount>>, 1, 0)[1]

NullifierHash(nullifier) == MimcSponge(<<nullifier>>, 1, 0)[1]

-----------------------------------------------------------------------------
(* The contract: no key, one output, the host's field operations.          *)

FrAdd(x, y) == (x + y) % Order
FrMul(x, y) == (x * y) % Order
FrPow5(t) == LET t4 == FrMul(FrMul(t, t), FrMul(t, t)) IN FrMul(t4, t)

ContractFeistel(xl, xr) ==
  LET step(s, i) ==
        LET folded == FrAdd(s[2], FrPow5(IF i = 0 THEN s[1] ELSE FrAdd(s[1], RoundConstant[i])))
        IN  IF i < Rounds - 1 THEN <<folded, s[1]>> ELSE <<s[1], folded>>
      after[i \in 0..Rounds] == IF i = 0 THEN <<xl, xr>> ELSE step(after[i - 1], i - 1)
  IN  after[Rounds]

SpongeWith(inputs) ==
  LET state[i \in 1..Len(inputs)] ==
        IF i = 1 THEN ContractFeistel(inputs[1], 0)
        ELSE LET s == state[i - 1] IN ContractFeistel(FrAdd(s[1], inputs[i]), s[2])
  IN  state[Len(inputs)][1]

ContractHash2(left, right) == SpongeWith(<<left, right>>)
Commitment(secret, nullifier, amount) == SpongeWith(<<secret, nullifier, amount>>)
ContractNullifierHash(nullifier) == SpongeWith(<<nullifier>>)

-----------------------------------------------------------------------------
(* The circuit: one pair of signals for every round.                       *)

MiMCFeistel(xLin, xRin, k) ==
  LET t5(t) == ((((t * t) * (t * t)) % Order) * t) % Order
      wire[i \in 0..Rounds - 1] ==
        IF i = 0 THEN <<(xRin + t5((k + xLin) % Order)) % Order, xLin>>
        ELSE LET w == wire[i - 1]
                 folded == (w[2] + t5((k + w[1] + RoundConstant[i]) % Order)) % Order
             IN  IF i < Rounds - 1 THEN <<folded, w[1]>> ELSE <<w[1], folded>>
  IN  wire[Rounds - 1]

\* The template chains nInputs + nOutputs - 1 permutations.
MiMCSponge(ins, outs, k) ==
  LET n == Len(ins)
      S[i \in 0..n + outs - 2] ==
        IF i = 0 THEN MiMCFeistel(ins[1], 0, k)
        ELSE LET s == S[i - 1]
             IN  MiMCFeistel((s[1] + (IF i < n THEN ins[i + 1] ELSE 0)) % Order, s[2], k)
  IN  [j \in 1..outs |-> IF j = 1 THEN S[n + outs - 2][1] ELSE S[n + j - 2][1]]

CircuitHash2(left, right) == MiMCSponge(<<left, right>>, 1, 0)[1]

\* The commitment and the nullifier hash the circuit derives from a note.
CommitmentHasher(secret, nullifier, amount) ==
  [commitment |-> MiMCSponge(<<secret, nullifier, amount>>, 1, 0)[1],
   nullifierHash |-> MiMCSponge(<<nullifier>>, 1, 0)[1]]
=============================================================================
