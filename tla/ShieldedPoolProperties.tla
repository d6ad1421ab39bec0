----------------------- MODULE ShieldedPoolProperties -----------------------
(* What the pool promises about its tree, its roots and its money.         *)
EXTENDS ShieldedPool, PoolNotes, Functions

RequestOK(req) ==
  /\ DOMAIN req = DOMAIN IdleRequest
  /\ req.pc \in RequestPc
  /\ req.op \in {"none", "deposit", "withdraw"}
  /\ req.note \in Notes \cup {None}
  /\ req.leaves \in Seq(Notes)
  /\ req.tx \in TxStatus
  /\ req.op # "none" => req.note \in Notes

TypeOK ==
  /\ initialized \in BOOLEAN
  /\ nextIndex \in 0..Capacity /\ nextIndex = Len(events)
  /\ DOMAIN filled = 0..Depth - 1
  /\ DOMAIN roots = 0..RootHistory - 1 /\ rootIdx \in 0..RootHistory - 1
  /\ spent \subseteq Notes
  /\ balance \in Nat
  /\ \A k \in 1..Len(events) : events[k].commitment \in Notes
  /\ aged \in 0..Len(events)
  /\ note \in [Notes -> {"fresh", "minted", "held", "lost"}]
  /\ DOMAIN request = Requests /\ \A r \in Requests : RequestOK(request[r])
  /\ claims \in 0..MaxClaims

-----------------------------------------------------------------------------
\* tree.ts:7: the client's tree "MUST reproduce the on-chain root bit-for-bit
\* for the same leaf set": after every deposit, the root the contract computed
\* incrementally is that of the full table over the deposits so far.
MirrorReproducesRoots ==
  \A k \in 1..Len(events) : events[k].root = RootOf("pool", SubSeq(Commitments, 1, k))

\* is_known_root looks at ROOT_HISTORY slots: a proof takes time, and as many
\* deposits as the tree still holds may come first.  No root ever published is
\* forgotten (with ROOT_HISTORY at least the capacity of the tree).
PublishedRootsStayKnown ==
  \A k \in 1..Len(events) : IsKnownRoot(events[k].root)

\* mimc.ts:6: the client, the contract and the circuit "MUST agree
\* bit-for-bit" on the hash of a nullifier, of a node and of a leaf, and so on
\* the root after each deposit and on the path of every leaf.
HashesAgree ==
  \A x, y, z \in Field :
    /\ NullifierHash(x) = ContractNullifierHash(x)
    /\ ClientHash2(x, y) = ContractHash2(x, y) /\ ClientHash2(x, y) = CircuitHash2(x, y)
    /\ CommitmentHash(x, y, z) = Commitment(x, y, z)
    /\ CommitmentHasher(x, y, z) = [commitment |-> CommitmentHash(x, y, z),
                                    nullifierHash |-> NullifierHash(y)]

TreeAgrees(leaves) ==
  LET last == Len(leaves)
      filled0 == [i \in 0..Depth - 1 |-> 0]
      before[k \in 1..last] ==
        IF k = 1 THEN filled0 ELSE FilledAfter("contract", before[k - 1], k - 2, leaves[k - 1])
      root == RootOf("client", leaves)
  IN  /\ Climb("contract", before[last], last - 1, leaves[last])[Depth] = root
      /\ \A k \in 1..last :
           RootFromPath("circuit", leaves[k], k - 1, PathOf("client", leaves, k - 1)) = root

TreesAgree == \A k \in 1..Capacity : \A leaves \in [1..k -> {0, 1, Order - 1}] : TreeAgrees(leaves)

\* A text is one note: it survives being written and read, and the texts that
\* spell the same secrets with numbers beyond the field share one nullifier.
NotesRoundTrip ==
  \A s, n, a \in 0..TextWidth - 1 :
    LET text == [prefix |-> TRUE, fields |-> <<s, n, a>>]
        read == ParseNote(text)
    IN  /\ ClaimableNote(text) /\ ParseNote(SerializeNote(read)) = read
        /\ read.nullifierHash = ContractNullifierHash(n % Order)
        /\ \A bad \in {[text EXCEPT !.prefix = FALSE], [text EXCEPT !.fields = <<s, n>>]} :
             ~ClaimableNote(bad)

\* service.ts:36: an accepted amount becomes exactly that many stroops.
AmountsExact ==
  \A dp \in 0..Places + 1 : \A value \in 0..(MaxXlm + 1) * TenTo(dp) :
    XlmAmount(value, dp) =>
      XlmToStroops(value, dp) > 0 /\ XlmToStroops(value, dp) * TenTo(dp) = value * TenTo(Places)

\* A proof for a note in the tree, encoded by the client, is one the contract
\* verifies for the recipient, amount, root and nullifier it was made for, and
\* for no other value of any of them.
Keys == {[alpha |-> 2, beta |-> 3, gamma |-> g, delta |-> d, ic |-> <<1, 2, 4, 3, 5>>] :
           g \in {1, 4}, d \in {2, Order - 1}}

ProofsBind ==
  \A key \in Keys, secret, amount \in 1..2, recipient \in {1, Order + 3}, index \in 0..1 :
    LET n      == WithDerived(secret, 3, amount)
        leaves == IF index = 0 THEN <<n.commitment, 5>> ELSE <<5, n.commitment, 6>>
        in     == WithdrawInput(n, recipient, leaves, index)
        call   == EncodeWithdrawProof(FullProve(key, PublicSignals(in), 7 % Order, 5), PublicSignals(in))
    IN  /\ Withdraw(in) /\ Verifies(key, call)
        /\ \A x \in Field :
             /\ x # call.root => ~Verifies(key, [call EXCEPT !.root = x])
             /\ x # call.nullifierHash => ~Verifies(key, [call EXCEPT !.nullifierHash = x])
             /\ x # call.recipientField => ~Verifies(key, [call EXCEPT !.recipientField = x])
             /\ x # call.amount => ~Verifies(key, [call EXCEPT !.amount = x])
        /\ \A blinding \in Field :
             Commit(secret, blinding, DeriveCommitment(secret, blinding))
             /\ ProveCommitment(secret, blinding) = DeriveCommitment(secret, blinding)

\* Whatever part of the history a client has synced, the path it builds for
\* its note satisfies the circuit for the root it states, and the proof made
\* of it says the same to the contract.
PathsSatisfyCircuit ==
  /\ HashesAgree /\ TreesAgree /\ NotesRoundTrip /\ AmountsExact /\ ProofsBind
  /\ \A r \in Requests : request[r].pc = "prove" =>
       LET leaves == request[r].leaves
       IN  \A k \in 1..Len(leaves) :
             leaves[k] = request[r].note =>
               RootFromPath("pool", leaves[k], k - 1, PathOf("pool", leaves, k - 1)) = RootOf("pool", leaves)

\* A client that synced the whole history, any number of deposits ago, has a
\* proof the contract accepts unless the note has been spent.
CompleteMirrorIsAccepted ==
  \A r \in Requests :
    LET leaves == request[r].leaves IN
    request[r].pc = "prove" /\ leaves = SubSeq(Commitments, 1, Len(leaves))
      => request[r].note \in spent \/ CanWithdraw(request[r].note, RootOf("pool", leaves))

\* The pool holds exactly the deposits whose nullifiers are not spent: retries
\* of unanswered withdrawals, concurrent claims of one note and lost answers
\* never pay a note twice or at the expense of another.
Unspent == {n \in Notes : \E k \in 1..Len(events) : events[k].commitment = n} \ spent
Solvent == balance = SumFunctionOnSet(Amount, Unspent)

\* pool.rs:10 "Custodies a token [...] withdrawals prove membership + a fresh
\* nullifier [...] and the contract pays out": whatever clients, tree, roots and
\* ledger do, a note that was deposited is paid once and in full, a note that was
\* not is never paid, and nothing else moves the pool's balance.
Custody == INSTANCE PoolCustody WITH unspent <- Unspent, paid <- spent, held <- balance
ImplementsCustody == Custody!KSpec
=============================================================================
