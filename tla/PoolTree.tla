------------------------------ MODULE PoolTree ------------------------------
(***************************************************************************)
(* The Merkle tree of the shielded pool, three times: the contract's       *)
(* incremental insertion (zk/verifier/src/pool.rs), the full table the     *)
(* client rebuilds (lib/pool/tree.ts) and the path check of the withdraw   *)
(* circuit (zk/circuits/withdraw.circom).                                  *)
(***************************************************************************)
EXTENDS MiMC

CONSTANTS
  Depth,       \* tree depth: 4 in the contract, the client and the circuit
  ZeroLeaf,    \* an empty leaf
  Hash2(_, _)  \* the hash of a node, for a tree that no particular hash is assumed of

Capacity == 2^Depth

ASSUME DepthAssumption == Depth \in Nat \ {0} /\ Capacity \in Nat

\* A tree is named for what hashes it: the client's, the contract's or the
\* circuit's MiMC, in whose trees an empty leaf is the field element 0, or Hash2.
EmptyLeaf(of) == IF of \in {"client", "contract", "circuit"} THEN 0 ELSE ZeroLeaf

Node(of, left, right) ==
  CASE of = "client"   -> ClientHash2(left, right)
    [] of = "contract" -> ContractHash2(left, right)
    [] of = "circuit"  -> CircuitHash2(left, right)
    [] OTHER           -> Hash2(left, right)

\* Root of an all-empty subtree, per height.
Zero(of) ==
  LET zero[i \in 0..Depth] == IF i = 0 THEN EmptyLeaf(of) ELSE Node(of, zero[i - 1], zero[i - 1])
  IN  zero

\* Bit `level` of a leaf index: the node on its path is a right child.
IsRight(index, level) == (index \div 2^level) % 2 = 1

-----------------------------------------------------------------------------
(* The contract.                                                           *)

\* The nodes on the path of a leaf inserted at index, from the leaf up, given
\* the last-filled left node of every level.
Climb(of, lefts, index, leaf) ==
  LET node[i \in 0..Depth] ==
        IF i = 0 THEN leaf
        ELSE IF IsRight(index, i - 1) THEN Node(of, lefts[i - 1], node[i - 1])
        ELSE Node(of, node[i - 1], Zero(of)[i - 1])
  IN  node

\* (fault) A left node is remembered only at the leaf level.
FilledLeavesOnly(of, lefts, index, leaf) ==
  [i \in 0..Depth - 1 |-> IF i > 0 \/ IsRight(index, i) THEN lefts[i]
                          ELSE Climb(of, lefts, index, leaf)[i]]

\* The left nodes remembered after the insertion.
FilledAfter(of, lefts, index, leaf) ==
  [i \in 0..Depth - 1 |-> IF IsRight(index, i) THEN lefts[i]
                          ELSE Climb(of, lefts, index, leaf)[i]]

-----------------------------------------------------------------------------
(* The client.                                                             *)

\* The node table: level 0 holds the leaves padded with zeros.
Levels(of, leaves) ==
  LET level[l \in 0..Depth] ==
        [j \in 0..2^(Depth - l) - 1 |->
           IF l > 0 THEN Node(of, level[l - 1][2 * j], level[l - 1][2 * j + 1])
           ELSE IF j < Len(leaves) THEN leaves[j + 1] ELSE EmptyLeaf(of)]
  IN  level

RootOf(of, leaves) == Levels(of, leaves)[Depth][0]

\* (fault) The sibling is always taken from the right.
PathRightOf(of, leaves, index) ==
  [l \in 0..Depth - 1 |->
     LET width == 2^(Depth - l)
     IN  Levels(of, leaves)[l][((index \div 2^l) + 1) % width]]

\* The sibling of the path node at every level.
PathOf(of, leaves, index) ==
  [l \in 0..Depth - 1 |->
     LET j == index \div 2^l
     IN  Levels(of, leaves)[l][IF IsRight(index, l) THEN j - 1 ELSE j + 1]]

-----------------------------------------------------------------------------
(* The circuit.                                                            *)

\* What MerkleTreeChecker computes from a leaf and its path.
RootFromPath(of, leaf, index, path) ==
  LET node[i \in 0..Depth] ==
        IF i = 0 THEN leaf
        ELSE IF IsRight(index, i - 1) THEN Node(of, path[i - 1], node[i - 1])
        ELSE Node(of, node[i - 1], path[i - 1])
  IN  node[Depth]
=============================================================================
