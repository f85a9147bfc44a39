------------------------------- MODULE MerkleTree ------------------------------
(******************************************************************************)
(* The sorted-pair Merkle tree of the indexer (indexer/merkle.ts, indexer/    *)
(* merkle-v2.ts; the two files hold the same code).  A hash is a term: the    *)
(* hash of a leaf is the leaf, the hash of a pair in sorted order is the set  *)
(* of the two, so that hashes are equal exactly when their inputs are.        *)
(******************************************************************************)
EXTENDS Integers, Sequences, SequencesExt

CONSTANT NoLeaf \* what an inner node holds instead of a leaf

MERKLE_PROOF_MAX_DEPTH == 16

leafNode(leaf) == [leaf |-> leaf, kids |-> {}]

hashSortedPair(a, b) == [leaf |-> NoLeaf, kids |-> {a, b}]

(* A node without a neighbour is paired with itself. *)
nextLayer(layer) ==
  [i \in 1 .. (Len(layer) + 1) \div 2 |->
     hashSortedPair(layer[2 * i - 1], layer[IF 2 * i <= Len(layer) THEN 2 * i ELSE 2 * i - 1])]

(* The layers from the leaves up to the root, for a nonempty list of leaves. *)
buildSortedPairTreeLayers(leaves) ==
  LET layer[k \in 0 .. MERKLE_PROOF_MAX_DEPTH] ==
        IF k = 0 THEN leaves ELSE nextLayer(layer[k - 1])
      height == CHOOSE k \in 0 .. MERKLE_PROOF_MAX_DEPTH :
                  /\ Len(layer[k]) = 1
                  /\ \A j \in 0 .. k - 1 : Len(layer[j]) > 1
  IN [k \in 1 .. height + 1 |-> layer[k - 1]]

rootOf(layers) == layers[Len(layers)][1]

(* Mutant: an orphan is given no sibling. *)
generateSortedPairProof_SkipsOrphan(layers, leafIndex) ==
  LET at(k)  == leafIndex \div (2 ^ (k - 1))
      sib(k) == IF at(k) % 2 = 1 THEN at(k) - 1 ELSE at(k) + 1
      levels == SelectSeq([k \in 1 .. Len(layers) - 1 |-> k], LAMBDA k : sib(k) < Len(layers[k]))
  IN [i \in 1 .. Len(levels) |-> layers[levels[i]][sib(levels[i]) + 1]]

(* The sibling at each level, of the node the leaf lies under; leafIndex      *)
(* counts from zero.                                                          *)
generateSortedPairProof(layers, leafIndex) ==
  LET idx[k \in 1 .. Len(layers)] == IF k = 1 THEN leafIndex ELSE idx[k - 1] \div 2
      siblingIdx(k) == IF idx[k] % 2 = 1 THEN idx[k] - 1 ELSE idx[k] + 1
  IN [k \in 1 .. Len(layers) - 1 |->
        layers[k][(IF siblingIdx(k) < Len(layers[k]) THEN siblingIdx(k) ELSE idx[k]) + 1]]

verifyLeafProof(leaf, proof, root) ==
  LET computed[k \in 0 .. Len(proof)] ==
        IF k = 0 THEN leaf ELSE hashSortedPair(computed[k - 1], proof[k])
  IN /\ Len(proof) <= MERKLE_PROOF_MAX_DEPTH
     /\ computed[Len(proof)] = root
================================================================================
