----------------------------- MODULE MerkleTree -----------------------------
(***************************************************************************)
(* The Merkle root over the transactions of a batch (computeMerkleRoot in  *)
(* batch/batch.go): round by round, neighbours hashed together and an odd  *)
(* last hash carried over as it is.  SHA-256 is injective: a hash is the   *)
(* record of what was hashed.                                              *)
(***************************************************************************)
EXTENDS Naturals, Sequences

LeafHash(t)    == [leaf |-> t]
NodeHash(l, r) == [left |-> l, right |-> r]
EmptyRoot      == [none |-> "0x0"]

\* Mutant: an odd last hash is paired with itself.
PairDoubled(hashes, size, i) ==
  IF 2 * i <= size THEN NodeHash(hashes[2 * i - 1], hashes[2 * i])
  ELSE IF size = 1 THEN hashes[1]
  ELSE NodeHash(hashes[2 * i - 1], hashes[2 * i - 1])

\* What becomes hash i of the next round, from the size hashes of this one.
Pair(hashes, size, i) ==
  IF 2 * i <= size THEN NodeHash(hashes[2 * i - 1], hashes[2 * i])
                   ELSE hashes[2 * i - 1]

\* Left(n)[round]: how many of n hashes are left after so many rounds.
Left(n) ==
  LET After[round \in 0..n] ==
        IF round = 0 THEN n ELSE (After[round - 1] + 1) \div 2
  IN After

(***************************************************************************)
(* The hashes after each round.  The loop ends when one is left; the       *)
(* rounds counted beyond that leave it as it is.                           *)
(***************************************************************************)
Rounds(hashes) ==
  LET left == Left(Len(hashes))
      After[round \in 0..Len(hashes)] ==
        [i \in 1..left[round] |->
           IF round = 0 THEN hashes[i]
                        ELSE Pair(After[round - 1], left[round - 1], i)]
  IN After

Leaves(txs) == [i \in 1..Len(txs) |-> LeafHash(txs[i])]

MerkleRoot(txs) ==
  IF txs = <<>> THEN EmptyRoot ELSE Rounds(Leaves(txs))[Len(txs)][1]

(***************************************************************************)
(* The reference: the tree of a list is that of its first hashes, as many  *)
(* as the largest power of two below its length, next to that of the rest  *)
(* (the shape of RFC 6962).                                                *)
(***************************************************************************)
SplitPoint[n \in Nat] == IF n <= 2 THEN 1 ELSE 2 * SplitPoint[(n + 1) \div 2]

\* Subtrees(hashes)[n][from]: the tree of the n hashes from the given one on.
Subtrees(hashes) ==
  LET Tree[n \in 1..Len(hashes)] ==
        [from \in 1..(Len(hashes) + 1 - n) |->
           IF n = 1 THEN hashes[from]
           ELSE NodeHash(Tree[SplitPoint[n]][from],
                         Tree[n - SplitPoint[n]][from + SplitPoint[n]])]
  IN Tree

TreeOf(txs) == Subtrees(Leaves(txs))[Len(txs)][1]

=============================================================================
