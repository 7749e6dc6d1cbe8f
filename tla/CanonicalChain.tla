--------------------------- MODULE CanonicalChain ---------------------------
(***************************************************************************)
(* What the block database of core/blockchain.go promises its readers: one *)
(* chain of blocks from genesis on, which an import replaces only from     *)
(* some block on, by a branch that reaches at least as high, one block at  *)
(* a time, and which a restart or an operator may cut but never rewrite.   *)
(* A block is the sequence of choices that leads to it from genesis, so    *)
(* its parent is its front and its number is its length.                   *)
(***************************************************************************)
EXTENDS Integers, Sequences

CONSTANT Blocks

VARIABLES
  chain,     \* the canonical blocks numbered 1, 2, ...
  pending    \* the blocks an import has still to make canonical

vars == <<chain, pending>>

Init ==
  /\ chain = <<>>
  /\ pending = <<>>

(* An import found a branch to switch to: it leaves the chain after block  *)
(* k, its blocks follow each other, and it ends no lower than the chain.   *)
Switch ==
  /\ pending = <<>>
  /\ \E tip \in Blocks, k \in 0 .. Len(chain) :
       /\ Len(tip) > k
       /\ Len(tip) >= Len(chain)
       /\ SubSeq(tip, 1, k) = IF k = 0 THEN <<>> ELSE chain[k]
       /\ pending' = [i \in 1 .. Len(tip) - k |-> SubSeq(tip, 1, k + i)]
  /\ UNCHANGED chain

(* The chain after the first j blocks of the branch.                       *)
Adopted(j) ==
  IF j = 0 THEN chain
           ELSE SubSeq(chain, 1, Len(pending[1]) - 1) \o SubSeq(pending, 1, j)

(* The next block of the branch becomes the head.                          *)
Adopt ==
  /\ pending # <<>>
  /\ chain' = Adopted(1)
  /\ pending' = Tail(pending)

(* The chain is cut; an import in progress may have got further, and what  *)
(* is left of it is forgotten.                                             *)
Cut ==
  /\ \E j \in 0 .. Len(pending) :
       \E k \in 0 .. Len(Adopted(j)) : chain' = SubSeq(Adopted(j), 1, k)
  /\ pending' = <<>>

Next == Adopt \/ Cut \/ Switch

Spec == Init /\ [][Next]_vars
=============================================================================
