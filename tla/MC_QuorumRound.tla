--------------------------- MODULE MC_QuorumRound ---------------------------
(* Two competing blocks of epoch 0 and one of epoch 1, four finalizers in
   each epoch with weights 1 and 2, threshold 2/3.  The committee of epoch 1
   has other members and the same total weight. *)
EXTENDS QuorumRound

CONSTANTS blockA, blockB, blockC

MCBlocks == {blockA, blockB, blockC}
MCBlockEpoch == blockA :> 0 @@ blockB :> 0 @@ blockC :> 1

Weighted(ids, weights) == [i \in DOMAIN ids |-> [id |-> ids[i], weight |-> weights[i]]]
Early == Weighted(<<1, 2, 3, 5>>, <<2, 2, 1, 1>>)
SameTotal == 0 :> Early @@ 1 :> Weighted(<<2, 3, 4, 5>>, <<1, 1, 2, 2>>)
=============================================================================
