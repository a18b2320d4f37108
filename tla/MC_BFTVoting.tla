---------------------------- MODULE MC_BFTVoting ----------------------------
(* Four finalizers of weight 1, one of them dishonest, threshold 3 of 4; two
   branches in every round, so that timeouts can lead to competing blocks. *)
EXTENDS BFTVoting, FiniteSets, TLC

CONSTANTS f1, f2, f3, f4, g, a1, b1, a2, b2, a3, b3, c3, MaxRound

MCFinalizers == {f1, f2, f3, f4}
MCHonest == {f1, f2, f3}
MCEpochs == {0, 1}
MCQuorums == [e \in MCEpochs |-> {Q \in SUBSET MCFinalizers : Cardinality(Q) = 3}]
MCRounds == 1 .. MaxRound
MCBlocks == {g, a1, b1, a2, b2, a3, b3, c3}
MCRound == g :> 0 @@ a1 :> 1 @@ b1 :> 1 @@ a2 :> 2 @@ b2 :> 2 @@ a3 :> 3 @@ b3 :> 3 @@ c3 :> 3
MCEpoch == [b \in MCBlocks |-> IF b = c3 THEN 1 ELSE 0]
MCParent == g :> g @@ a1 :> g @@ b1 :> g @@ a2 :> a1 @@ b2 :> g @@ a3 :> a2 @@ b3 :> g @@ c3 :> b2
MCAncestors == g :> {g} @@ a1 :> {g, a1} @@ b1 :> {g, b1} @@ a2 :> {g, a1, a2} @@ b2 :> {g, b2}
    @@ a3 :> {g, a1, a2, a3} @@ b3 :> {g, b3} @@ c3 :> {g, b2, c3}

Symmetry == Permutations(MCHonest)
=============================================================================
