---------------------------- MODULE MC_SkovNode ----------------------------
(* Three finalizers, two of which make a quorum.  The tree has a fork at
   round 3, an epoch change at round 4 or 5 and rounds skipped. *)
EXTENDS SkovNode

Tree == [
    g  |-> [round |-> 0, epoch |-> 0, parent |-> "g",  height |-> 0, baker |-> "p", tc |-> 0, entry |-> "none"],
    a1 |-> [round |-> 1, epoch |-> 0, parent |-> "g",  height |-> 1, baker |-> "p", tc |-> 0, entry |-> "none"],
    a2 |-> [round |-> 2, epoch |-> 0, parent |-> "a1", height |-> 2, baker |-> "p", tc |-> 0, entry |-> "none"],
    a3 |-> [round |-> 3, epoch |-> 0, parent |-> "a2", height |-> 3, baker |-> "q", tc |-> 0, entry |-> "none"],
    b3 |-> [round |-> 3, epoch |-> 0, parent |-> "a1", height |-> 2, baker |-> "q", tc |-> 2, entry |-> "none"],
    b4 |-> [round |-> 4, epoch |-> 0, parent |-> "b3", height |-> 3, baker |-> "p", tc |-> 0, entry |-> "none"],
    c4 |-> [round |-> 4, epoch |-> 1, parent |-> "a3", height |-> 4, baker |-> "s", tc |-> 0, entry |-> "a3"],
    x4 |-> [round |-> 4, epoch |-> 1, parent |-> "a3", height |-> 4, baker |-> "s", tc |-> 3, entry |-> "a3"],
    d4 |-> [round |-> 4, epoch |-> 0, parent |-> "a2", height |-> 3, baker |-> "p", tc |-> 3, entry |-> "none"],
    c5 |-> [round |-> 5, epoch |-> 1, parent |-> "c4", height |-> 5, baker |-> "q", tc |-> 0, entry |-> "none"]]

MCBlocks == DOMAIN Tree
MCRound == LET of(b) == Tree[b].round IN [b \in MCBlocks |-> of(b)]
MCEpoch == LET of(b) == Tree[b].epoch IN [b \in MCBlocks |-> of(b)]
MCParent == LET of(b) == Tree[b].parent IN [b \in MCBlocks |-> of(b)]
MCHeight == LET of(b) == Tree[b].height IN [b \in MCBlocks |-> of(b)]
MCBaker == LET of(b) == Tree[b].baker IN [b \in MCBlocks |-> of(b)]
(* This node is the leader of round 4 in either epoch. *)
MCRound4Baker == LET of(b) == IF Tree[b].round = 4 THEN "s" ELSE Tree[b].baker IN [b \in MCBlocks |-> of(b)]
MCAncestors ==
    LET Chain[b \in MCBlocks] == IF b = "g" THEN {b} ELSE {b} \cup Chain[Tree[b].parent]
    IN  Chain
MCBlockEntry == LET of(b) == IF Tree[b].entry = "none" THEN None ELSE Tree[b].entry IN [b \in MCBlocks |-> of(b)]
(* A timeout certificate in a block names the certificate of its parent, or
   for x4, whose parent is in the round given up, that of the parent of it. *)
MCBlockTC ==
    LET named(b) == Tree[IF b = "x4" THEN "a2" ELSE Tree[b].parent]
        of(b) == [round |-> Tree[b].tc, fins |-> {"p", "q"}, minEpoch |-> named(b).epoch,
                  maxEpoch |-> named(b).epoch, maxRound |-> named(b).round]
    IN  [b \in MCBlocks |-> IF Tree[b].tc = 0 THEN None ELSE of(b)]
MCCommittee ==
    LET first == {"s", "p", "q"}
        second == {"s", "p", "t"}
    IN  [e \in 0 .. 3 |-> IF e = 0 THEN first ELSE second]
(* The chain to c5, and the fork to b4, with a2 certified and dropped. *)
MCForkWorlds == {{"g", "a1", "a2", "a3", "c4", "c5"}, {"g", "a1", "a2", "b3", "b4"}}
=============================================================================
