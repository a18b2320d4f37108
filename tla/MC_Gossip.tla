----------------------------- MODULE MC_Gossip ------------------------------
(* Three nodes that are all connected, one of them also to a bootstrapper.  Two
   blocks that share a deduplication queue of one place, and a transaction. *)
EXTENDS Gossip

MCNodes == {"a", "b", "c", "boot"}
MCLinks == {{"a", "b"}, {"b", "c"}, {"a", "c"}, {"a", "boot"}}
MCTypeOf == [block1 |-> "Block", block2 |-> "Block", tx |-> "Transaction"]
MCMaker == [block1 |-> "a", block2 |-> "b", tx |-> "c"]
MCPayloads == DOMAIN MCTypeOf
=============================================================================
