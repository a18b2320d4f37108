---------------------------- MODULE MC_PollLoop ----------------------------
(* Two nodes; the first is reached by a connection from each side. *)
EXTENDS PollLoop
CONSTANTS nodeA, nodeB
MCAddr == <<nodeA, nodeA, nodeB>>
MCAddr2 == <<nodeA, nodeB>>
=============================================================================
