------------------------ MODULE MC_FramedConnection -------------------------
(* Two nodes: messages of one and of two chunks, a socket that is smaller than a
   message, a ping and a request that are answered. *)
EXTENDS FramedConnection

MCLength == [packet |-> 3, ping |-> 1, pong |-> 1, get_peers |-> 2, peer_list |-> 2]
MCPlan ==
    [initiator |-> <<Msg("packet", 1), Msg("ping", 0)>>,
     responder |-> <<Msg("get_peers", 0)>>]
=============================================================================
