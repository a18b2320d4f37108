--------------------------- MODULE MC_GrpcServer ---------------------------
(* The first request may be for any endpoint.  The second competes with it
   for the thread, the permit and the transaction, or subscribes. *)
EXTENDS GrpcServer, TLC
CONSTANTS r1, r2
MCRequests == {r1, r2}
MCOffered == (r1 :> Endpoints) @@ (r2 :> {get_ancestors, get_blocks, send_block_item, dry_run})
=============================================================================
