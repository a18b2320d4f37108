--------------------------- MODULE MC_NodeShutdown ---------------------------
EXTENDS NodeShutdown, TLC
MCDepth == "in_hi" :> 2 @@ "in_lo" :> 1 @@ "out_hi" :> 1 @@ "out_lo" :> 1

(* The second period has fewer blocks than the first. *)
MCPeriods == <<3, 2>>
=============================================================================
