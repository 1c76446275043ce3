----------------------- MODULE MCShardedWorkRegistry -----------------------
(* Two nodes with one drain each. *)
EXTENDS ShardedWorkRegistry, TLC

CONSTANTS w1, w2, c1, c3

MCPairs == c1 :> w1 @@ c3 :> w2
=============================================================================
