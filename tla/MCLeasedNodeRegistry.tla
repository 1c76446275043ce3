------------------------ MODULE MCLeasedNodeRegistry ------------------------
(* Instances of LeasedNodeRegistry for TLC. *)
EXTENDS LeasedNodeRegistry, TLC

CONSTANTS p1, p2, p3, h1, h2

\* Node 1 renews, node 2 withdraws, and a second process start of node 2 looks
\* the node up, reads the registry page by page and cleans up.
Cluster == p1 :> 1 @@ p2 :> 2 @@ p3 :> 2
OneHandle == p1 :> h1 @@ p2 :> h1 @@ p3 :> h1
ClusterCalls ==
  p1 :> {"register", "renew"} @@ p2 :> {"register", "remove"}
    @@ p3 :> {"lookup", "cleanup", "snapshot"}

\* Two nodes register and renew; one of them cleans up both rows at once.
Swept == p1 :> 1 @@ p2 :> 2
Shared == p1 :> h1 @@ p2 :> h1
SweptCalls == p1 :> {"register", "renew"} @@ p2 :> {"register", "renew", "cleanup"}
=============================================================================
