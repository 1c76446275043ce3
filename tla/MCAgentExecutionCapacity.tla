---------------------- MODULE MCAgentExecutionCapacity ----------------------
(* Instances of AgentExecutionCapacity for TLC. *)
EXTENDS AgentExecutionCapacity

CONSTANTS r1, r2, r3, r4, k1, k2, k3

\* Four requests, two of them for the same agent.
Shared == r1 :> k1 @@ r2 :> k2 @@ r3 :> k3 @@ r4 :> k1
=============================================================================
