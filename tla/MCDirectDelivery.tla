-------------------------- MODULE MCDirectDelivery --------------------------
(* Instances of DirectDelivery for TLC. *)
EXTENDS DirectDelivery, TLC

CONSTANTS agent, other

\* Two rows of one entity, which fill a page, and one for an agent.
TwoAndAgent == 1 :> other @@ 2 :> other @@ 3 :> agent

\* A row for an agent and one for another entity.
OneEach == 1 :> agent @@ 2 :> other
=============================================================================
