-------------------------- MODULE MCRemoteDelivery --------------------------
(* Instances of RemoteDelivery for TLC. *)
EXTENDS RemoteDelivery, TLC

CONSTANTS s, w1, w2

InShard == [r \in Rows |-> s]

\* Every row carries the same signal.
SameSignal == [r \in Rows |-> "x"]
=============================================================================
