--------------------------- MODULE MCGceRegistrar ---------------------------
(* Instances of GceRegistrar for TLC. *)
EXTENDS GceRegistrar, TLC

CONSTANTS p1, p2, p3

\* A process of node 1, and two process starts of node 2.
TwoNodes == p1 :> 1 @@ p2 :> 2 @@ p3 :> 2

\* Every process has a registry handle of its own.
OwnHandles == [c \in Clients |-> c]

NoCalls == [c \in Clients |-> {}]

\* A state that Init leads to: p3 has registered node 2 and then crashed.
Crashed ==
  /\ time = 0
  /\ rows = [n \in Nodes |-> IF n = 2 THEN [by |-> p3, expires |-> Term] ELSE None]
  /\ op = [c \in Clients |-> Idle]
  /\ answer = [c \in Clients |-> IF c = p3 THEN "true" ELSE "none"]
  /\ aborted = {}
  /\ cursor = [h \in Handles |-> 0]
  /\ orphans = [h \in Handles |-> {}]
  /\ handle = [h \in Handles |-> "open"]
  /\ snapshot = [c \in Clients |-> None]
  /\ lapsed = [c \in Clients |-> {}]
  /\ ends = [c \in Clients |-> IF c = p3 THEN Term ELSE -1]
  /\ phase = [c \in Clients |-> IF c = p3 THEN "crashed" ELSE "new"]
  /\ confirmed = {p3}
  /\ resolved = Clients \ Derived
  /\ fenced = {}
  /\ faults = 0

\* What follows.
SuccessionSpec == Crashed /\ [][Next]_vars /\ Fairness
=============================================================================
