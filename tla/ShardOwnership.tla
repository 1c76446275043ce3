--------------------------- MODULE ShardOwnership ---------------------------
(***************************************************************************)
(* What exclusive remote sessions promise of one shard: one session at a   *)
(* time owns it, a session that ended never owns it again, and a worker    *)
(* dispatches a row only after a confirmation, given to the session it     *)
(* works under while that session owned the shard.  A confirmation is good *)
(* for one dispatch.  It may be used after the session has ended.          *)
(***************************************************************************)
EXTENDS Naturals

CONSTANTS
  Workers,    \* workers that pick the shard up
  Rows,       \* rows of the shard
  Stamps,     \* pickup times, which tell sessions of one worker apart
  Nobody,     \* the owner of a free shard, not one of Workers
  None        \* no session, not one of Stamps

VARIABLES
  owner,      \* the session <<worker, stamp>> that owns the shard, or Free
  session,    \* worker -> the stamp of the session it works under, or None
  confirmed,  \* worker -> whether it has a confirmation to use
  done        \* worker -> how often each row was dispatched under its session

ownershipVars == <<owner, session, confirmed, done>>

Free == <<Nobody, None>>

Nothing == [r \in Rows |-> 0]

OwnershipInit ==
  /\ owner = Free
  /\ session = [w \in Workers |-> None]
  /\ confirmed = [w \in Workers |-> FALSE]
  /\ done = [w \in Workers |-> Nothing]

\* The shard changes hands: the stamp is one that no worker works under.
Grant(w, t) ==
  /\ \A v \in Workers : session[v] # t
  /\ owner' = <<w, t>>
  /\ UNCHANGED <<session, confirmed, done>>

\* A release, an expiry.
End ==
  /\ owner' = Free
  /\ UNCHANGED <<session, confirmed, done>>

\* A worker without a session starts to work under one.
Hold(w, t) ==
  /\ session[w] = None
  /\ session' = [session EXCEPT ![w] = t]
  /\ UNCHANGED <<owner, confirmed, done>>

Confirm(w) ==
  /\ session[w] # None /\ owner = <<w, session[w]>>
  /\ confirmed' = [confirmed EXCEPT ![w] = TRUE]
  /\ UNCHANGED <<owner, session, done>>

\* A confirmation used for something else, or not received.
Forget(w) ==
  /\ confirmed' = [confirmed EXCEPT ![w] = FALSE]
  /\ UNCHANGED <<owner, session, done>>

Dispatch(w, r) ==
  /\ confirmed[w] /\ done[w][r] = 0
  /\ done' = [done EXCEPT ![w][r] = 1]
  /\ confirmed' = [confirmed EXCEPT ![w] = FALSE]
  /\ UNCHANGED <<owner, session>>

\* A worker stops working under its session, which may still own the shard.
Leave(w) ==
  /\ session' = [session EXCEPT ![w] = None]
  /\ confirmed' = [confirmed EXCEPT ![w] = FALSE]
  /\ done' = [done EXCEPT ![w] = Nothing]
  /\ UNCHANGED owner

OwnershipNext ==
  \/ End
  \/ \E w \in Workers : Confirm(w) \/ Forget(w) \/ Leave(w)
  \/ \E w \in Workers, t \in Stamps : Grant(w, t) \/ Hold(w, t)
  \/ \E w \in Workers, r \in Rows : Dispatch(w, r)

OwnershipSpec == OwnershipInit /\ [][OwnershipNext]_ownershipVars
=============================================================================
