----------------------------- MODULE ShardLease -----------------------------
(***************************************************************************)
(* What the shard registry promises about the durable session record of    *)
(* one shard: it changes only by a claim of a free or expired shard, by an *)
(* extension of the current owner's own lease, or by its relinquishment.   *)
(* Every time stamp comes from the acting worker's own clock, and may be   *)
(* older than that clock when the write lands, because storage is          *)
(* asynchronous.  Clocks of different nodes differ by at most MaxSkew.     *)
(***************************************************************************)
EXTENDS Integers

CONSTANTS
  Workers,    \* durable worker identities (node and UUID)
  None,       \* the absent worker of an unowned record
  Lease,      \* lease duration, in clock units
  MaxSkew,    \* largest difference between two workers' clocks
  MaxClock    \* bound: the last clock value explored

ASSUME WorkersAssumption == None \notin Workers
ASSUME TimeAssumption == Lease \in Nat \ {0} /\ MaxSkew \in Nat /\ MaxClock \in Nat

VARIABLES
  record,     \* the ShardSessionRecord of the shard in storage
  clock       \* each worker's clock

leaseVars == <<record, clock>>

Record == [worker : Workers \union {None}, picked : Int]

\* Storage holds no row for the shard yet.
NoRecord == [worker |-> None, picked |-> -1]

Expires(r) == r.picked + Lease

\* The row names an owner whose lease is still running at time now.
LiveAt(r, now) == r.worker # None /\ Expires(r) > now

LeaseTypeOK ==
  /\ record \in Record
  /\ clock \in [Workers -> Nat]

LeaseInit ==
  /\ record = NoRecord
  /\ clock = [w \in Workers |-> 0]

-----------------------------------------------------------------------------
Tick(w) ==
  /\ clock[w] < MaxClock
  /\ \A v \in Workers : clock[w] + 1 <= clock[v] + MaxSkew
  /\ clock' = [clock EXCEPT ![w] = @ + 1]
  /\ UNCHANGED record

\* A worker takes a shard that nobody owned at one of its own past instants.
Claim(w) ==
  /\ \E t \in 0 .. clock[w] :
       /\ ~ LiveAt(record, t)
       /\ record' = [worker |-> w, picked |-> t]
  /\ UNCHANGED clock

\* The owner moves its own running lease forward.
Extend(w) ==
  /\ record.worker = w
  /\ \E t \in 0 .. clock[w] :
       /\ record.picked <= t
       /\ LiveAt(record, t)
       /\ record' = [worker |-> w, picked |-> t]
  /\ UNCHANGED clock

\* The owner gives the shard up; the row keeps its last pickup time.
Relinquish(w) ==
  /\ record.worker = w
  /\ record' = [record EXCEPT !.worker = None]
  /\ UNCHANGED clock

LeaseNext ==
  \E w \in Workers : Tick(w) \/ Claim(w) \/ Extend(w) \/ Relinquish(w)

LeaseSpec == LeaseInit /\ [][LeaseNext]_leaseVars
=============================================================================
