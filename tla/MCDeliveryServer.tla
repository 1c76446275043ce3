-------------------------- MODULE MCDeliveryServer --------------------------
(* Instances of DeliveryServer for TLC. *)
EXTENDS DeliveryServer, TLC

CONSTANTS s1, s2, a, b, c, d, w1, w2

\* Three rows of one shard, one of another.
Placed == a :> s1 @@ b :> s1 @@ c :> s1 @@ d :> s2

Put(batch) == [op |-> "write", batch |-> batch]
Drop(rows) == [op |-> "remove", rows |-> rows]
Pick(s, w, pendingOnly, revalidate) ==
  [op |-> "pick", shard |-> s, worker |-> w,
   pendingOnly |-> pendingOnly, revalidate |-> revalidate]
Release(s, w) == [op |-> "release", shard |-> s, worker |-> w]
ExpireAfter(period) == [op |-> "expire", period |-> period]

\* Insertions, a batch that overwrites, a status change and a duplicate; every
\* pickup mode; a release, and a removal that empties either shard.
Mutations ==
  {Put(a :> "TO_DELIVER"), Put(a :> "DELIVERED" @@ b :> "TO_DELIVER"),
   Put(c :> "TO_DELIVER"), Put(d :> "TO_DELIVER"), Drop({a, b, d}),
   Pick(s1, w1, FALSE, FALSE), Pick(s1, w2, TRUE, FALSE), Pick(s1, w1, FALSE, TRUE),
   Release(s1, w1), ExpireAfter(1)}
=============================================================================
