---------------------------- MODULE DeliveryState ----------------------------
(***************************************************************************)
(* InMemoryDeliveryState and the mutations that the Inbox and Shard        *)
(* handlers commit on it: retained inbox rows, shard pickup sessions, the  *)
(* counters kept beside them, and AdminPublisher's own count of pending    *)
(* rows.  Each operator is one admitted mutation, which JavaScript runs    *)
(* without interruption.  The serialized size of a row is one unit.        *)
(***************************************************************************)
EXTENDS Integers, FiniteSets

CONSTANTS
  Shards,         \* shard indexes
  Rows,           \* message identities; an identity includes its shard
  ShardOf,        \* the shard of each row
  Workers,        \* worker identities (node and UUID)
  Nobody,         \* the absent worker of a released session
  MaxMessages,    \* maxRetainedMessages
  MaxShards,      \* maxTrackedShards
  Timeout         \* processingTimeoutMs: 0 disables takeover at pickup

ASSUME StateAssumption ==
  /\ IsFiniteSet(Shards) /\ IsFiniteSet(Rows) /\ ShardOf \in [Rows -> Shards]
  /\ Nobody \notin Workers
  /\ MaxMessages \in Nat \ {0} /\ MaxShards \in Nat \ {0} /\ Timeout \in Nat

VARIABLES
  messages,          \* row -> its status, or "absent"
  shards,            \* the shard records: a map from tracked shards to sessions
  messageShards,     \* shard -> number of retained rows (no entry is 0)
  deliverableShards, \* shard -> number of retained TO_DELIVER rows (no entry is 0)
  messageCounts      \* the publisher's count of TO_DELIVER rows (no entry is 0)

stateVars == <<messages, shards, messageShards, deliverableShards, messageCounts>>

Statuses == {"TO_DELIVER", "DELIVERED"}

StateInit ==
  /\ messages = [r \in Rows |-> "absent"]
  /\ shards = [s \in {} |-> Nobody]
  /\ messageShards = [s \in Shards |-> 0]
  /\ deliverableShards = [s \in Shards |-> 0]
  /\ messageCounts = [s \in Shards |-> 0]

-----------------------------------------------------------------------------
RowsIn(s) == {r \in Rows : ShardOf[r] = s}
Retained(s) == {r \in RowsIn(s) : messages[r] # "absent"}
Deliverable(s) == {r \in RowsIn(s) : messages[r] = "TO_DELIVER"}

\* session(shard) is defined
Picked(s) == s \in DOMAIN shards /\ shards[s].worker # Nobody

HeldBy(s, w) == s \in DOMAIN shards /\ shards[s].worker = w

HasPending(s) == deliverableShards[s] > 0

TrackedShards == DOMAIN shards \union {s \in Shards : messageShards[s] > 0}

-----------------------------------------------------------------------------
(* Rows.                                                                   *)

\* #ensureCapacity(): the batch is accepted as a whole or not at all
Fits(batch) ==
  /\ Cardinality({r \in Rows : messages[r] # "absent"} \union DOMAIN batch) <= MaxMessages
  /\ Cardinality(TrackedShards \union {ShardOf[r] : r \in DOMAIN batch}) <= MaxShards

\* The rows of the batch, in one shard, that were pending, and that now are.
WasPending(batch, s) == {r \in DOMAIN batch \cap RowsIn(s) : messages[r] = "TO_DELIVER"}
IsPending(batch, s)  == {r \in DOMAIN batch \cap RowsIn(s) : batch[r] = "TO_DELIVER"}
Inserted(batch, s)   == {r \in DOMAIN batch \cap RowsIn(s) : messages[r] = "absent"}

\* Mutant: every pending write counts, as if no row were ever overwritten.
DeltaOfInserts(batch, s) == Cardinality(IsPending(batch, s))

\* InboxTransitions.delta() of the rows of a batch in one shard
Delta(batch, s) ==
  Cardinality(IsPending(batch, s) \ WasPending(batch, s))
    - Cardinality(WasPending(batch, s) \ IsPending(batch, s))

\* writeMany, and writeOne for a batch of one row: batch maps rows to statuses
Write(batch) ==
  /\ Fits(batch)
  /\ messages' = [r \in Rows |-> IF r \in DOMAIN batch THEN batch[r] ELSE messages[r]]
  /\ messageShards' = [s \in Shards |-> messageShards[s] + Cardinality(Inserted(batch, s))]
  /\ deliverableShards' =
       [s \in Shards |-> deliverableShards[s] - Cardinality(WasPending(batch, s))
                           + Cardinality(IsPending(batch, s))]
  /\ messageCounts' = [s \in Shards |-> messageCounts[s] + Delta(batch, s)]
  /\ UNCHANGED shards

\* Mutant: a released record stays although its last row is gone.
PrunedNever(gone) == shards

\* The records left when the rows in gone have been deleted: delete() drops the
\* record of a released shard with its last row (#pruneReleasedShard).
Pruned(gone) ==
  [s \in {t \in DOMAIN shards : \/ shards[t].worker # Nobody
                                \/ Retained(t) \cap gone = {}
                                \/ Retained(t) \ gone # {}} |-> shards[s]]

\* removeMany, and removeOne for one row
Remove(rows) ==
  /\ messages' = [r \in Rows |-> IF r \in rows THEN "absent" ELSE messages[r]]
  /\ messageShards' =
       [s \in Shards |-> messageShards[s] - Cardinality(Retained(s) \cap rows)]
  /\ deliverableShards' =
       [s \in Shards |-> deliverableShards[s] - Cardinality(Deliverable(s) \cap rows)]
  /\ messageCounts' =
       [s \in Shards |-> messageCounts[s] - Cardinality(Deliverable(s) \cap rows)]
  /\ shards' = Pruned(rows)

-----------------------------------------------------------------------------
(* Sessions.  elapsed is the age of the shard's session on the server's    *)
(* clock when the mutation is admitted.                                    *)

Stale(s, elapsed) == Picked(s) /\ Timeout > 0 /\ elapsed > Timeout

\* The current worker asks, in the revalidating mode, for its own session again.
Refreshes(s, w, elapsed, revalidate) ==
  revalidate /\ HeldBy(s, w) /\ ~ Stale(s, elapsed)

\* #ensureShardCapacity()
Trackable(s) == s \in TrackedShards \/ Cardinality(TrackedShards) < MaxShards

\* What pickShard answers: already picked up, no pending work, no room, picked.
PickOutcome(s, w, elapsed, pendingOnly, revalidate) ==
  IF Picked(s) /\ ~ Stale(s, elapsed) /\ ~ Refreshes(s, w, elapsed, revalidate) THEN "held"
  ELSE IF pendingOnly /\ ~ HasPending(s) THEN "nothing"
  ELSE IF ~ Trackable(s) THEN "full"
  ELSE "picked"

\* setSession()
SetSession(s, w, now) ==
  /\ shards' = [t \in DOMAIN shards \union {s} |->
                  IF t = s THEN [worker |-> w, when |-> now] ELSE shards[t]]
  /\ UNCHANGED <<messages, messageShards, deliverableShards, messageCounts>>

\* release() of every shard in the set: its record stays while it has rows
ReleaseAll(released) ==
  /\ shards' = [s \in {t \in DOMAIN shards : t \notin released \/ messageShards[t] > 0} |->
                  IF s \in released THEN [shards[s] EXCEPT !.worker = Nobody] ELSE shards[s]]
  /\ UNCHANGED <<messages, messageShards, deliverableShards, messageCounts>>

\* releaseSession: whoever is named by the request must be the current worker
Releasable(s, w) == HeldBy(s, w)

\* releaseSessions: every session at least period old
Expired(elapsed, period) == {s \in DOMAIN shards : Picked(s) /\ elapsed[s] >= period}
=============================================================================
