------------------------ MODULE DeliveryServerProofs ------------------------
(***************************************************************************)
(* Proofs about DeliveryServer for every set of shards, rows, workers,     *)
(* requests and subscribers, and for every limit.                          *)
(***************************************************************************)
EXTENDS DeliveryServer, FiniteSetTheorems, SequenceTheorems, TLAPS

Row == Statuses \union {"absent"}

StateTyped ==
  /\ messages \in [Rows -> Row]
  /\ DOMAIN shards \subseteq Shards

\* A waiting subscriber has been told nothing yet, and an ended one is forgotten.
StreamsInv ==
  /\ DOMAIN stream = Subscribers /\ DOMAIN last = Subscribers
  /\ \A u \in Subscribers : stream[u] # "attached" => last[u] = Forgotten

QueueInv ==
  /\ pending \in Seq([request : Requests, aborted : BOOLEAN])
  /\ flushing \in Nat /\ flushing <= Len(pending)
  /\ closing => pending = <<>>

StateInv  == StateTyped /\ CountsMatch /\ WithinLimits

ServerInv == StateInv /\ StreamsInv /\ LastFrameIsCurrent /\ QueueInv

\* What a commit keeps: the state, and what the streams were told of it.
CommitSound == StateInv' /\ StreamsInv' /\ LastFrameIsCurrent'

-----------------------------------------------------------------------------
(* Counters.                                                               *)

LEMMA RowsFinite ==
  ASSUME NEW S \in SUBSET Rows
  PROVE  IsFiniteSet(S) /\ Cardinality(S) \in Nat
BY StateAssumption, FS_Subset, FS_CardinalityType

LEMMA ShardsFinite ==
  ASSUME NEW S \in SUBSET Shards
  PROVE  IsFiniteSet(S) /\ Cardinality(S) \in Nat
BY StateAssumption, FS_Subset, FS_CardinalityType

LEMMA DisjointUnion ==
  ASSUME NEW S \in SUBSET Rows, NEW T \in SUBSET Rows, S \cap T = {}
  PROVE  Cardinality(S \union T) = Cardinality(S) + Cardinality(T)
<1>1. IsFiniteSet(S) /\ IsFiniteSet(T) /\ Cardinality(S) \in Nat /\ Cardinality(T) \in Nat
  BY RowsFinite
<1>2. Cardinality(S \union T) = Cardinality(S) + Cardinality(T) - Cardinality(S \cap T)
  BY <1>1, FS_Union
<1>3. Cardinality(S \cap T) = 0
  BY FS_EmptySet
<1> QED
  BY <1>1, <1>2, <1>3

LEMMA Difference ==
  ASSUME NEW S \in SUBSET Rows, NEW T
  PROVE  Cardinality(S \ T) = Cardinality(S) - Cardinality(S \cap T)
<1>1. IsFiniteSet(S)
  BY RowsFinite
<1> QED
  BY <1>1, FS_Difference

\* What writing the batch does to the rows of a shard.
LEMMA WrittenRows ==
  ASSUME StateTyped, NEW batch, DOMAIN batch \subseteq Rows,
         \A r \in DOMAIN batch : batch[r] \in Statuses, Write(batch), NEW s \in Shards
  PROVE  /\ Retained(s)' = Retained(s) \union Inserted(batch, s)
         /\ Retained(s) \cap Inserted(batch, s) = {}
         /\ Deliverable(s)' = (Deliverable(s) \ WasPending(batch, s)) \union IsPending(batch, s)
         /\ (Deliverable(s) \ WasPending(batch, s)) \cap IsPending(batch, s) = {}
         /\ Deliverable(s) \cap WasPending(batch, s) = WasPending(batch, s)
<1>1. messages' = [r \in Rows |-> IF r \in DOMAIN batch THEN batch[r] ELSE messages[r]]
  BY DEF Write
<1>2. \A r \in DOMAIN batch : batch[r] # "absent"
  BY DEF Statuses
<1> QED
  BY <1>1, <1>2
  DEF Retained, Deliverable, Inserted, WasPending, IsPending, RowsIn

\* The publisher's delta is the change of the number of pending rows.
LEMMA DeltaIsChange ==
  ASSUME NEW batch, NEW s
  PROVE  /\ Delta(batch, s) \in Int
         /\ Delta(batch, s) = Cardinality(IsPending(batch, s)) - Cardinality(WasPending(batch, s))
<1> DEFINE Is == IsPending(batch, s)
           Was == WasPending(batch, s)
<1>1. Is \in SUBSET Rows /\ Was \in SUBSET Rows
  BY DEF IsPending, WasPending, RowsIn
<1>2. Delta(batch, s) = Cardinality(Is \ Was) - Cardinality(Was \ Is)
  BY DEF Delta
<1> HIDE DEF Is, Was
<1>3. /\ Cardinality(Is \ Was) = Cardinality(Is) - Cardinality(Is \cap Was)
      /\ Cardinality(Was \ Is) = Cardinality(Was) - Cardinality(Was \cap Is)
  BY <1>1, Difference
<1>4. /\ Cardinality(Is) \in Nat /\ Cardinality(Was) \in Nat
      /\ Cardinality(Is \cap Was) \in Nat /\ Is \cap Was = Was \cap Is
  <2>1. Is \cap Was \in SUBSET Rows /\ Is \cap Was = Was \cap Is
    BY <1>1
  <2> QED
    BY <1>1, <2>1, RowsFinite
<1>5. Delta(batch, s) = Cardinality(Is) - Cardinality(Was)
  <2>1. Cardinality(Is \cap Was) = Cardinality(Was \cap Is)
    BY <1>4
  <2> QED
    BY <1>2, <1>3, <1>4, <2>1
<1>6. Delta(batch, s) \in Int
  BY <1>4, <1>5
<1> QED
  BY <1>5, <1>6 DEF Is, Was

LEMMA WriteCounts ==
  ASSUME StateTyped, CountsMatch, NEW batch, DOMAIN batch \subseteq Rows,
         \A r \in DOMAIN batch : batch[r] \in Statuses, Write(batch)
  PROVE  CountsMatch'
<1> SUFFICES ASSUME NEW s \in Shards
             PROVE  /\ messageShards'[s] = Cardinality(Retained(s)')
                    /\ deliverableShards'[s] = Cardinality(Deliverable(s)')
                    /\ messageCounts'[s] = Cardinality(Deliverable(s)')
  BY DEF CountsMatch
<1> DEFINE D == Deliverable(s)
           Is == IsPending(batch, s)
           Was == WasPending(batch, s)
<1>1. /\ messageShards'[s] = messageShards[s] + Cardinality(Inserted(batch, s))
      /\ deliverableShards'[s] = deliverableShards[s] - Cardinality(Was) + Cardinality(Is)
      /\ messageCounts'[s] = messageCounts[s] + Delta(batch, s)
  BY DEF Write
<1>2. /\ messageShards[s] = Cardinality(Retained(s))
      /\ deliverableShards[s] = Cardinality(D) /\ messageCounts[s] = Cardinality(D)
  BY DEF CountsMatch
<1>3. /\ Retained(s) \in SUBSET Rows /\ Inserted(batch, s) \in SUBSET Rows
      /\ D \in SUBSET Rows /\ Is \in SUBSET Rows /\ Was \in SUBSET Rows
  BY DEF Retained, Inserted, Deliverable, IsPending, WasPending, RowsIn
<1>4. Cardinality(Retained(s)') = Cardinality(Retained(s)) + Cardinality(Inserted(batch, s))
  BY <1>3, WrittenRows, DisjointUnion
<1>5. Cardinality(D') = Cardinality(D \ Was) + Cardinality(Is)
  BY <1>3, WrittenRows, DisjointUnion
<1>6. Cardinality(D \ Was) = Cardinality(D) - Cardinality(Was)
  <2>1. D \cap Was = Was
    BY WrittenRows
  <2>2. Cardinality(D \ Was) = Cardinality(D) - Cardinality(D \cap Was)
    BY <1>3, Difference
  <2> QED
    BY <2>1, <2>2
<1>7. /\ Cardinality(D) \in Nat /\ Cardinality(Is) \in Nat /\ Cardinality(Was) \in Nat
  BY <1>3, RowsFinite
<1>8. Delta(batch, s) = Cardinality(Is) - Cardinality(Was)
  BY DeltaIsChange
<1> QED
  BY <1>1, <1>2, <1>4, <1>5, <1>6, <1>7, <1>8

LEMMA RemoveCounts ==
  ASSUME StateTyped, CountsMatch, NEW rows, Remove(rows)
  PROVE  CountsMatch'
<1> SUFFICES ASSUME NEW s \in Shards
             PROVE  /\ messageShards'[s] = Cardinality(Retained(s)')
                    /\ deliverableShards'[s] = Cardinality(Deliverable(s)')
                    /\ messageCounts'[s] = Cardinality(Deliverable(s)')
  BY DEF CountsMatch
<1>1. Retained(s)' = Retained(s) \ rows /\ Deliverable(s)' = Deliverable(s) \ rows
  BY DEF Remove, Retained, Deliverable, RowsIn
<1>2. Retained(s) \in SUBSET Rows /\ Deliverable(s) \in SUBSET Rows
  BY DEF Retained, Deliverable, RowsIn
<1>3. /\ Cardinality(Retained(s) \ rows) = Cardinality(Retained(s)) - Cardinality(Retained(s) \cap rows)
      /\ Cardinality(Deliverable(s) \ rows) =
           Cardinality(Deliverable(s)) - Cardinality(Deliverable(s) \cap rows)
  BY <1>2, Difference
<1> QED
  BY <1>1, <1>3 DEF Remove, CountsMatch

-----------------------------------------------------------------------------
(* Limits.                                                                 *)

LEMMA Positive ==
  ASSUME NEW S \in SUBSET Rows
  PROVE  Cardinality(S) > 0 <=> S # {}
<1>1. IsFiniteSet(S) /\ Cardinality(S) \in Nat
  BY RowsFinite
<1>2. Cardinality(S) = 0 <=> S = {}
  BY <1>1, FS_EmptySet
<1> QED
  BY <1>1, <1>2

\* The tracked shards are those with a record or a row, before a step and after.
LEMMA Tracked ==
  /\ CountsMatch => TrackedShards = DOMAIN shards \union {s \in Shards : Retained(s) # {}}
  /\ CountsMatch' => TrackedShards' = DOMAIN shards' \union {s \in Shards : Retained(s)' # {}}
<1>1. \A s \in Shards : Retained(s) \in SUBSET Rows /\ Retained(s)' \in SUBSET Rows
  BY DEF Retained, RowsIn
<1>2. ASSUME CountsMatch
      PROVE  TrackedShards = DOMAIN shards \union {s \in Shards : Retained(s) # {}}
  BY <1>1, <1>2, Positive DEF TrackedShards, CountsMatch
<1>3. ASSUME CountsMatch'
      PROVE  TrackedShards' = DOMAIN shards' \union {s \in Shards : Retained(s)' # {}}
  BY <1>1, <1>3, Positive DEF TrackedShards, CountsMatch
<1> QED
  BY <1>2, <1>3

\* Tracking no more shards than before keeps the limit.
LEMMA TrackedBound ==
  ASSUME NEW S, NEW T \in SUBSET Shards, S \subseteq T, Cardinality(T) <= MaxShards
  PROVE  Cardinality(S) <= MaxShards
<1>1. IsFiniteSet(T) /\ Cardinality(T) \in Nat /\ IsFiniteSet(S) /\ Cardinality(S) \in Nat
  BY ShardsFinite
<1>2. Cardinality(S) <= Cardinality(T)
  BY <1>1, FS_Subset
<1> QED
  BY <1>1, <1>2, StateAssumption

LEMMA RowsBound ==
  ASSUME NEW S, NEW T \in SUBSET Rows, S \subseteq T, Cardinality(T) <= MaxMessages
  PROVE  Cardinality(S) <= MaxMessages
<1>1. IsFiniteSet(T) /\ Cardinality(T) \in Nat /\ IsFiniteSet(S) /\ Cardinality(S) \in Nat
  BY RowsFinite
<1>2. Cardinality(S) <= Cardinality(T)
  BY <1>1, FS_Subset
<1> QED
  BY <1>1, <1>2, StateAssumption

LEMMA WriteLimits ==
  ASSUME StateInv, NEW batch, DOMAIN batch \subseteq Rows,
         \A r \in DOMAIN batch : batch[r] \in Statuses, Fits(batch), Write(batch)
  PROVE  StateInv'
<1>1. /\ messages' = [r \in Rows |-> IF r \in DOMAIN batch THEN batch[r] ELSE messages[r]]
      /\ shards' = shards
  BY DEF Write
<1>2. StateTyped'
  BY <1>1 DEF StateInv, StateTyped, Row
<1>3. CountsMatch'
  BY WriteCounts DEF StateInv
<1>4. Cardinality({r \in Rows : messages[r] # "absent"}') <= MaxMessages
  <2> DEFINE T == {r \in Rows : messages[r] # "absent"} \union DOMAIN batch
  <2>1. Cardinality(T) <= MaxMessages
    BY DEF Fits
  <2>2. {r \in Rows : messages[r] # "absent"}' \subseteq T /\ T \in SUBSET Rows
    BY <1>1
  <2> QED
    BY <2>1, <2>2, RowsBound
<1>5. \A s \in Shards : Retained(s) \subseteq Retained(s)'
                         /\ Retained(s)' \subseteq Retained(s) \union (DOMAIN batch \cap RowsIn(s))
  BY <1>1 DEF Retained, RowsIn, Statuses
<1>6. Cardinality(TrackedShards') <= MaxShards
  <2> DEFINE T == TrackedShards \union {ShardOf[r] : r \in DOMAIN batch}
  <2>1. Cardinality(T) <= MaxShards
    BY DEF Fits
  <2>2. TrackedShards = DOMAIN shards \union {s \in Shards : Retained(s) # {}}
    BY Tracked DEF StateInv
  <2>3. TrackedShards' = DOMAIN shards' \union {s \in Shards : Retained(s)' # {}}
    BY <1>3, Tracked
  <2>4. T \in SUBSET Shards
    BY <2>2, StateAssumption DEF StateInv, StateTyped
  <2>5. TrackedShards' \subseteq T
    BY <1>1, <1>5, <2>2, <2>3 DEF RowsIn
  <2> QED
    BY <2>1, <2>4, <2>5, TrackedBound
<1>7. \A s \in DOMAIN shards' : Picked(s)' \/ Retained(s)' # {}
  BY <1>1, <1>5 DEF StateInv, StateTyped, WithinLimits, Picked
<1> QED
  BY <1>2, <1>3, <1>4, <1>6, <1>7 DEF StateInv, WithinLimits

LEMMA RemoveLimits ==
  ASSUME StateInv, NEW rows, Remove(rows)
  PROVE  /\ StateInv'
         /\ \A s \in Shards : Picked(s)' = Picked(s)
<1>1. /\ messages' = [r \in Rows |-> IF r \in rows THEN "absent" ELSE messages[r]]
      /\ shards' = Pruned(rows)
  BY DEF Remove
<1>2. /\ DOMAIN shards' \subseteq DOMAIN shards
      /\ \A s \in DOMAIN shards' :
           /\ shards'[s] = shards[s]
           /\ shards[s].worker # Nobody \/ Retained(s) \cap rows = {} \/ Retained(s) \ rows # {}
      /\ \A s \in DOMAIN shards : shards[s].worker # Nobody => s \in DOMAIN shards'
  BY <1>1 DEF Pruned
<1>3. StateTyped'
  BY <1>1, <1>2 DEF StateInv, StateTyped, Row
<1>4. CountsMatch'
  BY RemoveCounts DEF StateInv
<1>5. \A s \in Shards : Retained(s)' = Retained(s) \ rows
  BY <1>1 DEF Retained, RowsIn
<1>6. \A s \in Shards : Picked(s)' = Picked(s)
  BY <1>2 DEF Picked
<1>7. Cardinality({r \in Rows : messages[r] # "absent"}') <= MaxMessages
  <2>1. {r \in Rows : messages[r] # "absent"}' \subseteq {r \in Rows : messages[r] # "absent"}
    BY <1>1
  <2>2. Cardinality({r \in Rows : messages[r] # "absent"}) <= MaxMessages
    BY DEF StateInv, WithinLimits
  <2> QED
    BY <2>1, <2>2, RowsBound
<1>8. Cardinality(TrackedShards') <= MaxShards
  <2>1. TrackedShards = DOMAIN shards \union {s \in Shards : Retained(s) # {}}
    BY Tracked DEF StateInv
  <2>2. TrackedShards' = DOMAIN shards' \union {s \in Shards : Retained(s)' # {}}
    BY <1>4, Tracked
  <2>3. TrackedShards' \subseteq TrackedShards /\ TrackedShards \in SUBSET Shards
    BY <1>2, <1>5, <2>1, <2>2 DEF StateInv, StateTyped
  <2> QED
    BY <2>3, TrackedBound DEF StateInv, WithinLimits
<1>9. \A s \in DOMAIN shards' : Picked(s)' \/ Retained(s)' # {}
  <2> SUFFICES ASSUME NEW s \in DOMAIN shards', ~ Picked(s)' PROVE Retained(s)' # {}
    OBVIOUS
  <2>1. s \in DOMAIN shards /\ s \in Shards /\ shards[s].worker = Nobody
    BY <1>2 DEF StateInv, StateTyped, Picked
  <2>2. Retained(s) # {}
    BY <2>1 DEF StateInv, WithinLimits, Picked
  <2> QED
    BY <1>2, <1>5, <2>1, <2>2
<1> QED
  BY <1>3, <1>4, <1>6, <1>7, <1>8, <1>9 DEF StateInv, WithinLimits

\* A pickup, which needs room for its shard.
LEMMA PickLimits ==
  ASSUME StateInv, NEW s \in Shards, NEW w \in Workers, NEW now, Trackable(s),
         SetSession(s, w, now)
  PROVE  StateInv'
<1>1. /\ messages' = messages /\ messageShards' = messageShards
      /\ deliverableShards' = deliverableShards /\ messageCounts' = messageCounts
      /\ DOMAIN shards' = DOMAIN shards \union {s}
      /\ shards'[s].worker = w
      /\ \A t \in DOMAIN shards \ {s} : shards'[t] = shards[t]
  BY DEF SetSession
<1>2. StateTyped' /\ CountsMatch'
  BY <1>1 DEF StateInv, StateTyped, CountsMatch, Retained, Deliverable
<1>3. Cardinality({r \in Rows : messages[r] # "absent"}') <= MaxMessages
  BY <1>1 DEF StateInv, WithinLimits
<1>4. Cardinality(TrackedShards') <= MaxShards
  <2>1. TrackedShards' = TrackedShards \union {s} /\ TrackedShards \in SUBSET Shards
    BY <1>1 DEF StateInv, StateTyped, TrackedShards
  <2>2. CASE s \in TrackedShards
    <3>1. TrackedShards' = TrackedShards
      BY <2>1, <2>2
    <3> QED
      BY <3>1 DEF StateInv, WithinLimits
  <2>3. CASE s \notin TrackedShards
    <3>1. Cardinality(TrackedShards) < MaxShards
      BY <2>3 DEF Trackable
    <3>2. IsFiniteSet(TrackedShards) /\ Cardinality(TrackedShards) \in Nat
      BY <2>1, ShardsFinite
    <3>3. Cardinality(TrackedShards \union {s}) = Cardinality(TrackedShards) + 1
      BY <2>3, <3>2, FS_AddElement
    <3> QED
      BY <2>1, <3>1, <3>2, <3>3, StateAssumption
  <2> QED
    BY <2>2, <2>3
<1>5. \A t \in DOMAIN shards' : Picked(t)' \/ Retained(t)' # {}
  BY <1>1, StateAssumption DEF StateInv, WithinLimits, Picked, Retained
<1> QED
  BY <1>2, <1>3, <1>4, <1>5 DEF StateInv, WithinLimits

LEMMA ReleaseLimits ==
  ASSUME StateInv, NEW released, ReleaseAll(released)
  PROVE  /\ StateInv'
         /\ \A s \in Shards \ released : Picked(s)' = Picked(s)
         /\ messageCounts' = messageCounts
<1>1. /\ messages' = messages /\ messageShards' = messageShards
      /\ deliverableShards' = deliverableShards /\ messageCounts' = messageCounts
      /\ DOMAIN shards' \subseteq DOMAIN shards
      /\ \A t \in DOMAIN shards' : t \notin released \/ messageShards[t] > 0
      /\ \A t \in DOMAIN shards \ released : t \in DOMAIN shards' /\ shards'[t] = shards[t]
  BY DEF ReleaseAll
<1>2. StateTyped' /\ CountsMatch'
  BY <1>1 DEF StateInv, StateTyped, CountsMatch, Retained, Deliverable
<1>3. Cardinality({r \in Rows : messages[r] # "absent"}') <= MaxMessages
  BY <1>1 DEF StateInv, WithinLimits
<1>4. TrackedShards' \subseteq TrackedShards /\ TrackedShards \in SUBSET Shards
  BY <1>1 DEF StateInv, StateTyped, TrackedShards
<1>5. Cardinality(TrackedShards') <= MaxShards
  BY <1>4, TrackedBound DEF StateInv, WithinLimits
<1>6. \A s \in Shards \ released : Picked(s)' = Picked(s)
  BY <1>1 DEF Picked
<1>7. \A t \in DOMAIN shards' : Picked(t)' \/ Retained(t)' # {}
  <2> SUFFICES ASSUME NEW t \in DOMAIN shards', ~ Picked(t)' PROVE Retained(t)' # {}
    OBVIOUS
  <2>1. t \in Shards /\ t \in DOMAIN shards /\ Retained(t)' = Retained(t)
    BY <1>1 DEF StateInv, StateTyped, Retained
  <2>2. CASE t \notin released
    BY <1>6, <2>1, <2>2 DEF StateInv, WithinLimits
  <2>3. CASE t \in released
    <3>1. t \in TrackedShards /\ messageShards[t] > 0
      BY <1>1, <2>1, <2>3 DEF TrackedShards
    <3>2. Cardinality(Retained(t)) > 0
      BY <2>1, <3>1 DEF StateInv, CountsMatch
    <3>3. Retained(t) # {}
      BY <3>2, FS_EmptySet
    <3> QED
      BY <2>1, <3>3
  <2> QED
    BY <2>2, <2>3
<1> QED
  BY <1>1, <1>2, <1>3, <1>5, <1>6, <1>7 DEF StateInv, WithinLimits

-----------------------------------------------------------------------------
(* Commits.                                                                *)

\* A mutation that changes no observation outside changed, and is published.
LEMMA PublishSound ==
  ASSUME StreamsInv, LastFrameIsCurrent, NEW changed, NEW n, Publish(changed, n),
         \A s \in Shards \ changed : Observation(s)' = Observation(s)
  PROVE  StreamsInv' /\ LastFrameIsCurrent'
<1>1. DOMAIN stream' = Subscribers /\ DOMAIN last' = Subscribers
  BY DEF Publish
<1>2. ASSUME NEW u \in Subscribers, stream'[u] # "attached"
      PROVE  last'[u] = Forgotten
  <2>1. CASE Overflows(u, n)
    BY <2>1 DEF Publish
  <2>2. CASE ~ Overflows(u, n)
    <3>1. stream[u] # "attached"
      BY <1>2, <2>2 DEF Publish
    <3>2. last[u] = Forgotten
      BY <3>1 DEF StreamsInv
    <3>3. last'[u] = [s \in Shards |-> last[u][s]]
      BY <2>2, <3>1 DEF Publish
    <3> QED
      BY <3>2, <3>3 DEF Forgotten
  <2> QED
    BY <2>1, <2>2
<1>3. ASSUME NEW u \in Subscribers, NEW s \in Shards, stream'[u] = "attached",
             last'[u][s] # NoFrame
      PROVE  last'[u][s] = Observation(s)'
  <2>1. ~ Overflows(u, n) /\ stream[u] = "attached"
    BY <1>3 DEF Publish
  <2>2. last'[u][s] = IF s \in changed THEN Observation(s)' ELSE last[u][s]
    BY <2>1 DEF Publish
  <2>3. CASE s \notin changed
    <3>1. last[u][s] = Observation(s)
      BY <1>3, <2>1, <2>2, <2>3 DEF LastFrameIsCurrent
    <3> QED
      BY <2>2, <2>3, <3>1
  <2> QED
    BY <2>2, <2>3
<1>4. LastFrameIsCurrent'
  BY <1>3 DEF LastFrameIsCurrent
<1> QED
  BY <1>1, <1>2, <1>4 DEF StreamsInv

LEMMA NothingCommitted ==
  ASSUME StateInv, StreamsInv, LastFrameIsCurrent, UNCHANGED stateVars, Silent
  PROVE  CommitSound
BY DEF CommitSound, StateInv, StateTyped, CountsMatch, WithinLimits, StreamsInv, LastFrameIsCurrent,
       stateVars, Silent, streamVars, Retained, Deliverable, TrackedShards, Picked, Observation

LEMMA WriteSound ==
  ASSUME StateInv, StreamsInv, LastFrameIsCurrent, NEW q \in Requests, q.op = "write",
         CommitWrite(q)
  PROVE  CommitSound
<1> DEFINE batch == q.batch
<1>1. DOMAIN batch \subseteq Rows /\ \A r \in DOMAIN batch : batch[r] \in Statuses
  BY ServerAssumption
<1>2. CASE ~ Fits(batch)
  BY <1>2, NothingCommitted DEF CommitWrite
<1>3. CASE Fits(batch)
  <2>1. Write(batch) /\ Publish(ShardsOf(Changing(batch)), Cardinality(Changing(batch)))
    BY <1>3 DEF CommitWrite
  <2>2. StateInv'
    BY <1>1, <1>3, <2>1, WriteLimits
  <2>3. ASSUME NEW s \in Shards \ ShardsOf(Changing(batch))
        PROVE  Observation(s)' = Observation(s)
    <3>1. \A r \in DOMAIN batch \cap RowsIn(s) :
            batch[r] = "TO_DELIVER" <=> messages[r] = "TO_DELIVER"
      BY <2>3 DEF ShardsOf, Changing, RowsIn
    <3>2. IsPending(batch, s) = WasPending(batch, s)
      BY <3>1 DEF IsPending, WasPending
    <3>3. WasPending(batch, s) \in SUBSET Rows
      BY DEF WasPending, RowsIn
    <3>4. Delta(batch, s) = 0
      BY <3>2, <3>3, RowsFinite, DeltaIsChange
    <3>5. messageCounts[s] \in Nat
      <4>1. Deliverable(s) \in SUBSET Rows
        BY DEF Deliverable, RowsIn
      <4> QED
        BY <4>1, RowsFinite DEF StateInv, CountsMatch
    <3>6. messageCounts'[s] = messageCounts[s] /\ shards' = shards
      BY <2>1, <3>4, <3>5 DEF Write
    <3> QED
      BY <3>6 DEF Observation, Picked
  <2>4. StreamsInv' /\ LastFrameIsCurrent'
    BY <2>1, <2>3, PublishSound
  <2> QED
    BY <2>2, <2>4 DEF CommitSound
<1> QED
  BY <1>2, <1>3

LEMMA RemoveSound ==
  ASSUME StateInv, StreamsInv, LastFrameIsCurrent, NEW q, CommitRemove(q)
  PROVE  CommitSound
<1> DEFINE gone == {r \in q.rows : messages[r] = "TO_DELIVER"}
<1>1. Remove(q.rows) /\ Publish(ShardsOf(gone), Cardinality(gone))
  BY DEF CommitRemove
<1>2. StateInv' /\ \A s \in Shards : Picked(s)' = Picked(s)
  BY <1>1, RemoveLimits
<1>3. ASSUME NEW s \in Shards \ ShardsOf(gone)
      PROVE  Observation(s)' = Observation(s)
  <2>1. Deliverable(s)' = Deliverable(s) \ q.rows
    BY <1>1 DEF Remove, Deliverable, RowsIn
  <2>2. Deliverable(s) \cap q.rows = {}
    BY <1>3 DEF Deliverable, RowsIn, ShardsOf
  <2>3. Deliverable(s)' = Deliverable(s)
    BY <2>1, <2>2
  <2>4. messageCounts'[s] = messageCounts[s]
    BY <1>2, <2>3 DEF StateInv, CountsMatch
  <2> QED
    BY <1>2, <2>4 DEF Observation
<1> HIDE DEF gone
<1>4. StreamsInv' /\ LastFrameIsCurrent'
  BY <1>1, <1>3, PublishSound
<1> QED
  BY <1>2, <1>4 DEF CommitSound

LEMMA PickSound ==
  ASSUME StateInv, StreamsInv, LastFrameIsCurrent, NEW q \in Requests, q.op = "pick",
         CommitPick(q)
  PROVE  CommitSound
<1> DEFINE s == q.shard
           outcome == PickOutcome(s, q.worker, Idle(s), q.pendingOnly, q.revalidate)
<1>1. s \in Shards /\ q.worker \in Workers
  BY ServerAssumption
<1>2. CASE outcome # "picked"
  BY <1>2, NothingCommitted DEF CommitPick
<1>3. CASE outcome = "picked"
  <2>1. SetSession(s, q.worker, clock) /\ Publish({s}, 1)
    BY <1>3 DEF CommitPick
  <2>2. Trackable(s)
    BY <1>3 DEF PickOutcome
  <2>3. StateInv'
    BY <1>1, <2>1, <2>2, PickLimits
  <2>4. \A t \in Shards \ {s} : Observation(t)' = Observation(t)
    BY <2>1 DEF SetSession, Observation, Picked
  <2>5. StreamsInv' /\ LastFrameIsCurrent'
    BY <2>1, <2>4, PublishSound
  <2> QED
    BY <2>3, <2>5 DEF CommitSound
<1> QED
  BY <1>2, <1>3

\* Releases of any set of shards, each of them published.
LEMMA ReleasesSound ==
  ASSUME StateInv, StreamsInv, LastFrameIsCurrent, NEW freed, NEW n, ReleaseAll(freed),
         Publish(freed, n)
  PROVE  CommitSound
<1>1. StateInv'
  BY ReleaseLimits
<1>2. \A s \in Shards \ freed : Observation(s)' = Observation(s)
  BY ReleaseLimits DEF Observation
<1>3. StreamsInv' /\ LastFrameIsCurrent'
  BY <1>2, PublishSound
<1> QED
  BY <1>1, <1>3 DEF CommitSound

LEMMA CommitIsSound ==
  ASSUME StateInv, StreamsInv, LastFrameIsCurrent, NEW q \in Requests, Commit(q)
  PROVE  CommitSound
<1>1. q.op \in {"write", "remove", "pick", "release", "expire"}
  BY ServerAssumption
<1>2. CASE q.op = "write"
  BY <1>2, WriteSound DEF Commit
<1>3. CASE q.op = "remove"
  BY <1>3, RemoveSound DEF Commit
<1>4. CASE q.op = "pick"
  BY <1>4, PickSound DEF Commit
<1>5. CASE q.op = "release"
  <2>1. CommitRelease(q)
    BY <1>5 DEF Commit
  <2> QED
    BY <2>1, ReleasesSound, NothingCommitted DEF CommitRelease
<1>6. CASE q.op = "expire"
  <2> DEFINE freed == Expired([s \in DOMAIN shards |-> Idle(s)], q.period)
  <2>1. ReleaseAll(freed) /\ Publish(freed, Cardinality(freed))
    BY <1>6 DEF Commit, CommitExpire
  <2> HIDE DEF freed
  <2> QED
    BY <2>1, ReleasesSound
<1> QED
  BY <1>1, <1>2, <1>3, <1>4, <1>5, <1>6

-----------------------------------------------------------------------------
(* Steps of the server.                                                    *)

LEMMA AdmitKeeps ==
  ASSUME ServerInv, Admit
  PROVE  ServerInv' /\ ~ closing
<1>1. /\ flushing > 0 /\ flushing' = flushing - 1 /\ pending' = Tail(pending)
      /\ closing' = closing
  BY DEF Admit
<1>2. /\ flushing \in Nat /\ flushing <= Len(pending)
      /\ pending \in Seq([request : Requests, aborted : BOOLEAN])
  BY DEF ServerInv, QueueInv
<1>3. pending # <<>> /\ Head(pending) \in [request : Requests, aborted : BOOLEAN]
  <2>1. Len(pending) > 0
    BY <1>1, <1>2
  <2>2. pending # <<>>
    BY <1>2, <2>1
  <2> QED
    BY <1>2, <2>2, HeadTailProperties
<1>4. Tail(pending) \in Seq([request : Requests, aborted : BOOLEAN])
      /\ Len(Tail(pending)) = Len(pending) - 1
  BY <1>2, <1>3, HeadTailProperties
<1>5. ~ closing
  BY <1>3 DEF ServerInv, QueueInv
<1>6. QueueInv'
  BY <1>1, <1>2, <1>4, <1>5 DEF QueueInv
<1>7. CommitSound
  <2>1. CASE Head(pending).aborted
    BY <2>1, NothingCommitted DEF Admit, ServerInv
  <2>2. CASE ~ Head(pending).aborted
    <3>1. Head(pending).request \in Requests /\ Commit(Head(pending).request)
      BY <1>3, <2>2 DEF Admit
    <3> QED
      BY <3>1, CommitIsSound DEF ServerInv
  <2> QED
    BY <2>1, <2>2
<1> QED
  BY <1>5, <1>6, <1>7 DEF CommitSound, ServerInv

\* The other steps leave the state alone.
LEMMA StateKept ==
  ASSUME StateInv, UNCHANGED stateVars
  PROVE  StateInv' /\ \A s \in Shards : Observation(s)' = Observation(s)
BY DEF StateInv, StateTyped, CountsMatch, WithinLimits, stateVars, Retained, Deliverable,
       TrackedShards, Picked, Observation

LEMMA StreamsKept ==
  ASSUME ServerInv, UNCHANGED stateVars, UNCHANGED streamVars
  PROVE  StateInv' /\ StreamsInv' /\ LastFrameIsCurrent'
BY StateKept DEF ServerInv, StreamsInv, LastFrameIsCurrent, streamVars

LEMMA QueueStep ==
  ASSUME ServerInv, Submit \/ AbortCall \/ Flush \/ Tick
  PROVE  ServerInv' /\ UNCHANGED stateVars
<1>1. UNCHANGED stateVars /\ UNCHANGED streamVars /\ closing' = closing
  BY DEF Submit, AbortCall, Flush, Tick
<1>2. QueueInv'
  <2> DEFINE Entry == [request : Requests, aborted : BOOLEAN]
  <2>0. pending \in Seq(Entry) /\ flushing \in Nat /\ flushing <= Len(pending)
    BY DEF ServerInv, QueueInv
  <2>1. CASE Submit
    <3>1. PICK e \in Entry : pending' = Append(pending, e)
      BY <2>1 DEF Submit
    <3>2. pending' \in Seq(Entry) /\ Len(pending') = Len(pending) + 1
      BY <2>0, <3>1
    <3> QED
      BY <2>0, <2>1, <3>2 DEF Submit, QueueInv
  <2>2. CASE AbortCall
    <3>1. PICK i \in DOMAIN pending : pending' = [pending EXCEPT ![i].aborted = TRUE]
      BY <2>2 DEF AbortCall
    <3>2. pending' \in Seq(Entry) /\ Len(pending') = Len(pending)
      <4>0. i \in 1 .. Len(pending)
        BY <2>0, <3>1
      <4>1. pending[i] \in Entry
        BY <2>0, <4>0, ElementOfSeq
      <4>2. [pending[i] EXCEPT !.aborted = TRUE] \in Entry
        BY <4>1
      <4>3. pending' = [pending EXCEPT ![i] = [pending[i] EXCEPT !.aborted = TRUE]]
        BY <3>1
      <4> HIDE DEF Entry
      <4> QED
        BY <2>0, <4>0, <4>2, <4>3, ExceptSeq
    <3>3. pending # <<>>
      BY <2>0, <3>1
    <3> QED
      BY <2>0, <2>2, <3>2, <3>3 DEF AbortCall, QueueInv, ServerInv
  <2>3. CASE Flush
    BY <2>0, <2>3 DEF Flush, QueueInv, ServerInv
  <2>4. CASE Tick
    BY <2>4 DEF Tick, QueueInv, ServerInv, queueVars
  <2> QED
    BY <2>1, <2>2, <2>3, <2>4
<1>3. StateInv' /\ StreamsInv' /\ LastFrameIsCurrent'
  BY <1>1, StreamsKept
<1> QED
  BY <1>1, <1>2, <1>3 DEF ServerInv

LEMMA StreamStep ==
  ASSUME ServerInv, NEW u \in Subscribers,
         Subscribe(u) \/ Attach(u) \/ TakeFrame(u) \/ Cancel(u)
  PROVE  ServerInv' /\ UNCHANGED stateVars
<1>1. UNCHANGED stateVars /\ pending' = pending /\ flushing' = flushing /\ closing' = closing
  BY DEF Subscribe, Attach, TakeFrame, Cancel, queueVars
<1>2. StateInv' /\ \A s \in Shards : Observation(s)' = Observation(s)
  BY <1>1, StateKept DEF ServerInv
<1>3. QueueInv'
  BY <1>1 DEF ServerInv, QueueInv
<1>4. StreamsInv' /\ LastFrameIsCurrent'
  <2>1. CASE Subscribe(u)
    BY <1>2, <2>1 DEF Subscribe, ServerInv, StreamsInv, LastFrameIsCurrent
  <2>2. CASE Attach(u)
    <3>1. last[u] = Forgotten
      BY <2>2 DEF Attach, ServerInv, StreamsInv
    <3> QED
      BY <1>2, <2>2, <3>1 DEF Attach, ServerInv, StreamsInv, LastFrameIsCurrent, Forgotten
  <2>3. CASE TakeFrame(u)
    BY <1>2, <2>3 DEF TakeFrame, ServerInv, StreamsInv, LastFrameIsCurrent
  <2>4. CASE Cancel(u)
    BY <1>2, <2>4 DEF Cancel, ServerInv, StreamsInv, LastFrameIsCurrent
  <2> QED
    BY <2>1, <2>2, <2>3, <2>4
<1> QED
  BY <1>1, <1>2, <1>3, <1>4 DEF ServerInv

LEMMA CloseStep ==
  ASSUME ServerInv, Close
  PROVE  ServerInv' /\ UNCHANGED stateVars
<1>1. UNCHANGED stateVars /\ pending' = <<>> /\ flushing' = flushing /\ flushing = 0 /\ CloseStreams
  BY DEF Close
<1>2. StateInv' /\ \A s \in Shards : Observation(s)' = Observation(s)
  BY <1>1, StateKept DEF ServerInv
<1>3. QueueInv'
  BY <1>1 DEF QueueInv
<1>4. StreamsInv' /\ LastFrameIsCurrent'
  BY <1>1, <1>2 DEF CloseStreams, ServerInv, StreamsInv, LastFrameIsCurrent
<1> QED
  BY <1>1, <1>2, <1>3, <1>4 DEF ServerInv

LEMMA InitialServer == Init => ServerInv
<1> SUFFICES ASSUME Init PROVE ServerInv
  OBVIOUS
<1>1. StateTyped
  BY DEF Init, StateInit, StateTyped, Row
<1>2. \A s \in Shards : Retained(s) = {} /\ Deliverable(s) = {}
  BY DEF Init, StateInit, Retained, Deliverable, RowsIn
<1>3. CountsMatch
  BY <1>2, FS_EmptySet DEF Init, StateInit, CountsMatch
<1>4. WithinLimits
  <2>1. {r \in Rows : messages[r] # "absent"} = {}
    BY DEF Init, StateInit
  <2>2. TrackedShards = {} /\ DOMAIN shards = {}
    BY DEF Init, StateInit, TrackedShards
  <2>3. Cardinality({}) = 0
    BY FS_EmptySet
  <2>4. /\ Cardinality({r \in Rows : messages[r] # "absent"}) = 0
        /\ Cardinality(TrackedShards) = 0
    BY <2>1, <2>2, <2>3
  <2> QED
    BY <2>2, <2>4, StateAssumption DEF WithinLimits
<1>5. StreamsInv /\ LastFrameIsCurrent
  BY DEF Init, StreamsInv, LastFrameIsCurrent, Forgotten
<1>6. QueueInv
  BY DEF Init, QueueInv
<1> QED
  BY <1>1, <1>3, <1>4, <1>5, <1>6 DEF ServerInv, StateInv

LEMMA NextKeepsServer ==
  ASSUME ServerInv, [Next]_vars
  PROVE  ServerInv' /\ (closing => UNCHANGED stateVars)
<1>1. CASE Admit
  BY <1>1, AdmitKeeps
<1>2. CASE Submit \/ AbortCall \/ Flush \/ Tick
  BY <1>2, QueueStep
<1>3. CASE Close
  BY <1>3, CloseStep
<1>4. ASSUME NEW u \in Subscribers, Subscribe(u) \/ Attach(u) \/ TakeFrame(u) \/ Cancel(u)
      PROVE  ServerInv' /\ UNCHANGED stateVars
  BY <1>4, StreamStep
<1>5. CASE UNCHANGED vars
  <2>1. UNCHANGED stateVars /\ UNCHANGED streamVars /\ UNCHANGED queueVars /\ closing' = closing
    BY <1>5 DEF vars
  <2>2. StateInv' /\ StreamsInv' /\ LastFrameIsCurrent'
    BY <2>1, StreamsKept
  <2> QED
    BY <2>1, <2>2 DEF ServerInv, QueueInv, queueVars
<1> QED
  BY <1>1, <1>2, <1>3, <1>4, <1>5 DEF Next

-----------------------------------------------------------------------------
(* The theorems.                                                           *)

\* ServerInv holds in every reachable state: the state agrees with its counters
\* and limits, the streams with what they were told, and the admission queue
\* with its flush.
THEOREM ServerInvariance == Spec => []ServerInv
<1>1. ServerInv /\ [Next]_vars => ServerInv'
  BY NextKeepsServer
<1> QED
  BY <1>1, InitialServer, PTL DEF Spec

\* The counters never drift from the rows, for any batches and removals
\* (InMemoryDeliveryState, InboxTransitions.delta).
THEOREM CountersAreExact == Spec => []CountsMatch
<1>1. ServerInv => CountsMatch
  BY DEF ServerInv, StateInv
<1> QED
  BY <1>1, ServerInvariance, PTL

\* The limits hold, and no record of a released shard outlives its rows.
THEOREM LimitsHold == Spec => []WithinLimits
<1>1. ServerInv => WithinLimits
  BY DEF ServerInv, StateInv
<1> QED
  BY <1>1, ServerInvariance, PTL

\* An open Admin stream was last told of each shard how it stands now.
THEOREM StreamsAreCurrent == Spec => []LastFrameIsCurrent
<1>1. ServerInv => LastFrameIsCurrent
  BY DEF ServerInv
<1> QED
  BY <1>1, ServerInvariance, PTL

\* Once close() has begun nothing is committed, not even what a scheduled flush
\* was to admit (MutationAdmission.close).
THEOREM CloseStopsCommits == Spec => ClosedCommitsNothing
<1>1. ServerInv /\ [Next]_vars => [closing => UNCHANGED stateVars]_vars
  BY NextKeepsServer
<1> QED
  BY <1>1, ServerInvariance, PTL DEF Spec, ClosedCommitsNothing
=============================================================================
