--------------------------- MODULE DeliveryServer ---------------------------
(***************************************************************************)
(* The delivery server: RPC handlers submit their mutations to one         *)
(* MutationAdmission queue, which a microtask flushes in order; committed  *)
(* mutations that change what an administrator sees are published to the   *)
(* Admin subscribers, each with a bounded buffer; close() stops admission, *)
(* then the subscribers, then waits for the open streams.                  *)
(***************************************************************************)
EXTENDS DeliveryState, Sequences

CONSTANTS
  Requests,       \* bound: the mutations that callers submit
  Subscribers,    \* Admin update streams
  MaxPending,     \* slots of the admission queue
  MaxFrames,      \* frames buffered for one subscriber
  MaxClock        \* bound: the last clock value explored

ASSUME ServerAssumption ==
  /\ MaxPending \in Nat \ {0} /\ MaxFrames \in Nat \ {0} /\ MaxClock \in Nat
  /\ \A q \in Requests :
       \/ q.op = "write" /\ DOMAIN q.batch \subseteq Rows
                         /\ \A r \in DOMAIN q.batch : q.batch[r] \in Statuses
       \/ q.op = "remove"
       \/ q.op = "pick" /\ q.shard \in Shards /\ q.worker \in Workers
       \/ q.op \in {"release", "expire"}

VARIABLES
  clock,      \* now(), in units of the processing timeout
  pending,    \* #pending: submitted mutations, each perhaps aborted since
  flushing,   \* how many of them the running flush has still to admit
  closing,    \* close() has begun
  stream,     \* subscriber -> none, created (acknowledged), attached, ended
  backlog,    \* its buffered frames; -1 while its generator waits for one
  last        \* the last frame pushed to it for each shard, or NoFrame

queueVars  == <<pending, flushing>>
streamVars == <<stream, backlog, last>>
vars == <<stateVars, clock, queueVars, closing, streamVars>>

Waiting == -1
NoFrame == [picked |-> FALSE, messages |-> -1]

Init ==
  /\ StateInit
  /\ clock = 0 /\ pending = <<>> /\ flushing = 0 /\ closing = FALSE
  /\ stream = [u \in Subscribers |-> "none"]
  /\ backlog = [u \in Subscribers |-> 0]
  /\ last = [u \in Subscribers |-> [s \in Shards |-> NoFrame]]

-----------------------------------------------------------------------------
(* Publishing.                                                             *)

\* AdminSnapshots.observation()
Observation(s) == [picked |-> Picked(s), messages |-> messageCounts[s]]

Overflows(u, n) == stream[u] = "attached" /\ backlog[u] + n > MaxFrames

\* An ended subscriber keeps neither its buffer nor its frames.
Forgotten == [s \in Shards |-> NoFrame]

\* push() of n frames of one mutation that changes the shards in changed
Publish(changed, n) ==
  /\ stream' = [u \in Subscribers |-> IF Overflows(u, n) THEN "ended" ELSE stream[u]]
  /\ backlog' = [u \in Subscribers |-> IF Overflows(u, n) THEN 0
                                       ELSE IF stream[u] = "attached" THEN backlog[u] + n
                                       ELSE backlog[u]]
  /\ last' = [u \in Subscribers |->
                  IF Overflows(u, n) THEN Forgotten
                  ELSE [s \in Shards |-> IF stream[u] = "attached" /\ s \in changed
                                         THEN Observation(s)' ELSE last[u][s]]]

Silent == UNCHANGED streamVars

\* Rows of a batch whose delta is not 0: each publishes a frame of its own.
Changing(batch) ==
  {r \in DOMAIN batch : (batch[r] = "TO_DELIVER") # (messages[r] = "TO_DELIVER")}

ShardsOf(rows) == {ShardOf[r] : r \in rows}

-----------------------------------------------------------------------------
(* The handlers' commits.  A commit that throws changes nothing.           *)

Idle(s) == IF Picked(s) THEN clock - shards[s].when ELSE 0

CommitWrite(q) ==
  IF Fits(q.batch)
  THEN Write(q.batch) /\ Publish(ShardsOf(Changing(q.batch)), Cardinality(Changing(q.batch)))
  ELSE UNCHANGED stateVars /\ Silent

CommitRemove(q) ==
  LET gone == {r \in q.rows : messages[r] = "TO_DELIVER"} IN
  Remove(q.rows) /\ Publish(ShardsOf(gone), Cardinality(gone))

CommitPick(q) ==
  IF PickOutcome(q.shard, q.worker, Idle(q.shard), q.pendingOnly, q.revalidate) = "picked"
  THEN SetSession(q.shard, q.worker, clock) /\ Publish({q.shard}, 1)
  ELSE UNCHANGED stateVars /\ Silent

CommitRelease(q) ==
  IF Releasable(q.shard, q.worker)
  THEN ReleaseAll({q.shard}) /\ Publish({q.shard}, 1)
  ELSE UNCHANGED stateVars /\ Silent

\* Mutant: sessions that expire are not published.
CommitExpireSilently(q) ==
  ReleaseAll(Expired([s \in DOMAIN shards |-> Idle(s)], q.period)) /\ Silent

CommitExpire(q) ==
  LET freed == Expired([s \in DOMAIN shards |-> Idle(s)], q.period) IN
  ReleaseAll(freed) /\ Publish(freed, Cardinality(freed))

Commit(q) ==
  CASE q.op = "write"   -> CommitWrite(q)
    [] q.op = "remove"  -> CommitRemove(q)
    [] q.op = "pick"    -> CommitPick(q)
    [] q.op = "release" -> CommitRelease(q)
    [] q.op = "expire"  -> CommitExpire(q)

-----------------------------------------------------------------------------
(* MutationAdmission.                                                      *)

\* run(): refused when closed or full
Submit ==
  /\ flushing = 0 /\ ~ closing /\ Len(pending) < MaxPending
  /\ \E q \in Requests : pending' = Append(pending, [request |-> q, aborted |-> FALSE])
  /\ UNCHANGED <<stateVars, clock, flushing, closing, streamVars>>

\* The caller's signal aborts while its mutation waits for admission.
AbortCall ==
  /\ flushing = 0
  /\ \E i \in DOMAIN pending :
       /\ ~ pending[i].aborted
       /\ pending' = [pending EXCEPT ![i].aborted = TRUE]
  /\ UNCHANGED <<stateVars, clock, flushing, closing, streamVars>>

\* #flush() takes the queue ...
Flush ==
  /\ flushing = 0 /\ pending # <<>>
  /\ flushing' = Len(pending)
  /\ UNCHANGED <<stateVars, clock, pending, closing, streamVars>>

\* ... and admits its entries one after the other, without interruption.
Admit ==
  /\ flushing > 0
  /\ flushing' = flushing - 1 /\ pending' = Tail(pending)
  /\ IF Head(pending).aborted THEN UNCHANGED stateVars /\ Silent
     ELSE Commit(Head(pending).request)
  /\ UNCHANGED <<clock, closing>>

-----------------------------------------------------------------------------
(* subscribeToShardUpdates(): the generator and its consumer.              *)

\* The acknowledgement is yielded; the subscriber is not listed yet.
Subscribe(u) ==
  /\ flushing = 0 /\ stream[u] = "none" /\ ~ closing
  /\ stream' = [stream EXCEPT ![u] = "created"]
  /\ UNCHANGED <<stateVars, clock, queueVars, closing, backlog, last>>

\* The consumer takes the acknowledgement, and asks for the first frame.
Attach(u) ==
  /\ flushing = 0 /\ stream[u] = "created"
  /\ stream' = [stream EXCEPT ![u] = "attached"]
  /\ backlog' = [backlog EXCEPT ![u] = Waiting]
  /\ UNCHANGED <<stateVars, clock, queueVars, closing, last>>

\* next(): a buffered frame is handed over, or the generator waits for one
TakeFrame(u) ==
  /\ flushing = 0 /\ stream[u] = "attached" /\ backlog[u] # Waiting
  /\ backlog' = [backlog EXCEPT ![u] = @ - 1]
  /\ UNCHANGED <<stateVars, clock, queueVars, closing, stream, last>>

\* The client cancels, or its connection ends.
Cancel(u) ==
  /\ flushing = 0 /\ stream[u] \in {"created", "attached"}
  /\ stream' = [stream EXCEPT ![u] = "ended"]
  /\ backlog' = [backlog EXCEPT ![u] = 0]
  /\ last' = [last EXCEPT ![u] = Forgotten]
  /\ UNCHANGED <<stateVars, clock, queueVars, closing>>

-----------------------------------------------------------------------------
\* close() of every listed subscriber.  That ends the stream of a generator which
\* waits for a frame; one which is handing a frame over drops its buffer, and
\* will wait for the next.
CloseStreams ==
  LET waiting == {u \in Subscribers : stream[u] = "attached" /\ backlog[u] = Waiting} IN
  /\ stream' = [u \in Subscribers |-> IF u \in waiting THEN "ended" ELSE stream[u]]
  /\ backlog' = [u \in Subscribers |-> IF stream[u] = "attached" THEN 0 ELSE backlog[u]]
  /\ last' = [u \in Subscribers |-> IF u \in waiting THEN Forgotten ELSE last[u]]

\* Mutant: only the entries that a flush has not been scheduled for go.
CloseKeepsPending ==
  /\ flushing = 0 /\ ~ closing
  /\ closing' = TRUE
  /\ CloseStreams
  /\ UNCHANGED <<stateVars, clock, queueVars>>

\* close(): waiting mutations are rejected, and the subscribers are closed.
Close ==
  /\ flushing = 0 /\ ~ closing
  /\ closing' = TRUE /\ pending' = <<>>
  /\ CloseStreams
  /\ UNCHANGED <<stateVars, clock, flushing>>

Tick ==
  /\ flushing = 0 /\ clock < MaxClock
  /\ clock' = clock + 1
  /\ UNCHANGED <<stateVars, queueVars, closing, streamVars>>

Next ==
  \/ Submit \/ AbortCall \/ Flush \/ Admit \/ Close \/ Tick
  \/ \E u \in Subscribers : Subscribe(u) \/ Attach(u) \/ TakeFrame(u) \/ Cancel(u)

Spec == Init /\ [][Next]_vars

-----------------------------------------------------------------------------
(* Properties.                                                             *)

\* Every counter kept beside the rows equals what the rows say, through
\* overwrites, status changes, batches and removals; a counter that disagreed
\* would make delete() or recordMessageTransition() throw after the change
\* (#replace, #decrementMessageShard, InboxTransitions.delta).
CountsMatch ==
  \A s \in Shards :
    /\ messageShards[s] = Cardinality(Retained(s))
    /\ deliverableShards[s] = Cardinality(Deliverable(s))
    /\ messageCounts[s] = Cardinality(Deliverable(s))

\* The retained state stays within its limits, and a shard that is neither
\* picked nor has rows is forgotten: released records do not fill the table
\* (#ensureCapacity, #ensureShardCapacity, #pruneReleasedShard, release).
WithinLimits ==
  /\ Cardinality({r \in Rows : messages[r] # "absent"}) <= MaxMessages
  /\ Cardinality(TrackedShards) <= MaxShards
  /\ \A s \in DOMAIN shards : Picked(s) \/ Retained(s) # {}

\* What an open stream was last told of a shard is how the shard stands now:
\* no mutation that changes the status or the count goes unpublished
\* (onTransition, onMessageTransition).
LastFrameIsCurrent ==
  \A u \in Subscribers, s \in Shards :
    stream[u] = "attached" /\ last[u][s] # NoFrame => last[u][s] = Observation(s)

\* Nothing commits once close() has begun, although a flush is scheduled and
\* mutations were waiting for it (MutationAdmission.close).
ClosedCommitsNothing == [][closing => UNCHANGED stateVars]_vars
=============================================================================
