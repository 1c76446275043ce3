--------------------------- MODULE DirectDelivery ---------------------------
(***************************************************************************)
(* Delivery and DeliveryDrain: how one node drains one shard.  At most one *)
(* shared run is active; it picks the shard session up, reads the inbox in *)
(* pages until a complete scan delivers nothing and nothing woke it, and   *)
(* releases the session.  Wakes come from stored rows, from callers that   *)
(* wait for their own row (drainMessage), and from agents that end.  A row *)
(* for an agent needs an execution slot: without one it is deferred until  *)
(* capacity is released; with one it is acknowledged first, and the agent  *)
(* runs on under the session.                                              *)
(***************************************************************************)
EXTENDS Naturals, FiniteSets, FiniteSetsExt

CONSTANTS
  NumMsgs,      \* inbox rows 1 .. NumMsgs, numbered in inbox order
  Targets,      \* the entities that receive them
  TargetOf,     \* the recipient of each row
  Agents,       \* the targets that are agents
  PageSize,     \* rows of one inbox page
  Slots,        \* concurrent agent executions of the process, no queue
  Callers,      \* bound: the rows that drainMessage is called for
  MaxAttempts,  \* bound: drainMessage calls for one row
  MaxOthers,    \* bound: agent executions started by other shards
  MaxFaults     \* bound: failed storage calls and lost sessions

Msgs == 1 .. NumMsgs

ASSUME DeliveryAssumption ==
  /\ NumMsgs \in Nat /\ TargetOf \in [Msgs -> Targets] /\ Agents \subseteq Targets
  /\ IsFiniteSet(Targets) /\ PageSize \in Nat \ {0} /\ Slots \in Nat \ {0}
  /\ Callers \subseteq Msgs /\ MaxAttempts \in Nat /\ MaxOthers \in Nat /\ MaxFaults \in Nat

VARIABLES
  row,          \* the inbox: absent, stored (TO_DELIVER), delivered, gone
  toNotify,     \* stored rows whose notification is on its way
  poster,       \* what drainMessage has told the caller of each row
  attempts,     \* drainMessage calls so far
  intake,       \* open, startup (beginStartupDrain), closing
  run,          \* the shared run: none, picking, reading, releasing
  at,           \* where a reading run is: scan, page, dispatch, defer, admit, wait
  result,       \* how it ends, or how the last one ended
  pendingWake,  \* #pendingDirectWake
  stopped,      \* #stopped of the drain
  page, old,    \* the rows of the page, and those that were read as DELIVERED
  pos,          \* the last row of the page that the drain is done with
  after,        \* the continuation: the last row of the previous page
  progress,     \* deliveredInScan
  woken,        \* #wakeGeneration moved since the scan began
  moved,        \* #wakeGeneration moved since the current dispatch began
  blocked,      \* #blockedTargets
  capBlocked,   \* #capacityBlockedTargets
  owed,         \* history: rows that were stored at a wake this run has taken
  reserved,     \* agents holding an execution slot through this shard
  live,         \* #liveAgents
  receipts,     \* rows with a durable agent acceptance receipt
  others,       \* an agent of another shard holds a slot
  otherStarts,  \* used up bound
  deferred,     \* DeliveryReadiness has this shard's route deferred
  faults        \* used up bound

inboxVars    == <<row, toNotify>>
posterVars   == <<poster, attempts>>
runVars      == <<run, result, stopped>>
scanVars     == <<at, page, old, pos, after, progress>>
wakeVars     == <<pendingWake, woken, moved, blocked, capBlocked, owed>>
slotVars     == <<reserved, live, receipts, deferred>>
otherVars    == <<others, otherStarts>>
vars == <<inboxVars, posterVars, intake, runVars, scanVars, wakeVars, slotVars, otherVars, faults>>

TypeOK ==
  /\ row \in [Msgs -> {"absent", "stored", "delivered", "gone"}]
  /\ toNotify \subseteq Msgs
  /\ poster \in [Msgs -> {"none", "waiting", "acknowledged", "deferred", "failed", "unresolved"}]
  /\ attempts \in [Msgs -> 0 .. MaxAttempts]
  /\ intake \in {"open", "startup", "closing"}
  /\ run \in {"none", "picking", "reading", "releasing"}
  /\ at \in {"scan", "page", "dispatch", "defer", "admit", "wait"}
  /\ result \in {"none", "drained", "stopped", "skipped", "failed", "error"}
  /\ pendingWake \in BOOLEAN /\ stopped \in BOOLEAN
  /\ page \subseteq Msgs /\ old \subseteq page
  /\ pos \in 0 .. NumMsgs /\ after \in 0 .. NumMsgs
  /\ progress \in BOOLEAN /\ woken \in BOOLEAN /\ moved \in BOOLEAN
  /\ blocked \subseteq Targets /\ capBlocked \subseteq blocked
  /\ reserved \subseteq Agents /\ live \subseteq Agents /\ receipts \subseteq Msgs
  /\ others \in BOOLEAN /\ otherStarts \in 0 .. MaxOthers
  /\ deferred \in BOOLEAN
  /\ owed \subseteq Msgs /\ faults \in 0 .. MaxFaults

Init ==
  /\ row = [m \in Msgs |-> "absent"] /\ toNotify = {}
  /\ poster = [m \in Msgs |-> "none"] /\ attempts = [m \in Msgs |-> 0]
  /\ intake = "open" /\ run = "none" /\ result = "none" /\ stopped = FALSE
  /\ at = "scan" /\ page = {} /\ old = {} /\ pos = 0 /\ after = 0 /\ progress = FALSE
  /\ pendingWake = FALSE /\ woken = FALSE /\ moved = FALSE
  /\ blocked = {} /\ capBlocked = {} /\ owed = {}
  /\ reserved = {} /\ live = {} /\ receipts = {} /\ deferred = FALSE
  /\ others = FALSE /\ otherStarts = 0 /\ faults = 0

Stored == {m \in Msgs : row[m] = "stored"}
Waiting == {m \in Msgs : poster[m] = "waiting"}

\* The rows of the page that are left, and the one the drain is at: a page is
\* in inbox order.
Ahead == {m \in page : m > pos}
Current == Min(Ahead)
Target == TargetOf[Current]

Fault == faults < MaxFaults /\ faults' = faults + 1

-----------------------------------------------------------------------------
(* Waking the shard.                                                       *)

\* DeliveryDrain.wake() of a reading drain: another scan is needed, and the
\* targets that wait for capacity are tried again.
WakeDrain ==
  /\ woken' = TRUE /\ moved' = TRUE
  /\ blocked' = blocked \ capBlocked /\ capBlocked' = {}
  /\ owed' = owed \union Stored
  /\ UNCHANGED <<run, pendingWake>>

\* Mutant: a wake of a drain that no longer reads is dropped.
WakeShardDropped ==
  \/ run = "reading" /\ WakeDrain
  \/ /\ run # "reading"
     /\ run' = IF run = "none" THEN "picking" ELSE run
     /\ pendingWake' = (pendingWake \/ run = "picking")
     /\ owed' = owed \union Stored
     /\ UNCHANGED <<woken, moved, blocked, capBlocked>>

\* Delivery.wake() and #startShared(): wake the reading drain, remember the
\* wake for a run that is not reading, or start a run.
WakeShard ==
  \/ run = "reading" /\ WakeDrain
  \/ /\ run # "reading"
     /\ run' = IF run = "none" THEN "picking" ELSE run
     /\ pendingWake' = (run # "none")
     /\ owed' = owed \union Stored
     /\ UNCHANGED <<woken, moved, blocked, capBlocked>>

\* Before startup has drained, wakes count only while a caller waits.
Hears == intake = "open" \/ (intake = "startup" /\ Waiting # {})

Wake == IF Hears THEN WakeShard ELSE UNCHANGED <<run, wakeVars>>

\* Mutant: the deferred routes are cleared before they are copied.
RetryDeferredEmpty == deferred' = FALSE /\ UNCHANGED <<run, wakeVars>>

\* retryDeferred(): released capacity wakes the deferred route, once.
RetryDeferred ==
  /\ deferred' = FALSE
  /\ IF deferred THEN Wake ELSE UNCHANGED <<run, wakeVars>>

\* A row is stored, by this node or another one.
Store(m) ==
  /\ row[m] = "absent"
  /\ row' = [row EXCEPT ![m] = "stored"]
  /\ toNotify' = toNotify \union {m}
  /\ UNCHANGED <<posterVars, intake, runVars, scanVars, wakeVars, slotVars, otherVars, faults>>

Notify(m) ==
  /\ m \in toNotify
  /\ toNotify' = toNotify \ {m}
  /\ Wake
  /\ UNCHANGED <<row, posterVars, intake, result, stopped, scanVars, slotVars, otherVars, faults>>

\* drainMessage(): the caller of a stored row waits for its outcome.  When
\* closing it can only follow a run that is still active.
DrainMessage(m) ==
  /\ m \in Callers /\ row[m] # "absent"
  /\ poster[m] \in {"none", "deferred", "unresolved"} /\ attempts[m] < MaxAttempts
  /\ attempts' = [attempts EXCEPT ![m] = @ + 1]
  /\ IF intake = "closing"
     THEN /\ poster' = [poster EXCEPT ![m] = IF run = "none" THEN "unresolved" ELSE "waiting"]
          /\ UNCHANGED <<run, wakeVars>>
     ELSE poster' = [poster EXCEPT ![m] = "waiting"] /\ WakeShard
  /\ UNCHANGED <<inboxVars, intake, result, stopped, scanVars, slotVars, otherVars, faults>>

-----------------------------------------------------------------------------
(* The run: acquisition, pages, release.                                   *)

\* Mutant: a rejected run is not reported to the callers that wait.
RunCompletesUnheard(outcome) ==
  LET next == pendingWake /\ Hears
      told == IF outcome = "error" \/ next THEN "waiting" ELSE "unresolved"
  IN /\ run' = IF next THEN "picking" ELSE "none"
     /\ result' = outcome
     /\ pendingWake' = FALSE
     /\ owed' = IF next THEN owed \intersect Stored ELSE {}
     /\ poster' = [m \in Msgs |-> IF poster[m] = "waiting" THEN told ELSE poster[m]]
     /\ UNCHANGED <<attempts, woken, moved, blocked, capBlocked>>

\* The run completes: first a remembered wake starts a successor, then the
\* callers that wait learn of it.  A rejected run fails them even so.
RunCompletes(outcome) ==
  LET next == pendingWake /\ Hears
      told == IF outcome = "error" THEN "failed" ELSE IF next THEN "waiting" ELSE "unresolved"
  IN /\ run' = IF next THEN "picking" ELSE "none"
     /\ result' = outcome
     /\ pendingWake' = FALSE
     /\ owed' = IF next THEN owed \intersect Stored ELSE {}
     /\ poster' = [m \in Msgs |-> IF poster[m] = "waiting" THEN told ELSE poster[m]]
     /\ UNCHANGED <<attempts, woken, moved, blocked, capBlocked>>

\* pickUp() answers with a session and the drain starts to read; a closing
\* delivery gives the session back.
Picked ==
  /\ run = "picking"
  /\ IF intake = "closing"
     THEN RunCompletes("stopped") /\ UNCHANGED stopped
     ELSE /\ run' = "reading" /\ stopped' = FALSE
          /\ pendingWake' = FALSE /\ woken' = FALSE /\ moved' = FALSE
          /\ blocked' = {} /\ capBlocked' = {}
          /\ UNCHANGED <<result, owed, posterVars>>
  /\ UNCHANGED <<inboxVars, intake, scanVars, slotVars, otherVars, faults>>

\* Another node owns the shard, or the registry fails.
NotPicked ==
  /\ run = "picking" /\ Fault
  /\ RunCompletes("skipped")
  /\ UNCHANGED <<inboxVars, intake, stopped, scanVars, slotVars, otherVars>>

ResetScan == page' = {} /\ old' = {} /\ pos' = 0 /\ after' = 0 /\ progress' = FALSE

\* A scan begins again at the first row.
BeginScan ==
  /\ at' = "scan" /\ ResetScan
  /\ woken' = FALSE
  /\ UNCHANGED <<runVars, pendingWake, moved, blocked, capBlocked, owed>>

\* #readPages() returns; the session will be released.
EndRun(outcome) ==
  /\ run' = "releasing" /\ result' = outcome
  /\ at' = "scan" /\ ResetScan
  /\ UNCHANGED <<stopped, wakeVars>>

\* inbox.read(): the rows of the shard that follow the continuation, or the
\* first PageSize of them.
Listed == {m \in Msgs : m > after /\ row[m] \in {"stored", "delivered"}}

IsNextPage(rows) ==
  /\ Cardinality(rows) <= PageSize
  /\ \A m \in Listed \ rows : Cardinality(rows) = PageSize /\ \A n \in rows : n < m

ReadPage ==
  /\ run = "reading" /\ at = "scan"
  /\ IF stopped
     THEN EndRun("stopped")
     ELSE /\ \E rows \in SUBSET Listed : IsNextPage(rows) /\ page' = rows
          /\ at' = "page" /\ pos' = 0
          /\ old' = {m \in page' : row[m] = "delivered"}
          /\ UNCHANGED <<after, progress, runVars, wakeVars>>
  /\ UNCHANGED <<inboxVars, posterVars, intake, slotVars, otherVars, faults>>

\* A page with room left is the last one: the drain scans again, waits for its
\* agents, or is drained.
MustRescan == woken \/ (progress /\ (page # {} \/ live = {}))

EndScan ==
  \/ /\ MustRescan
     /\ BeginScan
  \/ /\ ~ MustRescan /\ live = {}
     /\ EndRun("drained")
  \/ /\ ~ MustRescan /\ live # {}
     /\ at' = "wait" /\ page' = {} /\ old' = {} /\ pos' = 0
     /\ UNCHANGED <<after, progress, runVars, wakeVars>>

\* After a full page the drain reads on, after the last row that is left of it.
ReadOn(left) ==
  /\ at' = "scan"
  /\ after' = IF left = {} THEN after ELSE Max(left)
  /\ page' = {} /\ old' = {} /\ pos' = 0
  /\ UNCHANGED <<progress, runVars, wakeVars>>

\* The page is done: rows that were read as delivered are removed once they
\* expire.
EndPage ==
  /\ run = "reading" /\ at = "page" /\ Ahead = {}
  /\ \/ /\ stopped
        /\ EndRun("stopped") /\ UNCHANGED row
     \/ /\ ~ stopped
        /\ \E expired \in SUBSET old :
             /\ row' = [m \in Msgs |-> IF m \in expired THEN "gone" ELSE row[m]]
             /\ IF Cardinality(page) = PageSize THEN ReadOn(page \ expired) ELSE EndScan
  /\ UNCHANGED <<toNotify, posterVars, intake, slotVars, otherVars, faults>>

\* An agent ended or a wake came while the drain waited for its agents.
WaitingEnds ==
  /\ run = "reading" /\ at = "wait" /\ woken
  /\ BeginScan
  /\ UNCHANGED <<inboxVars, posterVars, intake, slotVars, otherVars, faults>>

\* Mutant: the session is released while agents run.
ReleasedEarly ==
  /\ run = "releasing"
  /\ RunCompletes(result)
  /\ UNCHANGED <<inboxVars, intake, stopped, scanVars, slotVars, otherVars, faults>>

\* #release(): every agent of the session has ended.
Released ==
  /\ run = "releasing" /\ live = {}
  /\ \/ RunCompletes(result) /\ UNCHANGED faults
     \/ Fault /\ RunCompletes(IF result = "error" THEN "error" ELSE "failed")
  /\ UNCHANGED <<inboxVars, intake, stopped, scanVars, slotVars, otherVars>>

\* Reading, or removing expired rows, failed; or the commit of an endpoint
\* found the drain stopped.  No further scan; the run rejects.
RunThrows ==
  /\ run = "reading"
  /\ at \in {"scan", "dispatch"} \/ (at = "page" /\ Ahead = {} /\ old # {})
  /\ \/ Fault
     \/ at = "dispatch" /\ stopped /\ UNCHANGED faults
  /\ stopped' = TRUE
  /\ run' = "releasing" /\ result' = "error" /\ at' = "scan" /\ ResetScan
  /\ UNCHANGED <<inboxVars, posterVars, intake, wakeVars, slotVars, otherVars>>

-----------------------------------------------------------------------------
(* Messages.                                                               *)

\* A startup drain accepts only the rows whose callers wait.
Accepts(m) == poster[m] = "waiting" \/ intake # "startup"

Skipped(m) == m \in old \/ ~ Accepts(m) \/ TargetOf[m] \in blocked

\* #processMessage() up to the dispatch.
ProcessNext ==
  /\ run = "reading" /\ at = "page" /\ Ahead # {}
  /\ \/ stopped /\ EndRun("stopped")
     \/ /\ ~ stopped /\ Skipped(Current)
        /\ pos' = Current
        /\ UNCHANGED <<runVars, wakeVars, at, page, old, after, progress>>
     \/ /\ ~ stopped /\ ~ Skipped(Current)
        /\ at' = "dispatch" /\ moved' = FALSE
        /\ UNCHANGED <<runVars, pendingWake, woken, blocked, capBlocked, owed, page, old, pos,
                       after, progress>>
  /\ UNCHANGED <<inboxVars, posterVars, intake, slotVars, otherVars, faults>>

\* The drain goes on to the next row.
NextRow == at' = "page" /\ pos' = Current /\ UNCHANGED <<page, old, after>>

\* #reportOutcome(): a caller that waits for the row is told.
Told(outcome) ==
  /\ poster' = [m \in Msgs |-> IF m = Current /\ poster[m] = "waiting" THEN outcome ELSE poster[m]]
  /\ UNCHANGED attempts

Dispatched(agent) ==
  run = "reading" /\ at = "dispatch" /\ (Target \in Agents) = agent

\* acceptMessage refuses the row when it is asked again, or a stopped drain
\* does not acknowledge what the endpoint did.
NotCompleted ==
  /\ run = "reading" /\ at = "dispatch"
  /\ ~ Accepts(Current) \/ stopped
  /\ \/ UNCHANGED posterVars
     \/ stopped /\ Told("failed")
  /\ NextRow
  /\ UNCHANGED <<inboxVars, intake, runVars, progress, wakeVars, slotVars, otherVars, faults>>

\* The endpoint settles and the row is acknowledged: also after a receptor
\* failure, which the default monitor marks delivered.
Acknowledged ==
  /\ Dispatched(FALSE)
  /\ row' = [row EXCEPT ![Current] = "delivered"] /\ progress' = TRUE
  /\ Told("acknowledged")
  /\ NextRow
  /\ UNCHANGED <<toNotify, intake, runVars, wakeVars, slotVars, otherVars, faults>>

\* Mutant: a failed acknowledgement does not block its target.
AckExhaustedUnblocked ==
  /\ Dispatched(FALSE) /\ Fault
  /\ Told("failed")
  /\ NextRow
  /\ UNCHANGED <<inboxVars, intake, runVars, progress, wakeVars, slotVars, otherVars>>

\* Three acknowledgements failed: the target waits for another run.
AckExhausted ==
  /\ Dispatched(FALSE) /\ Fault
  /\ blocked' = blocked \union {Target}
  /\ Told("failed")
  /\ NextRow
  /\ UNCHANGED <<inboxVars, intake, runVars, progress, pendingWake, woken, moved, capBlocked, owed,
                 slotVars, otherVars>>

-----------------------------------------------------------------------------
(* Agents and execution capacity.                                          *)

InUse == Cardinality(reserved) + (IF others THEN 1 ELSE 0)

\* admitAgent() finds no slot: the route is left with the readiness.
Defer ==
  /\ Dispatched(TRUE)
  /\ stopped \/ InUse >= Slots \/ Target \in reserved
  /\ at' = "defer" /\ deferred' = TRUE
  /\ UNCHANGED <<inboxVars, posterVars, intake, runVars, page, old, pos, after, progress, wakeVars,
                 reserved, live, receipts, otherVars, faults>>

\* It takes a slot and accepts the receipt.  A row accepted before is a
\* duplicate: its slot is given back at once, and it is only acknowledged.
Admit ==
  /\ Dispatched(TRUE)
  /\ ~ stopped /\ InUse < Slots /\ Target \notin reserved
  /\ at' = "admit"
  /\ receipts' = receipts \union {Current}
  /\ IF Current \in receipts
     THEN RetryDeferred /\ UNCHANGED reserved
     ELSE reserved' = reserved \union {Target} /\ UNCHANGED <<deferred, run, wakeVars>>
  /\ UNCHANGED <<inboxVars, posterVars, intake, result, stopped, page, old, pos, after, progress,
                 live, otherVars, faults>>

\* A slot is given back in the middle of a message: that retries a deferred
\* route, and the message blocks its target.
BlockedAfterRetry(retry) ==
  /\ blocked' = (IF retry THEN blocked \ capBlocked ELSE blocked) \union {Target}
  /\ capBlocked' = IF retry THEN {} ELSE capBlocked
  /\ woken' = (woken \/ retry) /\ moved' = (moved \/ retry)
  /\ owed' = IF retry THEN owed \union Stored ELSE owed
  /\ UNCHANGED pendingWake

\* The receipt cannot be stored: the slot is given back.
AdmitFails ==
  /\ Dispatched(TRUE) /\ Fault
  /\ ~ stopped /\ InUse < Slots /\ Target \notin reserved
  /\ deferred' = FALSE
  /\ BlockedAfterRetry(deferred /\ Hears)
  /\ Told("failed")
  /\ NextRow
  /\ UNCHANGED <<inboxVars, intake, runVars, progress, reserved, live, receipts, otherVars>>

\* Mutant: the deferral ignores a wake that came during the dispatch.
RecordDeferredLate ==
  /\ run = "reading" /\ at = "defer"
  /\ Told("deferred")
  /\ NextRow
  /\ blocked' = blocked \union {Target} /\ capBlocked' = capBlocked \union {Target}
  /\ UNCHANGED <<inboxVars, intake, runVars, progress, pendingWake, woken, moved, owed, slotVars,
                 otherVars, faults>>

\* #recordDeferred(): a wake that came since the dispatch has already been
\* spent on the targets blocked before, so it is repeated for this one.
RecordDeferred ==
  /\ run = "reading" /\ at = "defer"
  /\ Told("deferred")
  /\ NextRow
  /\ IF moved
     THEN WakeDrain
     ELSE /\ blocked' = blocked \union {Target} /\ capBlocked' = capBlocked \union {Target}
          /\ UNCHANGED <<run, pendingWake, woken, moved, owed>>
  /\ UNCHANGED <<inboxVars, intake, result, stopped, progress, slotVars, otherVars, faults>>

\* The row is acknowledged, then a newly accepted turn starts.
AgentAcknowledged ==
  /\ run = "reading" /\ at = "admit"
  /\ row' = [row EXCEPT ![Current] = "delivered"] /\ progress' = TRUE
  /\ live' = live \union ({Target} \intersect reserved)
  /\ Told("acknowledged")
  /\ NextRow
  /\ UNCHANGED <<toNotify, intake, runVars, wakeVars, reserved, receipts, deferred, otherVars,
                 faults>>

\* Mutant: the turn of an exhausted acknowledgement is not discarded.
AgentAckExhaustedKept ==
  /\ run = "reading" /\ at = "admit" /\ ~ stopped /\ Fault
  /\ BlockedAfterRetry(FALSE)
  /\ Told("failed")
  /\ NextRow
  /\ UNCHANGED <<inboxVars, intake, runVars, progress, slotVars, otherVars>>

\* The acknowledgement is exhausted: the accepted turn is discarded.
AgentAckExhausted ==
  /\ run = "reading" /\ at = "admit" /\ ~ stopped /\ Fault
  /\ reserved' = reserved \ {Target}
  /\ deferred' = (deferred /\ Target \notin reserved)
  /\ BlockedAfterRetry(Target \in reserved /\ deferred /\ Hears)
  /\ Told("failed")
  /\ NextRow
  /\ UNCHANGED <<inboxVars, intake, runVars, progress, live, receipts, otherVars>>

\* A stopped drain does not acknowledge: stopping gave the slot back, the
\* discard has nothing left to do.
AgentDiscarded ==
  /\ run = "reading" /\ at = "admit" /\ stopped
  /\ UNCHANGED posterVars \/ Told("failed")
  /\ NextRow
  /\ UNCHANGED <<inboxVars, intake, runVars, progress, wakeVars, slotVars, otherVars, faults>>

\* Mutant: a turn that ended stays among the live agents of its session.
AgentEndsUnlisted(t) ==
  /\ t \in live
  /\ UNCHANGED live /\ reserved' = reserved \ {t}
  /\ IF run = "reading" THEN deferred' = FALSE /\ WakeDrain ELSE RetryDeferred
  /\ UNCHANGED <<inboxVars, posterVars, intake, result, stopped, scanVars, receipts, otherVars,
                 faults>>

\* An agent turn ends: its slot is free, its drain is woken.
AgentEnds(t) ==
  /\ t \in live
  /\ live' = live \ {t} /\ reserved' = reserved \ {t}
  /\ IF run = "reading" THEN deferred' = FALSE /\ WakeDrain ELSE RetryDeferred
  /\ UNCHANGED <<inboxVars, posterVars, intake, result, stopped, scanVars, receipts, otherVars,
                 faults>>

OtherStarts ==
  /\ ~ others /\ InUse < Slots /\ otherStarts < MaxOthers
  /\ others' = TRUE /\ otherStarts' = otherStarts + 1
  /\ UNCHANGED <<inboxVars, posterVars, intake, runVars, scanVars, wakeVars, slotVars, faults>>

OtherEnds ==
  /\ others /\ others' = FALSE
  /\ RetryDeferred
  /\ UNCHANGED <<inboxVars, posterVars, intake, result, stopped, scanVars, reserved, live, receipts,
                 otherStarts, faults>>

-----------------------------------------------------------------------------
(* Stopping.                                                               *)

\* DeliveryDrain.stop(): a slot whose turn has not started is given back,
\* agents that run are told to stop, and a reading drain is woken.
StopDrain ==
  LET unstarted == IF run = "reading" /\ at = "admit" THEN {Target} \ live ELSE {}
  IN /\ stopped' = TRUE
     /\ reserved' = reserved \ unstarted
     /\ deferred' = (deferred /\ unstarted \intersect reserved = {})
     /\ IF run = "reading" THEN WakeDrain ELSE UNCHANGED <<run, wakeVars>>

\* Validation or the renewal timer finds the lease lost.
SessionLost ==
  /\ run = "reading" /\ ~ stopped /\ Fault
  /\ StopDrain
  /\ UNCHANGED <<inboxVars, posterVars, intake, result, scanVars, live, receipts, otherVars>>

BeginStartupDrain ==
  /\ intake = "open"
  /\ intake' = "startup"
  /\ UNCHANGED <<inboxVars, posterVars, runVars, scanVars, wakeVars, slotVars, otherVars, faults>>

BeginClose ==
  /\ intake # "closing"
  /\ intake' = "closing"
  /\ IF run \in {"reading", "releasing"}
     THEN StopDrain
     ELSE UNCHANGED <<run, stopped, wakeVars, reserved, deferred>>
  /\ UNCHANGED <<inboxVars, posterVars, result, scanVars, live, receipts, otherVars, faults>>

-----------------------------------------------------------------------------

RunStep ==
  \/ Picked \/ ReadPage \/ EndPage \/ WaitingEnds \/ Released
  \/ ProcessNext \/ NotCompleted \/ Acknowledged
  \/ Defer \/ Admit \/ RecordDeferred \/ AgentAcknowledged \/ AgentDiscarded

FaultStep == NotPicked \/ RunThrows \/ AckExhausted \/ AdmitFails \/ AgentAckExhausted \/ SessionLost

Next ==
  \/ \E m \in Msgs : Store(m) \/ Notify(m) \/ DrainMessage(m)
  \/ RunStep
  \/ FaultStep
  \/ \E t \in Agents : AgentEnds(t)
  \/ OtherStarts \/ OtherEnds
  \/ BeginStartupDrain \/ BeginClose

Spec == Init /\ [][Next]_vars

\* The run takes its steps, a notification arrives, and agents end: nothing
\* else is promised.
Fairness ==
  /\ WF_vars(RunStep)
  /\ \A m \in Msgs : WF_vars(Notify(m))
  /\ \A t \in Agents : WF_vars(AgentEnds(t))
  /\ WF_vars(OtherEnds)

FairSpec == Spec /\ Fairness

-----------------------------------------------------------------------------
(* Properties.                                                             *)

\* A run that ends DRAINED has dealt with every row that was stored when the
\* run was woken: a wake between the read of the last page and the release is
\* neither lost nor answered with an older page (#endScan, #readPages,
\* #startShared).  Only targets blocked by a failure or by missing capacity
\* keep rows back.
DrainedMeansDelivered ==
  [][run = "releasing" /\ run' # "releasing" /\ result' = "drained" /\ intake = "open"
       => \A m \in owed \ owed' : row[m] # "stored" \/ TargetOf[m] \in blocked]_vars

\* A target that is held back for want of a slot is not forgotten: as long as
\* the drain, or a drained shard, holds it back, the route is remembered by
\* the readiness and some agent that will release a slot still runs
\* (#recordDeferred, deferAgent, retryDeferred).
HoldsBack ==
  \/ run = "reading" /\ ~ stopped
  \/ result = "drained" /\ run = "releasing" /\ ~ pendingWake
  \/ result = "drained" /\ run = "none"

DeferredHasWaker ==
  intake = "open" /\ HoldsBack /\ capBlocked # {} => deferred /\ InUse > 0

\* No slot leaks, whatever fails between the reservation and the turn: a slot
\* is held by a running agent or by the one row under admission
\* (#completeAgentAttempt, admitReservedAgent).
NoLeakedSlot ==
  /\ InUse <= Slots
  /\ reserved \subseteq live \union
       (IF run = "reading" /\ at = "admit" THEN {Target} ELSE {})

\* Agents run only under the session that admitted them: the shard is not
\* released, and no later session is opened, before they have ended (#release).
AgentsWithinSession == live # {} => run \in {"reading", "releasing"}

\* Within a page no row of an entity is delivered ahead of an earlier one,
\* whatever fails: a failed acknowledgement blocks the entity for the rest of
\* the run (#processMessage, #completeAttempt).
InOrderPerEntity ==
  [][\A m, n \in page :
       m < n /\ TargetOf[m] = TargetOf[n] /\ TargetOf[m] \notin Agents
             /\ row[n] = "stored" /\ row'[n] = "delivered" /\ ~ stopped
         => row[m] # "stored" \/ intake = "startup"]_vars

\* Every stored row leaves TO_DELIVER, as long as the delivery stays open and
\* nothing fails: pages, deferrals and wakes never strand it.
StoredIsDelivered ==
  \A m \in Msgs : row[m] = "stored" ~> (row[m] # "stored" \/ intake # "open" \/ faults > 0)

\* Every caller of drainMessage is answered, also while starting up, closing,
\* or behind a failed run.
CallerIsAnswered == \A m \in Callers : poster[m] = "waiting" ~> poster[m] # "waiting"

\* Closing ends the active run and its agents.
CloseSettles == intake = "closing" ~> run = "none"
=============================================================================
