------------------------ MODULE DeliverySupervisor -------------------------
(***************************************************************************)
(* DeliverySupervisor: one node's admission of shard runs.  Explicit and   *)
(* observed notifications start a run or wait in a bounded queue; overflow *)
(* asks for a rescan of the remote source, a periodic recovery rescans in  *)
(* any case, a watch reports remote changes and is restarted when it       *)
(* fails, and close() stops admission, waits, fences and cleans up.        *)
(*                                                                         *)
(* Timers fire at any time, a remote call is answered at any later time.   *)
(* A shard run is abstract: it settles as drained, failed, or skipped      *)
(* because another node owns the shard.                                    *)
(***************************************************************************)
EXTENDS Naturals, Sequences, FiniteSets

CONSTANTS
  NumShards,     \* shards, in the order the source lists them
  Concurrency,   \* largest number of active runs
  PendingLimit,  \* largest number of queued shards
  Outcomes,      \* how a run may settle: drained, failed, skipped
  MaxPosts,      \* bound: messages posted
  MaxFaults      \* bound: failed remote calls, broken watches, runs that do not drain

ASSUME SupervisorAssumption ==
  /\ NumShards \in Nat \ {0} /\ Concurrency \in Nat \ {0}
  /\ Outcomes \subseteq {"drained", "failed", "skipped"}
  /\ PendingLimit \in Nat \ {0} /\ MaxPosts \in Nat /\ MaxFaults \in Nat

Shards == 1 .. NumShards

VARIABLES
  started,          \* #started
  phase,            \* where close() is: open, grace, release, drain, failed, closed
  active,           \* #active
  pending,          \* #pending, in insertion order
  failedObserved,   \* #failedObserved
  rescanRequired,   \* #rescanRequired
  recovery,         \* #recovering: none, release, snapshot, answered, done, failed
  snapshot,         \* shards the answered snapshot lists, not applied yet
  onRecovered,      \* who continues after the shared recovery attempt
  recoveryTimer,    \* #recoveryTimer is set
  watchTimer,       \* #watchTimer is set
  watching,         \* #watching
  releasing,        \* #releaseAttempt is in flight
  closeConfirms,    \* a close attempt waits for that release, or did so in time
  releaseConfirmed, \* #releaseConfirmed
  releaseError,     \* the current close attempt saw its release fail
  idle,             \* #idle: who waits for idleness
  work,             \* remote: shards with undelivered messages
  updates,          \* remote: watch updates on their way
  posts, faults     \* used up bounds

queueVars   == <<active, pending, rescanRequired>>
recoverVars == <<recovery, snapshot, onRecovered>>
timerVars   == <<recoveryTimer, watchTimer>>
releaseVars == <<releasing, closeConfirms, releaseConfirmed, releaseError>>
remoteVars  == <<work, updates, posts, faults>>
vars == <<started, phase, queueVars, failedObserved, recoverVars, timerVars, watching,
          releaseVars, idle, remoteVars>>

Request == [shard : Shards, observed : BOOLEAN]

TypeOK ==
  /\ started \in BOOLEAN
  /\ phase \in {"open", "grace", "release", "drain", "failed", "closed"}
  /\ active \subseteq Shards
  /\ pending \in Seq(Request)
  /\ failedObserved \subseteq Shards
  /\ rescanRequired \in BOOLEAN
  /\ recovery \in {"none", "release", "snapshot", "answered", "done", "failed"}
  /\ snapshot \subseteq Shards
  /\ onRecovered \subseteq {"start", "periodic", "watch"}
  /\ recoveryTimer \in BOOLEAN /\ watchTimer \in BOOLEAN /\ watching \in BOOLEAN
  /\ releasing \in BOOLEAN /\ closeConfirms \in BOOLEAN
  /\ releaseConfirmed \in BOOLEAN /\ releaseError \in BOOLEAN
  /\ idle \subseteq {"caller", "grace", "drain"}
  /\ work \subseteq Shards /\ updates \subseteq Shards
  /\ posts \in 0 .. MaxPosts /\ faults \in 0 .. MaxFaults

Init ==
  /\ started = FALSE /\ phase = "open"
  /\ active = {} /\ pending = <<>> /\ failedObserved = {} /\ rescanRequired = FALSE
  /\ recovery = "none" /\ snapshot = {} /\ onRecovered = {}
  /\ recoveryTimer = FALSE /\ watchTimer = FALSE /\ watching = FALSE
  /\ releasing = FALSE /\ closeConfirms = FALSE
  /\ releaseConfirmed = FALSE /\ releaseError = FALSE
  /\ idle = {}
  /\ work = {} /\ updates = {} /\ posts = 0 /\ faults = 0

-----------------------------------------------------------------------------
(* The admission queue, as a value q = [active, pending, rescan].          *)

Queue == [active |-> active, pending |-> pending, rescan |-> rescanRequired]

SetQueue(q) ==
  active' = q.active /\ pending' = q.pending /\ rescanRequired' = q.rescan

Queued(q, k) == \E i \in DOMAIN q.pending : q.pending[i].shard = k


\* #queue(): an explicit request overrides an observed one in place, and a
\* full queue only remembers that a rescan is needed.
Enqueue(q, k, observed) ==
  IF Queued(q, k)
  THEN [q EXCEPT !.pending =
         [i \in DOMAIN @ |-> IF @[i].shard = k /\ ~ observed
                             THEN [shard |-> k, observed |-> FALSE] ELSE @[i]]]
  ELSE IF Len(q.pending) >= PendingLimit
  THEN [q EXCEPT !.rescan = TRUE]
  ELSE [q EXCEPT !.pending = Append(@, [shard |-> k, observed |-> observed])]

\* #admit() on an open, started supervisor.
Admit(q, k, observed) ==
  IF k \in q.active \/ Cardinality(q.active) >= Concurrency
  THEN Enqueue(q, k, observed)
  ELSE [q EXCEPT !.active = @ \union {k}]


\* Mutant: observations retry a failed shard at once.
AdmitObservedAlways(q, k) == Admit(q, k, TRUE)

\* #notifyObserved(): a failed shard waits for the next periodic recovery.
AdmitObserved(q, k) == IF k \in failedObserved THEN q ELSE Admit(q, k, TRUE)

\* The queue once the snapshot is applied, shard by shard.
Admitted[i \in 0 .. NumShards] ==
  IF i = 0 THEN Queue
  ELSE IF i \in snapshot THEN AdmitObserved(Admitted[i - 1], i) ELSE Admitted[i - 1]

Accepting == started /\ phase = "open"

\* The requests but those of the given shards.
Without(requests, gone) ==
  LET Rest[i \in 0 .. Len(requests)] ==
        IF i = 0 THEN <<>>
        ELSE IF requests[i].shard \in gone THEN Rest[i - 1]
        ELSE Append(Rest[i - 1], requests[i])
  IN Rest[Len(requests)]

\* #startNext(): first the repeat of the completed shard, then the waiting
\* shards in order while there is room.
Repeat(q, k, failed) ==
  LET explicit == \E i \in DOMAIN q.pending : q.pending[i] = [shard |-> k, observed |-> FALSE]
      freed    == [q EXCEPT !.active = @ \ {k}, !.pending = Without(@, {k})]
  IN IF Queued(q, k) /\ (explicit \/ k \notin failed)
     THEN Admit(freed, k, ~ explicit) ELSE freed


\* Mutant: a completed run starts nothing but its own repeat.
StartWaitingNone(q) == q

StartWaiting(q) ==
  LET waiting == {i \in DOMAIN q.pending : q.pending[i].shard \notin q.active}
      room    == Concurrency - Cardinality(q.active)
      first   == {q.pending[i].shard :
                   i \in {j \in waiting : Cardinality({m \in waiting : m <= j}) <= room}}
  IN [q EXCEPT !.active = @ \union first, !.pending = Without(@, first)]

-----------------------------------------------------------------------------
(* Recovery: one shared attempt releases expired sessions, reads a         *)
(* snapshot and admits what it lists.                                      *)

\* #recover() by the given continuations, inside another action.
Recover(who) ==
  /\ onRecovered' = onRecovered \union who
  /\ IF recovery = "none"
     THEN recovery' = "release" /\ releasing' = TRUE
     ELSE UNCHANGED <<recovery, releasing>>
  /\ UNCHANGED <<snapshot, closeConfirms, releaseConfirmed, releaseError>>

Start ==
  /\ ~ started /\ phase = "open"
  /\ started' = TRUE
  /\ Recover({"start"})
  /\ UNCHANGED <<phase, queueVars, failedObserved, timerVars, watching, idle, remoteVars>>

\* The snapshot is taken at the source: shards this node runs may or may
\* not be reported as picked.
SnapshotAnswers ==
  /\ recovery = "snapshot"
  /\ recovery' = "answered"
  /\ \E picked \in SUBSET active : snapshot' = work \ picked
  /\ UNCHANGED <<started, phase, queueVars, failedObserved, onRecovered, timerVars, watching,
                 releaseVars, idle, remoteVars>>

SnapshotFails ==
  /\ recovery = "snapshot" /\ faults < MaxFaults
  /\ recovery' = "failed" /\ faults' = faults + 1
  /\ UNCHANGED <<started, phase, queueVars, failedObserved, snapshot, onRecovered, timerVars,
                 watching, releaseVars, idle, work, updates, posts>>

SnapshotApplied ==
  /\ recovery = "answered"
  /\ recovery' = "done" /\ snapshot' = {}
  /\ IF Accepting THEN SetQueue(Admitted[NumShards])
                  ELSE UNCHANGED queueVars
  /\ UNCHANGED <<started, phase, failedObserved, onRecovered, timerVars, watching,
                 releaseVars, idle, remoteVars>>


\* Mutants: a failed recovery does not set the periodic timer again; the
\* timer is set again after close(); it is set once, by start().
RecoverySettlesOnSuccess ==
  /\ recovery \in {"done", "failed"}
  /\ recovery' = "none" /\ onRecovered' = {}
  /\ IF phase = "open" /\ recovery = "done"
     THEN /\ watching' = (watching \/ onRecovered # {})
          /\ recoveryTimer' = (recoveryTimer \/ onRecovered \intersect {"start", "periodic"} # {})
          /\ UNCHANGED watchTimer
     ELSE UNCHANGED <<watching, timerVars>>
  /\ UNCHANGED <<started, phase, queueVars, failedObserved, snapshot, releaseVars, idle,
                 remoteVars>>

RecoverySettlesLate ==
  /\ recovery \in {"done", "failed"}
  /\ recovery' = "none" /\ onRecovered' = {}
  /\ recoveryTimer' = (recoveryTimer \/ onRecovered \intersect {"start", "periodic"} # {})
  /\ UNCHANGED <<started, phase, queueVars, failedObserved, snapshot, releaseVars, idle,
                 remoteVars, watching, watchTimer>>

RecoverySettlesOnce ==
  /\ recovery \in {"done", "failed"}
  /\ recovery' = "none" /\ onRecovered' = {}
  /\ IF phase = "open"
     THEN /\ watching' = (watching \/ (recovery = "done" /\ onRecovered # {}))
          /\ recoveryTimer' = (recoveryTimer \/ "start" \in onRecovered)
          /\ watchTimer' = (watchTimer \/ (recovery = "failed" /\ "watch" \in onRecovered))
     ELSE UNCHANGED <<watching, timerVars>>
  /\ UNCHANGED <<started, phase, queueVars, failedObserved, snapshot, releaseVars, idle,
                 remoteVars>>

\* The shared promise settles; start(), the periodic timer and the watch
\* restart continue after it, a rescan has no continuation.
RecoverySettles ==
  /\ recovery \in {"done", "failed"}
  /\ recovery' = "none" /\ onRecovered' = {}
  /\ IF phase = "open"
     THEN /\ watching' = (watching \/ (recovery = "done" /\ onRecovered # {}))
          /\ recoveryTimer' = (recoveryTimer \/ onRecovered \intersect {"start", "periodic"} # {})
          /\ watchTimer' = (watchTimer \/ (recovery = "failed" /\ "watch" \in onRecovered))
     ELSE UNCHANGED <<watching, timerVars>>
  /\ UNCHANGED <<started, phase, queueVars, failedObserved, snapshot, releaseVars, idle,
                 remoteVars>>

PeriodicFires ==
  /\ recoveryTimer
  /\ recoveryTimer' = FALSE
  /\ failedObserved' = {}
  /\ Recover({"periodic"})
  /\ UNCHANGED <<started, phase, queueVars, watchTimer, watching, idle, remoteVars>>

WatchTimerFires ==
  /\ watchTimer
  /\ watchTimer' = FALSE
  /\ Recover({"watch"})
  /\ UNCHANGED <<started, phase, queueVars, failedObserved, recoveryTimer, watching, idle,
                 remoteVars>>

-----------------------------------------------------------------------------
(* Notifications and the watch.                                            *)

\* A message is stored for shard k by this node, which then notifies.
PostLocal(k) ==
  /\ posts < MaxPosts
  /\ posts' = posts + 1
  /\ work' = work \union {k}
  /\ updates' = IF watching THEN updates \union {k} ELSE updates
  /\ IF Accepting THEN SetQueue(Admit(Queue, k, FALSE)) ELSE UNCHANGED queueVars
  /\ UNCHANGED <<started, phase, failedObserved, recoverVars, timerVars, watching, releaseVars,
                 idle, faults>>

\* Another node stores a message; only the watch or a snapshot can tell.
PostRemote(k) ==
  /\ posts < MaxPosts
  /\ posts' = posts + 1
  /\ work' = work \union {k}
  /\ updates' = IF watching THEN updates \union {k} ELSE updates
  /\ UNCHANGED <<started, phase, queueVars, failedObserved, recoverVars, timerVars, watching,
                 releaseVars, idle, faults>>

WatchUpdate(k) ==
  /\ watching /\ phase = "open"
  /\ k \in updates
  /\ updates' = updates \ {k}
  /\ SetQueue(AdmitObserved(Queue, k))
  /\ UNCHANGED <<started, phase, failedObserved, recoverVars, timerVars, watching, releaseVars,
                 idle, work, posts, faults>>

\* The stream fails, ends, or is cancelled by close().
WatchEnds ==
  /\ watching
  /\ watching' = FALSE /\ updates' = {}
  /\ \/ /\ phase = "open" /\ faults < MaxFaults
        /\ faults' = faults + 1 /\ watchTimer' = TRUE
     \/ phase # "open" /\ UNCHANGED <<faults, watchTimer>>
  /\ UNCHANGED <<started, phase, queueVars, failedObserved, recoverVars, recoveryTimer,
                 releaseVars, idle, work, posts>>

-----------------------------------------------------------------------------
(* Runs.                                                                   *)


\* Mutant: nobody resolves the idle waiters.
SettleIdleNever == idle' = idle

\* #settleIdle()
SettleIdle == idle' = IF active' = {} /\ pending' = <<>> THEN {} ELSE idle

\* #run() leaves through its finally block.
RunSettles(k, outcome) ==
  /\ k \in active
  /\ IF outcome = "drained" THEN UNCHANGED faults ELSE faults < MaxFaults /\ faults' = faults + 1
  /\ work' = IF outcome = "drained" THEN work \ {k} ELSE work
  /\ updates' = IF outcome = "failed" /\ watching THEN updates \union {k} ELSE updates
  /\ failedObserved' = IF outcome = "failed" /\ phase = "open"
                       THEN failedObserved \union {k} ELSE failedObserved
  /\ IF phase = "open"
     THEN LET q == StartWaiting(Repeat(Queue, k, failedObserved')) IN
          /\ SetQueue([q EXCEPT !.rescan = FALSE])
          /\ IF q.rescan THEN Recover({}) ELSE UNCHANGED <<recoverVars, releaseVars>>
     ELSE /\ active' = active \ {k}
          /\ UNCHANGED <<pending, rescanRequired, recoverVars, releaseVars>>
  /\ SettleIdle
  /\ UNCHANGED <<started, phase, timerVars, watching, posts>>

WhenIdle ==
  /\ active # {} \/ pending # <<>>
  /\ "caller" \notin idle
  /\ idle' = idle \union {"caller"}
  /\ UNCHANGED <<started, phase, queueVars, failedObserved, recoverVars, timerVars, watching,
                 releaseVars, remoteVars>>

-----------------------------------------------------------------------------
(* close().                                                                *)

\* After the release phase: wait for entered runs, then settle the attempt.
EnterDrain(error) ==
  /\ releaseError' = error
  /\ \/ active # {} /\ phase' = "drain" /\ idle' = idle \union {"drain"}
     \/ active = {} /\ phase' = (IF error THEN "failed" ELSE "closed") /\ UNCHANGED idle

\* After the grace phase: fence the runs, then release expired sessions
\* unless that is confirmed already; an attempt in flight is shared.
EnterRelease ==
  \/ /\ releaseConfirmed
     /\ EnterDrain(FALSE)
     /\ UNCHANGED <<releasing, closeConfirms, releaseConfirmed>>
  \/ /\ ~ releaseConfirmed
     /\ phase' = "release" /\ releasing' = TRUE /\ closeConfirms' = TRUE
     /\ releaseError' = FALSE
     /\ UNCHANGED <<idle, releaseConfirmed>>

Close ==
  /\ phase \in {"open", "failed"}
  /\ pending' = <<>>
  /\ recoveryTimer' = FALSE /\ watchTimer' = FALSE
  /\ \/ active # {} /\ phase' = "grace" /\ idle' = idle \union {"grace"} /\ UNCHANGED releaseVars
     \/ active = {} /\ EnterRelease
  /\ UNCHANGED <<started, active, rescanRequired, failedObserved, recoverVars, watching,
                 remoteVars>>

\* The active runs have settled, or the grace time is over.
GraceEnds ==
  /\ phase = "grace"
  /\ EnterRelease
  /\ UNCHANGED <<started, queueVars, failedObserved, recoverVars, timerVars, watching,
                 remoteVars>>

ReleaseTimesOut ==
  /\ phase = "release"
  /\ EnterDrain(TRUE)
  /\ UNCHANGED <<started, queueVars, failedObserved, recoverVars, timerVars, watching,
                 releasing, closeConfirms, releaseConfirmed, remoteVars>>

\* The shared release call is answered, to a recovery, to a close attempt
\* that waits for it, and to one that has stopped waiting.
ReleaseAnswers(ok) ==
  /\ releasing
  /\ releasing' = FALSE /\ closeConfirms' = FALSE
  /\ IF ok THEN UNCHANGED faults ELSE faults < MaxFaults /\ faults' = faults + 1
  /\ recovery' = IF recovery # "release" THEN recovery ELSE IF ok THEN "snapshot" ELSE "failed"
  /\ releaseConfirmed' = (releaseConfirmed \/ (closeConfirms /\ ok))
  /\ IF phase = "release" THEN EnterDrain(~ ok) ELSE UNCHANGED <<phase, idle, releaseError>>
  /\ UNCHANGED <<started, queueVars, failedObserved, snapshot, onRecovered, timerVars, watching,
                 work, updates, posts>>

DrainEnds ==
  /\ phase = "drain" /\ "drain" \notin idle
  /\ phase' = IF releaseError THEN "failed" ELSE "closed"
  /\ UNCHANGED <<started, queueVars, failedObserved, recoverVars, timerVars, watching,
                 releaseVars, idle, remoteVars>>

-----------------------------------------------------------------------------
Remote == SnapshotAnswers \/ ReleaseAnswers(TRUE)

Internal ==
  \/ SnapshotApplied \/ RecoverySettles \/ PeriodicFires \/ WatchTimerFires
  \/ GraceEnds \/ DrainEnds

Next ==
  \/ Start \/ Remote \/ Internal
  \/ SnapshotFails \/ ReleaseAnswers(FALSE) \/ WatchEnds
  \/ \E k \in Shards :
       \/ PostLocal(k) \/ PostRemote(k) \/ WatchUpdate(k)
       \/ \E outcome \in Outcomes : RunSettles(k, outcome)
  \/ WhenIdle \/ Close \/ ReleaseTimesOut

Spec == Init /\ [][Next]_vars

\* The source answers, timers fire, entered runs settle.
Fairness ==
  /\ WF_vars(SnapshotAnswers) /\ WF_vars(ReleaseAnswers(TRUE))
  /\ WF_vars(SnapshotApplied) /\ WF_vars(RecoverySettles)
  /\ WF_vars(PeriodicFires) /\ WF_vars(WatchTimerFires)
  /\ WF_vars(GraceEnds) /\ WF_vars(DrainEnds)
  /\ \A k \in Shards :
       WF_vars(\E outcome \in Outcomes : RunSettles(k, outcome))

FairSpec == Spec /\ Fairness

-----------------------------------------------------------------------------
(* Properties.                                                             *)

\* The shards with a queued request.
Waiting == {pending[i].shard : i \in DOMAIN pending}

(* No queued shard waits while it could run: it is active itself, or every *)
(* slot is taken (#admit, #startNext).                                     *)
WorkConserving ==
  \A k \in Waiting : k \in active \/ Cardinality(active) = Concurrency

(* After a failed run, observations alone never queue the shard before the *)
(* next periodic recovery (#failedObserved).                               *)
NoEarlyRetry ==
  \A i \in DOMAIN pending : pending[i].observed => pending[i].shard \notin failedObserved

(* A started supervisor never goes dormant: until close() there is always  *)
(* a periodic timer or a recovery attempt that will set it again           *)
(* (#scheduleRecovery, #recover).                                          *)
RecoveryAlive ==
  /\ Accepting => recoveryTimer \/ onRecovered \intersect {"start", "periodic"} # {}
  /\ onRecovered # {} => recovery # "none"

(* Closed means quiet: no run, no timer, expired sessions released.        *)
ClosedIsQuiet ==
  /\ phase # "open" => ~ recoveryTimer /\ ~ watchTimer /\ pending = <<>>
  /\ phase = "closed" => active = {} /\ releaseConfirmed

(* As long as runs drain their shards, undelivered messages lead to a run  *)
(* of their shard, although notifications overflow the queue, the watch    *)
(* breaks and recoveries fail.                                             *)
WorkRuns ==
  \A k \in Shards :
    started /\ phase = "open" /\ k \in work ~> k \in active \/ k \notin work \/ phase # "open"

(* A close attempt settles once the entered runs do.                       *)
CloseSettles == phase \in {"grace", "release", "drain"} ~> phase \in {"failed", "closed"}
=============================================================================
