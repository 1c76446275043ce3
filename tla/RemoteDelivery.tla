--------------------------- MODULE RemoteDelivery ---------------------------
(***************************************************************************)
(* Workers of different processes that drain one shard of the delivery     *)
(* server through RemoteInbox and RemoteWorkRegistry.  A worker's drains   *)
(* run one after the other; every remote call is sent, executed by the     *)
(* server and answered in separate steps.  A call may time out: its answer *)
(* is lost, or it is executed later, or never.  The rows of the shard are  *)
(* numbered in the order in which a page lists them.                       *)
(***************************************************************************)
EXTENDS DeliveryState, FiniteSetsExt

CONSTANTS
  Shard,        \* the shard
  SignalOf,     \* the signal, for its target, that each row carries
  Kept,         \* rows whose keepUntil has not passed: kept after delivery
  Period,       \* inactivity period of releaseExpired()
  MaxAttempts,  \* acknowledgement attempts (3 in the code)
  MaxFaults     \* bound: lost or late calls, crashes, slow drains, late notices

ASSUME RemoteAssumption ==
  /\ Shards = {Shard} /\ Rows = 1 .. Cardinality(Rows) /\ Kept \subseteq Rows
  /\ Period \in Nat \ {0} /\ MaxAttempts \in Nat \ {0} /\ MaxFaults \in Nat
  /\ IsFiniteSet(Workers)

VARIABLES
  age,        \* age of the server's session, up to MaxAge
  drain,      \* worker -> its drain
  answer,     \* worker -> the answer to its outstanding call
  late,       \* mutations that the server executes after their caller gave up
  notice,     \* worker -> whether a NOT_PICKED observation is under way to it
  recent,     \* worker -> RecentDeliveries of its process
  committed,  \* signals whose effects some worker has committed
  received,   \* rows that receive() has written
  faults      \* how many faults have happened

netVars == <<answer, late, notice>>
vars == <<stateVars, age, drain, netVars, recent, committed, received, faults>>

NoStamp == 0
\* Pickup times: enough to tell the server's session, the sessions of the
\* drains and the sessions in the answers apart.
Stamps == 1 .. 2 * Cardinality(Workers) + 2
MaxAge == Max({Period, Timeout + 1})

NoAnswer == [kind |-> "none"]
Failed   == [kind |-> "error"]
Done     == [kind |-> "ok"]

NoRows == [r \in Rows |-> "absent"]
NoCounts == [r \in Rows |-> 0]

IdleDrain ==
  [pc |-> "idle", known |-> FALSE, session |-> NoStamp, page |-> NoRows, cursor |-> 0,
   attempt |-> 0, blocked |-> FALSE, progress |-> FALSE, done |-> NoCounts]

Init ==
  /\ StateInit
  /\ age = 0
  /\ drain = [w \in Workers |-> IdleDrain]
  /\ answer = [w \in Workers |-> NoAnswer]
  /\ late = {}
  /\ notice = [w \in Workers |-> FALSE]
  /\ recent = [w \in Workers |-> {}]
  /\ committed = {} /\ received = {} /\ faults = 0

-----------------------------------------------------------------------------
(* The server.                                                             *)

Current == IF Picked(Shard) THEN shards[Shard] ELSE [worker |-> Nobody, when |-> NoStamp]

StampsInUse ==
  {Current.when} \union {drain[w].session : w \in Workers}
    \union {answer[w].when : w \in {v \in Workers : answer[v].kind \in {"picked", "held"}}}

\* Two pickups of the shard have different times.
Now == Min(Stamps \ StampsInUse)

\* Every release is published, and may reach a worker late.
Notify == notice' = [w \in Workers |-> TRUE]

PickAnswer(w) ==
  IF PickOutcome(Shard, w, age, FALSE, FALSE) = "picked"
  THEN [kind |-> "picked", worker |-> w, when |-> Now]
  ELSE [kind |-> "held", worker |-> Current.worker, when |-> Current.when]

ExecutePick(w) ==
  IF PickOutcome(Shard, w, age, FALSE, FALSE) = "picked"
  THEN SetSession(Shard, w, Now) /\ age' = 0 /\ UNCHANGED notice
  ELSE UNCHANGED <<stateVars, age, notice>>

ExecuteRelease(w) ==
  IF Releasable(Shard, w)
  THEN ReleaseAll({Shard}) /\ age' = 0 /\ Notify
  ELSE UNCHANGED <<stateVars, age, notice>>

ExecuteWrite(r) == Write([q \in {r} |-> "DELIVERED"]) /\ UNCHANGED <<age, notice>>

ExecuteRemove(r) == Remove({r}) /\ UNCHANGED <<age, notice>>

\* What the server does for the call that a drain waits for at pc ...
Picks    == {"picking", "checking", "fencing", "guarding"}
Removes  == {"removing", "expunging"}
Releases == {"returning", "releasing"}
Calls    == Picks \union Removes \union Releases \union {"reading", "finding", "writing"}

Perform(op, w, r) ==
  CASE op \in Picks    -> ExecutePick(w)
    [] op \in Releases -> ExecuteRelease(w)
    [] op \in Removes  -> ExecuteRemove(r)
    [] op = "writing"  -> ExecuteWrite(r)
    [] OTHER           -> UNCHANGED <<stateVars, age, notice>>

\* ... and what it answers.
AnswerTo(op, w, r) ==
  CASE op \in Picks    -> PickAnswer(w)
    [] op = "reading"  -> [kind |-> "page", rows |-> messages]
    [] op = "finding"  -> [kind |-> "row", status |-> messages[r]]
    [] OTHER           -> Done

-----------------------------------------------------------------------------
(* The drain d of a worker: what it does next.                             *)

\* #release(): a known session is forgotten as its release is sent
Finish(d) ==
  IF d.known THEN [d EXCEPT !.pc = "releasing", !.known = FALSE] ELSE IdleDrain

\* #validate(): a session that is not known is lost without a call
Validate(d, pc) == IF d.known THEN [d EXCEPT !.pc = pc] ELSE IdleDrain

\* #cleanupPage(): from the row at the cursor on; it validates once in any case
ExpiredRows(d) ==
  {r \in Rows : r > d.cursor /\ d.page[r] = "DELIVERED" /\ r \notin Kept}

\* A scan that delivered is followed by another one; a page is never full.
EndPage(d) ==
  IF d.progress
  THEN [d EXCEPT !.pc = "reading", !.progress = FALSE, !.page = NoRows, !.cursor = 0]
  ELSE Finish(d)

CleanupPage(d) ==
  LET start == [d EXCEPT !.cursor = 0] IN
  Validate([start EXCEPT !.cursor = Min(ExpiredRows(start) \union {Cardinality(Rows) + 1})], "guarding")

\* Mutant: the row after the cursor is passed over.
ToProcessAfterNext(d) ==
  {r \in Rows : r > d.cursor + 1 /\ d.page[r] = "TO_DELIVER" /\ ~ d.blocked}

\* The next row to process, unless its target is blocked.
ToProcess(d) ==
  {r \in Rows : r > d.cursor /\ d.page[r] = "TO_DELIVER" /\ ~ d.blocked}

NextRow(d) ==
  IF ToProcess(d) = {} THEN CleanupPage(d)
  ELSE Validate([d EXCEPT !.cursor = Min(ToProcess(d))], "checking")

\* Mutant: a row whose acknowledgement failed counts as delivered.
AcknowledgeNoMore(d) == NextRow([d EXCEPT !.attempt = 0, !.progress = TRUE])

\* acknowledgeWithRetry(): another attempt, or the target is blocked.
AcknowledgeAgain(d) ==
  IF d.attempt + 1 < MaxAttempts
  THEN Validate([d EXCEPT !.attempt = @ + 1], "fencing")
  ELSE NextRow([d EXCEPT !.attempt = 0, !.blocked = TRUE])

Acknowledged(d) == NextRow([d EXCEPT !.attempt = 0, !.progress = TRUE])

\* Mutant: any other row of the page makes the row a duplicate.
DuplicateOfAny(w, d) ==
  SignalOf[d.cursor] \in recent[w] \union
    {SignalOf[r] : r \in {q \in Rows \ {d.cursor} : d.page[q] # "absent"}}

\* isDuplicate(): delivered lately by this process, retained in the page, or
\* already met in the page
Duplicate(w, d) ==
  SignalOf[d.cursor] \in recent[w] \union
    {SignalOf[r] : r \in {q \in Rows : \/ d.page[q] = "DELIVERED" /\ q \in Kept
                                       \/ d.page[q] = "TO_DELIVER" /\ q < d.cursor}}

\* Mutant: the pickup time is not compared.
OwnsByWorker(w, d, a) == a.kind \in {"held", "picked"} /\ a.worker = w

\* validateOwnership(): what the answer a says of the session of d
Owns(w, d, a) == a.kind = "held" /\ a.worker = w /\ a.when = d.session

\* A free shard was picked by accident: it is released before the session is
\* invalidated.  Another holder invalidates it at once; without an answer the
\* drain stops as well, with its session still known.
Lost(a, d) ==
  CASE a.kind = "picked" -> [d EXCEPT !.pc = "returning"]
    [] a.kind = "held"   -> IdleDrain
    [] a.kind = "error"  -> Finish(d)

-----------------------------------------------------------------------------
(* Steps of a worker: it starts a drain, or takes the answer to its call.  *)

Continue(w, d) ==
  /\ drain' = [drain EXCEPT ![w] = d]
  /\ answer' = [answer EXCEPT ![w] = NoAnswer]
  /\ UNCHANGED <<stateVars, age, late, notice, received, faults>>

Answered(w, pc) == drain[w].pc = pc /\ answer[w] # NoAnswer

Begin(w) ==
  /\ drain[w].pc = "idle"
  /\ Continue(w, [IdleDrain EXCEPT !.pc = "picking"])
  /\ UNCHANGED <<recent, committed>>

PickedUp(w) ==
  /\ Answered(w, "picking")
  /\ Continue(w, IF answer[w].kind = "picked"
                 THEN [IdleDrain EXCEPT !.pc = "reading", !.known = TRUE,
                                        !.session = answer[w].when]
                 ELSE IdleDrain)
  /\ UNCHANGED <<recent, committed>>

PageRead(w) ==
  LET d == drain[w] IN
  /\ Answered(w, "reading")
  /\ Continue(w, IF answer[w] = Failed THEN Finish(d)
                 ELSE IF answer[w].rows = NoRows THEN Finish(d)
                 ELSE NextRow([d EXCEPT !.page = answer[w].rows]))
  /\ UNCHANGED <<recent, committed>>

\* The drain removes a duplicate, or dispatches the row to its endpoint, which
\* validates before it commits.
Checked(w) ==
  LET d == drain[w] IN
  /\ Answered(w, "checking")
  /\ Continue(w, IF ~ Owns(w, d, answer[w]) THEN Lost(answer[w], d)
                 ELSE IF Duplicate(w, d) THEN [d EXCEPT !.pc = "removing"]
                 ELSE Validate([d EXCEPT !.done[d.cursor] = @ + 1], "fencing"))
  /\ UNCHANGED <<recent, committed>>

DuplicateRemoved(w) ==
  /\ Answered(w, "removing")
  /\ Continue(w, NextRow([drain[w] EXCEPT !.blocked = @ \/ answer[w] = Failed]))
  /\ UNCHANGED <<recent, committed>>

\* The commit fence; the validations between the commit and its
\* acknowledgement, which nothing separates from it, are the same step.
Fenced(w) ==
  LET d == drain[w] IN
  /\ Answered(w, "fencing")
  /\ IF Owns(w, d, answer[w])
     THEN /\ Continue(w, [d EXCEPT !.pc = "finding"])
          /\ committed' = committed \union {SignalOf[d.cursor]}
     ELSE Continue(w, Lost(answer[w], d)) /\ UNCHANGED committed
  /\ UNCHANGED recent

\* recordDelivered()
Remember(w) ==
  recent' = [recent EXCEPT ![w] = @ \union {SignalOf[drain[w].cursor]}]

\* markDelivered(): the row is pending, delivered already, or gone
Found(w) ==
  LET d == drain[w]
      status == IF answer[w] = Failed THEN "absent" ELSE answer[w].status IN
  /\ Answered(w, "finding")
  /\ \/ /\ status = "TO_DELIVER"
        /\ Continue(w, [d EXCEPT !.pc = "writing"]) /\ UNCHANGED recent
     \/ /\ status = "DELIVERED"
        /\ Continue(w, Acknowledged(d)) /\ Remember(w)
     \/ /\ status = "absent"
        /\ Continue(w, AcknowledgeAgain(d)) /\ UNCHANGED recent
  /\ UNCHANGED committed

Written(w) ==
  LET d == drain[w] IN
  /\ Answered(w, "writing")
  /\ IF answer[w] = Failed
     THEN Continue(w, AcknowledgeAgain(d)) /\ UNCHANGED recent
     ELSE Continue(w, Acknowledged(d)) /\ Remember(w)
  /\ UNCHANGED committed

\* The page is validated before its expired rows are removed.
Guarded(w) ==
  LET d == drain[w] IN
  /\ Answered(w, "guarding")
  /\ Continue(w, IF ~ Owns(w, d, answer[w]) THEN Lost(answer[w], d)
                 ELSE IF d.cursor \in Rows THEN [d EXCEPT !.pc = "expunging"]
                 ELSE EndPage(d))
  /\ UNCHANGED <<recent, committed>>

\* A removal that fails ends the drain.
Expunged(w) ==
  LET d == drain[w] IN
  /\ Answered(w, "expunging")
  /\ Continue(w, IF answer[w] = Failed THEN Finish(d)
                 ELSE IF ExpiredRows(d) = {} THEN EndPage(d)
                 ELSE Validate([d EXCEPT !.cursor = Min(ExpiredRows(d))], "guarding"))
  /\ UNCHANGED <<recent, committed>>

\* The release of an accidental pickup, or of the session: the drain is over.
Released(w) ==
  /\ Answered(w, "returning") \/ Answered(w, "releasing")
  /\ Continue(w, IdleDrain)
  /\ UNCHANGED <<recent, committed>>

Step(w) ==
  \/ PickedUp(w) \/ PageRead(w) \/ Checked(w) \/ DuplicateRemoved(w) \/ Fenced(w)
  \/ Found(w) \/ Written(w) \/ Guarded(w) \/ Expunged(w) \/ Released(w)

\* reconcile() with a NOT_PICKED observation: the session of the drain is
\* dropped, even when it was picked up after the release that was observed.
Reconcile(w) ==
  LET d == drain[w]
      live == d.session = Current.when IN
  /\ notice[w] /\ d.known /\ (live => faults < MaxFaults)
  /\ faults' = IF live THEN faults + 1 ELSE faults
  /\ drain' = [drain EXCEPT ![w].known = FALSE]
  /\ notice' = [notice EXCEPT ![w] = FALSE]
  /\ UNCHANGED <<stateVars, age, answer, late, recent, committed, received>>

-----------------------------------------------------------------------------
(* The server executes calls; calls fail; time passes.                     *)

Execute(w) ==
  LET d == drain[w] IN
  /\ d.pc \in Calls /\ answer[w] = NoAnswer
  /\ Perform(d.pc, w, d.cursor)
  /\ answer' = [answer EXCEPT ![w] = AnswerTo(d.pc, w, d.cursor)]
  /\ UNCHANGED <<drain, late, recent, committed, received, faults>>

\* What becomes of the call of w when nobody waits for it any longer: the
\* server never executes it, or has done so, or will.
Abandon(w) ==
  LET d == drain[w] IN
  \/ UNCHANGED late
  \/ /\ d.pc \in Calls \ {"reading", "finding"} /\ answer[w] = NoAnswer
     /\ late' = late \union {[op |-> d.pc, worker |-> w, row |-> d.cursor]}

TimeOut(w) ==
  /\ faults < MaxFaults
  /\ drain[w].pc \in Calls /\ answer[w] # Failed
  /\ faults' = faults + 1
  /\ answer' = [answer EXCEPT ![w] = Failed]
  /\ Abandon(w)
  /\ UNCHANGED <<stateVars, age, drain, notice, recent, committed, received>>

\* The process of w ends for good; another one goes on.
Crash(w) ==
  /\ faults < MaxFaults
  /\ \A v \in Workers : drain[v].pc # "dead"
  /\ faults' = faults + 1
  /\ drain' = [drain EXCEPT ![w] = [IdleDrain EXCEPT !.pc = "dead"]]
  /\ answer' = [answer EXCEPT ![w] = NoAnswer]
  /\ recent' = [recent EXCEPT ![w] = {}]
  /\ Abandon(w)
  /\ UNCHANGED <<stateVars, age, notice, committed, received>>

ExecuteLate ==
  /\ \E c \in late :
       Perform(c.op, c.worker, c.row) /\ late' = late \ {c}
  /\ UNCHANGED <<drain, answer, recent, committed, received, faults>>

\* receive(): a row of its own for each message
Receive(r) ==
  /\ r \notin received
  /\ Write([q \in {r} |-> "TO_DELIVER"])
  /\ received' = received \union {r}
  /\ UNCHANGED <<age, drain, netVars, recent, committed, faults>>

\* The server's session is that of a drain, or of a pickup about to be answered.
Attended ==
  \E w \in Workers :
    \/ drain[w].session = Current.when
    \/ drain[w].pc = "picking" /\ answer[w].kind = "picked" /\ answer[w].when = Current.when

\* Only a slow drain sees its session age, which counts as a fault.
Tick ==
  /\ Picked(Shard) /\ age < MaxAge
  /\ Attended => faults < MaxFaults
  /\ faults' = IF Attended THEN faults + 1 ELSE faults
  /\ age' = age + 1
  /\ UNCHANGED <<stateVars, drain, netVars, recent, committed, received>>

\* releaseExpired() of a supervisor's recovery
ReleaseExpired ==
  /\ Expired([s \in Shards |-> age], Period) # {}
  /\ ReleaseAll({Shard}) /\ age' = 0 /\ Notify
  /\ UNCHANGED <<drain, answer, late, recent, committed, received, faults>>

Next ==
  \/ \E w \in Workers : Begin(w) \/ Step(w) \/ Execute(w) \/ Reconcile(w) \/ TimeOut(w) \/ Crash(w)
  \/ \E r \in Rows : Receive(r)
  \/ ExecuteLate \/ Tick \/ ReleaseExpired

Spec == Init /\ [][Next]_vars

\* Workers start drains and go on with them and the server answers (one of the
\* three is enabled at a time); recovery timers release sessions that stay.
FairSpec ==
  /\ Spec /\ WF_vars(Tick) /\ WF_vars(ReleaseExpired)
  /\ \A w \in Workers : WF_vars(Begin(w) \/ Step(w) \/ Execute(w))

-----------------------------------------------------------------------------
(* Properties.                                                             *)

\* No accepted signal vanishes: its effects were committed, or one of the rows
\* that carry it is still to be delivered, through duplicate removal, clean-up,
\* late calls, crashes and overtaken drains.
NothingLost ==
  \A r \in received :
    \/ SignalOf[r] \in committed
    \/ \E q \in Rows : SignalOf[q] = SignalOf[r] /\ messages[q] = "TO_DELIVER"

\* One session dispatches a row once, whatever becomes of the acknowledgement:
\* a row whose acknowledgement failed is left for a later session.
OncePerSession == \A w \in Workers, r \in Rows : drain[w].done[r] <= 1

\* A pending row does not stay pending, though sessions are left behind by lost
\* answers, crashes and dropped ownership.
PendingIsDelivered ==
  \A r \in Rows : messages[r] = "TO_DELIVER" ~> messages[r] # "TO_DELIVER"

\* A worker's answer, not taken yet, confirms its session.
Confirming(w) ==
  drain[w].pc \in Picks \ {"picking"} /\ Owns(w, drain[w], answer[w])

Ownership == INSTANCE ShardOwnership WITH
  None <- NoStamp,
  owner <- <<Current.worker, Current.when>>,
  session <- [w \in Workers |-> drain[w].session],
  confirmed <- [w \in Workers |-> Confirming(w)],
  done <- [w \in Workers |-> drain[w].done]

\* Remote sessions keep what ShardOwnership promises.
ImplementsOwnership == Ownership!OwnershipSpec
=============================================================================
