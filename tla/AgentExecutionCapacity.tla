----------------------- MODULE AgentExecutionCapacity -----------------------
(***************************************************************************)
(* AgentExecutionCapacity: the gate one AI registry puts before the turns  *)
(* of its agents.  A delivery reserves a slot before it accepts a receipt, *)
(* and later runs the turn or gives the slot back.  At most Concurrent     *)
(* reservations are active, at most Queued wait behind them, and one agent *)
(* (its key) has at most one.  An unset limit is a value no smaller than   *)
(* the number of requests.                                                 *)
(***************************************************************************)
EXTENDS Naturals, Sequences, FiniteSets, SequencesExt

CONSTANTS
  Requests,    \* calls of reserve()
  Keys,        \* agent identities
  KeyOf,       \* the agent a request is for
  Concurrent,  \* concurrentOperations
  Queued       \* queuedOperations

ASSUME CapacityAssumption ==
  /\ IsFiniteSet(Requests) /\ KeyOf \in [Requests -> Keys]
  /\ Concurrent \in Nat \ {0} /\ Queued \in Nat

VARIABLES
  entry,    \* each request: new, refused, active, waiting, settled
  queue,    \* #waiting
  hasRun,   \* requests whose reservation was given its callback
  started,  \* requests whose start was scheduled
  running,  \* requests whose callback runs
  aborted,  \* requests whose signal is aborted
  unheard   \* history: refused requests that no release has notified since

vars == <<entry, queue, hasRun, started, running, aborted, unheard>>

TypeOK ==
  /\ entry \in [Requests -> {"new", "refused", "active", "waiting", "settled"}]
  /\ queue \in Seq(Requests)
  /\ hasRun \subseteq Requests /\ started \subseteq hasRun /\ running \subseteq started
  /\ aborted \subseteq Requests /\ unheard \subseteq Requests

Init ==
  /\ entry = [r \in Requests |-> "new"] /\ queue = <<>>
  /\ hasRun = {} /\ started = {} /\ running = {} /\ aborted = {} /\ unheard = {}

Active == {r \in Requests : entry[r] = "active"}
Waiting == {r \in Requests : entry[r] = "waiting"}
Retained == Active \union Waiting

Full == Cardinality(Active) >= Concurrent /\ Len(queue) >= Queued

\* reserve() takes an active slot, or a place in the queue, or is refused.
Reserve(r) ==
  /\ entry[r] = "new"
  /\ \/ /\ r \in aborted \/ Full \/ \E q \in Retained : KeyOf[q] = KeyOf[r]
        /\ entry' = [entry EXCEPT ![r] = "refused"]
        /\ unheard' = unheard \union ({r} \ aborted)
        /\ UNCHANGED queue
     \/ /\ r \notin aborted /\ ~ Full /\ \A q \in Retained : KeyOf[q] # KeyOf[r]
        /\ IF Cardinality(Active) < Concurrent
           THEN entry' = [entry EXCEPT ![r] = "active"] /\ UNCHANGED queue
           ELSE entry' = [entry EXCEPT ![r] = "waiting"] /\ queue' = Append(queue, r)
        /\ UNCHANGED unheard
  /\ UNCHANGED <<hasRun, started, running, aborted>>

\* Mutant: the observers are not notified.
FinishSilent(r) ==
  LET free == Concurrent - Cardinality(Active \ {r})
      n == IF free < Len(queue) THEN free ELSE Len(queue)
      next == {queue[i] : i \in 1 .. n}
  IN /\ entry' = [q \in Requests |-> IF q = r THEN "settled"
                                     ELSE IF q \in next THEN "active" ELSE entry[q]]
     /\ queue' = SubSeq(queue, n + 1, Len(queue))
     /\ started' = started \union (next \intersect hasRun)
     /\ unheard' = unheard

\* #finish(): the slot is free, the oldest requests that wait move up and
\* those with a callback start; then the observers are notified.
Finish(r) ==
  LET free == Concurrent - Cardinality(Active \ {r})
      n == IF free < Len(queue) THEN free ELSE Len(queue)
      next == {queue[i] : i \in 1 .. n}
  IN /\ entry' = [q \in Requests |-> IF q = r THEN "settled"
                                     ELSE IF q \in next THEN "active" ELSE entry[q]]
     /\ queue' = SubSeq(queue, n + 1, Len(queue))
     /\ started' = started \union (next \intersect hasRun)
     /\ unheard' = {}

\* Mutant: a cancelled active reservation frees its slot for nobody.
CancelUnfinished(r) ==
  /\ entry' = IF r \in Retained \ started THEN [entry EXCEPT ![r] = "settled"] ELSE entry
  /\ queue' = SelectSeq(queue, LAMBDA q : q # r)
  /\ unheard' = {}
  /\ UNCHANGED started

\* #cancelWaiting(): only a reservation that has not started is cancelled.
Cancel(r) ==
  \/ r \in Active \ started /\ Finish(r)
  \/ /\ r \in Waiting
     /\ entry' = [entry EXCEPT ![r] = "settled"]
     /\ \E i \in DOMAIN queue : queue[i] = r /\ queue' = RemoveAt(queue, i)
     /\ unheard' = {}
     /\ UNCHANGED started
  \/ /\ r \notin Waiting \union (Active \ started)
     /\ UNCHANGED <<entry, queue, started, unheard>>

\* run() hands the callback over; with an active slot it starts.
Run(r) ==
  /\ r \in Retained \ hasRun
  /\ hasRun' = hasRun \union {r}
  /\ started' = started \union ({r} \intersect Active)
  /\ UNCHANGED <<entry, queue, running, aborted, unheard>>

\* release() of the reservation: without effect once the turn has started.
Release(r) ==
  /\ r \in Retained \ started
  /\ Cancel(r)
  /\ UNCHANGED <<hasRun, running, aborted>>

Abort(r) ==
  /\ r \notin aborted
  /\ aborted' = aborted \union {r}
  /\ Cancel(r)
  /\ UNCHANGED <<hasRun, running>>

\* Mutant: a start that finds its signal aborted returns without finishing.
BeginAbandons(r) ==
  /\ r \in (started \intersect Active) \ running /\ r \notin aborted
  /\ running' = running \union {r}
  /\ UNCHANGED <<entry, queue, started, unheard, hasRun, aborted>>

\* A scheduled start looks at the signal once more, then runs the callback.
Begin(r) ==
  /\ r \in (started \intersect Active) \ running
  /\ IF r \in aborted
     THEN Finish(r) /\ UNCHANGED running
     ELSE running' = running \union {r} /\ UNCHANGED <<entry, queue, started, unheard>>
  /\ UNCHANGED <<hasRun, aborted>>

\* The callback ends, well or with an error.
CallbackEnds(r) ==
  /\ r \in running /\ r \in Active
  /\ Finish(r)
  /\ running' = running \ {r}
  /\ UNCHANGED <<hasRun, aborted>>

Next ==
  \E r \in Requests :
    Reserve(r) \/ Run(r) \/ Release(r) \/ Abort(r) \/ Begin(r) \/ CallbackEnds(r)

Spec == Init /\ [][Next]_vars

\* Deliveries run or release what they reserved, and turns end.
FairSpec ==
  Spec /\ \A r \in Requests :
            WF_vars(r \notin hasRun /\ (Run(r) \/ Release(r))) /\ WF_vars(Begin(r)) /\ WF_vars(CallbackEnds(r))

-----------------------------------------------------------------------------
(* Properties.                                                             *)

\* The configured limits hold through every cancellation and promotion, and
\* one agent never has two turns (reserve, #finish).
LimitsHold ==
  /\ Cardinality(Active) <= Concurrent
  /\ Len(queue) <= Queued
  /\ running \subseteq Active
  /\ \A q, r \in Retained : q # r => KeyOf[q] # KeyOf[r]

\* No slot stays free while somebody waits for one: neither an active
\* reservation that is cancelled before it starts, nor one that ends, nor a
\* waiting one that is cancelled leaves the queue stuck (#finish).
WorkConserving == Waiting # {} => Cardinality(Active) = Concurrent

\* An active reservation that was given its callback has been started: the
\* promotion of a request whose turn was handed over while it waited must
\* start it, since nobody will call run() again (#finish, #start).
PromotedIsStarted == hasRun \intersect Active \subseteq started

\* An aborted request keeps neither a slot nor a place in the queue, unless
\* its turn had started (onAbort, #cancelWaiting).
AbortedLeaves == aborted \intersect Retained \subseteq started

\* Who was refused, and has not been notified since, can rely on somebody who
\* will notify it: capacity never becomes free silently (#notifyAvailable).
RefusalIsHeard == unheard # {} => Retained # {}

\* Every reservation that waits gets its slot or is cancelled.
WaitingEnds == \A r \in Requests : entry[r] = "waiting" ~> entry[r] # "waiting"
=============================================================================
