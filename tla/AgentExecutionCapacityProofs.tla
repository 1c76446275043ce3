-------------------- MODULE AgentExecutionCapacityProofs --------------------
(***************************************************************************)
(* Proofs about AgentExecutionCapacity for any number of requests, any     *)
(* assignment of requests to agents and any limits.                        *)
(***************************************************************************)
EXTENDS AgentExecutionCapacity, FiniteSetTheorems, SequenceTheorems, TLAPS

USE CapacityAssumption

\* The queue holds exactly the requests that wait, each once.
QueueInv ==
  /\ \A i \in DOMAIN queue : queue[i] \in Waiting
  /\ \A r \in Waiting : \E i \in DOMAIN queue : queue[i] = r
  /\ \A i, j \in DOMAIN queue : queue[i] = queue[j] => i = j

\* What a request has behind it, given where it is.
HistoryInv ==
  /\ started \subseteq Active \union {r \in Requests : entry[r] = "settled"}
  /\ hasRun \subseteq Retained \union {r \in Requests : entry[r] = "settled"}

CapacityInv ==
  /\ TypeOK /\ QueueInv /\ HistoryInv
  /\ LimitsHold /\ WorkConserving /\ PromotedIsStarted /\ AbortedLeaves /\ RefusalIsHeard

LEMMA ActiveFinite ==
  /\ IsFiniteSet(Active) /\ Cardinality(Active) \in Nat
  /\ \A r \in Active : Cardinality(Active \ {r}) = Cardinality(Active) - 1
<1>1. IsFiniteSet(Active)
  BY FS_Subset DEF Active
<1> QED
  BY <1>1, FS_CardinalityType, FS_RemoveElement

LEMMA QueueType == TypeOK => queue \in Seq(Requests) /\ Len(queue) \in Nat /\ DOMAIN queue = 1 .. Len(queue)
  BY DEF TypeOK

-----------------------------------------------------------------------------
(* Taking a request out of the queue.                                      *)

\* The queue without its i-th request.
QueueWithout(i) ==
  /\ queue' \in Seq(Requests) /\ Len(queue') = Len(queue) - 1
  /\ \A j \in 1 .. Len(queue) - 1 : queue'[j] = IF j < i THEN queue[j] ELSE queue[j + 1]

LEMMA PopWithout ==
  ASSUME TypeOK, queue # <<>>, queue' = SubSeq(queue, 2, Len(queue))
  PROVE  QueueWithout(1)
<1>1. Len(queue) >= 1
  BY QueueType, EmptySeq
<1>2. \A i \in 2 .. Len(queue) : queue[i] \in Requests
  BY QueueType, ElementOfSeq
<1>3. /\ queue' \in Seq(Requests)
      /\ Len(queue') = IF 2 <= Len(queue) THEN Len(queue) - 2 + 1 ELSE 0
      /\ \A i \in 1 .. Len(queue) - 2 + 1 : queue'[i] = queue[2 + i - 1]
  BY <1>2, QueueType, SubSeqProperties DEF QueueWithout
<1> QED
  BY <1>1, <1>3, QueueType DEF QueueWithout

LEMMA RemoveWithout ==
  ASSUME TypeOK, NEW i \in DOMAIN queue, queue' = RemoveAt(queue, i)
  PROVE  QueueWithout(i)
<1> DEFINE front == SubSeq(queue, 1, i - 1)
           rear == SubSeq(queue, i + 1, Len(queue))
<1>1. \A k \in 1 .. Len(queue) : queue[k] \in Requests
  BY QueueType, ElementOfSeq
<1>2. i \in 1 .. Len(queue)
  BY QueueType
<1>3. /\ front \in Seq(Requests) /\ Len(front) = i - 1
      /\ \A k \in 1 .. i - 1 : front[k] = queue[k]
  BY <1>1, <1>2, QueueType, SubSeqProperties
<1>4. /\ rear \in Seq(Requests) /\ Len(rear) = Len(queue) - i
      /\ \A k \in 1 .. Len(queue) - i : rear[k] = queue[i + k]
  BY <1>1, <1>2, QueueType, SubSeqProperties
<1>5. queue' = front \o rear
  BY DEF RemoveAt
<1> HIDE DEF front, rear
<1>6. /\ queue' \in Seq(Requests) /\ Len(queue') = Len(front) + Len(rear)
      /\ \A k \in 1 .. Len(front) + Len(rear) :
           queue'[k] = IF k <= Len(front) THEN front[k] ELSE rear[k - Len(front)]
  <2>1. front \in Seq(Requests) /\ rear \in Seq(Requests)
    BY <1>3, <1>4
  <2>2. /\ front \o rear \in Seq(Requests) /\ Len(front \o rear) = Len(front) + Len(rear)
        /\ \A k \in 1 .. Len(front) + Len(rear) :
             (front \o rear)[k] = IF k <= Len(front) THEN front[k] ELSE rear[k - Len(front)]
    BY <2>1, ConcatProperties
  <2> QED
    BY <1>5, <2>2
<1>7. Len(queue) \in Nat /\ Len(queue') = Len(queue) - 1
  BY <1>2, <1>3, <1>4, <1>6, QueueType
<1>8. ASSUME NEW k \in 1 .. Len(queue) - 1
      PROVE  queue'[k] = IF k < i THEN queue[k] ELSE queue[k + 1]
  <2>1. k \in 1 .. Len(front) + Len(rear)
    BY <1>2, <1>3, <1>4, <1>7
  <2>2. CASE k < i
    <3>1. k \in 1 .. i - 1 /\ k <= Len(front)
      BY <1>2, <1>3, <1>7, <2>2
    <3> QED
      BY <1>3, <1>6, <2>1, <2>2, <3>1
  <2>3. CASE ~ (k < i)
    <3>1. /\ ~ (k <= Len(front)) /\ k - Len(front) = k - i + 1
          /\ k - i + 1 \in 1 .. Len(queue) - i /\ i + (k - i + 1) = k + 1
      BY <1>2, <1>3, <1>7, <2>3
    <3>2. queue'[k] = rear[k - i + 1]
      BY <1>6, <2>1, <3>1
    <3>3. rear[k - i + 1] = queue[i + (k - i + 1)]
      BY <1>4, <3>1
    <3> QED
      BY <2>3, <3>1, <3>2, <3>3
  <2> QED
    BY <2>2, <2>3
<1> QED
  BY <1>6, <1>7, <1>8 DEF QueueWithout

LEMMA QueueKept ==
  ASSUME TypeOK, QueueInv, NEW i \in DOMAIN queue, QueueWithout(i), Waiting' = Waiting \ {queue[i]}
  PROVE  QueueInv'
<1>1. DOMAIN queue' = 1 .. Len(queue) - 1 /\ i \in 1 .. Len(queue) /\ Len(queue) \in Nat
  BY QueueType DEF QueueWithout
<1>2. ASSUME NEW j \in DOMAIN queue'
      PROVE  \E k \in DOMAIN queue : k # i /\ queue'[j] = queue[k]
  BY <1>1, QueueType DEF QueueWithout
<1>3. ASSUME NEW k \in DOMAIN queue, k # i
      PROVE  \E j \in DOMAIN queue' : queue'[j] = queue[k]
  <2>1. CASE k < i
    BY <1>1, <2>1, QueueType DEF QueueWithout
  <2>2. CASE k > i
    <3>1. k - 1 \in DOMAIN queue' /\ queue'[k - 1] = queue[k]
      BY <1>1, <2>2, QueueType DEF QueueWithout
    <3> QED
      BY <3>1
  <2> QED
    BY <1>1, <1>3, <2>1, <2>2, QueueType
<1>4. \A j \in DOMAIN queue' : queue'[j] \in Waiting'
  BY <1>2 DEF QueueInv
<1>5. \A r \in Waiting' : \E j \in DOMAIN queue' : queue'[j] = r
  BY <1>3 DEF QueueInv
<1>6. \A j, k \in DOMAIN queue' : queue'[j] = queue'[k] => j = k
  <2> SUFFICES ASSUME NEW j \in DOMAIN queue', NEW k \in DOMAIN queue', queue'[j] = queue'[k]
               PROVE  j = k
    OBVIOUS
  <2>1. /\ queue'[j] = queue[IF j < i THEN j ELSE j + 1]
        /\ queue'[k] = queue[IF k < i THEN k ELSE k + 1]
    BY <1>1 DEF QueueWithout
  <2> DEFINE old(m) == IF m < i THEN m ELSE m + 1
  <2>2. old(j) \in DOMAIN queue /\ old(k) \in DOMAIN queue
    BY <1>1, QueueType
  <2>3. old(j) = old(k)
    <3> HIDE DEF old
    <3>1. queue[old(j)] = queue[old(k)]
      <4> USE DEF old
      <4> QED
        BY <2>1
    <3> QED
      BY <2>2, <3>1 DEF QueueInv
  <2> QED
    BY <1>1, <2>3
<1> QED
  BY <1>4, <1>5, <1>6 DEF QueueInv

-----------------------------------------------------------------------------
(* Finishing.                                                              *)

\* When an active request finishes, the first request of the queue takes its
\* slot; nobody else moves.
LEMMA FinishShape ==
  ASSUME CapacityInv, NEW r \in Active, Finish(r)
  PROVE  /\ unheard' = {}
         /\ entry'[r] = "settled"
         /\ \/ /\ queue = <<>> /\ queue' = <<>> /\ started' = started
               /\ \A q \in Requests \ {r} : entry'[q] = entry[q]
            \/ /\ queue # <<>> /\ queue[1] \in Waiting /\ QueueWithout(1)
               /\ started' = started \union ({queue[1]} \intersect hasRun)
               /\ entry'[queue[1]] = "active"
               /\ \A q \in Requests \ {r, queue[1]} : entry'[q] = entry[q]
<1> DEFINE free == Concurrent - Cardinality(Active \ {r})
           n == IF free < Len(queue) THEN free ELSE Len(queue)
           next == {queue[i] : i \in 1 .. n}
<1>1. free = Concurrent - Cardinality(Active) + 1 /\ free \in Nat /\ free >= 1
  BY ActiveFinite DEF CapacityInv, LimitsHold
<1>2. /\ queue' = SubSeq(queue, n + 1, Len(queue)) /\ started' = started \union (next \intersect hasRun)
      /\ entry' = [q \in Requests |-> IF q = r THEN "settled" ELSE IF q \in next THEN "active" ELSE entry[q]]
      /\ unheard' = {}
  BY DEF Finish
<1>3. queue \in Seq(Requests) /\ Len(queue) \in Nat /\ DOMAIN queue = 1 .. Len(queue)
  BY DEF CapacityInv, TypeOK
<1>4. CASE queue = <<>>
  <2>1. n = 0
    BY <1>1, <1>3, <1>4
  <2>2. next = {}
    BY <2>1
  <2>3. queue' = <<>>
    BY <1>2, <1>4, <2>1, SubSeqEmpty
  <2> HIDE DEF n, next
  <2> QED
    BY <1>2, <1>4, <2>2, <2>3 DEF Active
<1>5. CASE queue # <<>>
  <2>1. Len(queue) >= 1 /\ queue[1] \in Waiting
    BY <1>3, <1>5, EmptySeq DEF CapacityInv, QueueInv
  <2>2. free = 1
    BY <1>1, <2>1 DEF CapacityInv, WorkConserving
  <2>3. n = 1
    BY <1>3, <2>1, <2>2
  <2>4. next = {queue[1]}
    BY <2>1, <2>3
  <2>5. queue' = SubSeq(queue, 2, Len(queue))
    <3> HIDE DEF n, next
    <3>1. n + 1 = 2
      BY <2>3
    <3> QED
      BY <1>2, <3>1
  <2>6. QueueWithout(1)
    <3> HIDE DEF n, next
    <3> QED
      BY <1>5, <2>5, PopWithout DEF CapacityInv
  <2> HIDE DEF n, next
  <2> QED
    BY <1>2, <1>5, <2>1, <2>4, <2>6 DEF Active, Waiting
<1> QED
  BY <1>4, <1>5
LEMMA StateType ==
  ASSUME CapacityInv
  PROVE  /\ entry \in [Requests -> {"new", "refused", "active", "waiting", "settled"}]
         /\ queue \in Seq(Requests) /\ Len(queue) \in Nat /\ DOMAIN queue = 1 .. Len(queue)
         /\ Active \subseteq Requests /\ Waiting \subseteq Requests
         /\ hasRun \subseteq Requests /\ started \subseteq hasRun /\ running \subseteq started
         /\ aborted \subseteq Requests /\ unheard \subseteq Requests
  BY DEF CapacityInv, TypeOK, Active, Waiting

\* A finished request leaves; whatever else the step does to the request's own
\* signal and callback, everything the invariant says stays true.
LEMMA FinishKeeps ==
  ASSUME CapacityInv, NEW r \in Active, Finish(r), hasRun' = hasRun, running' = running \ {r},
         aborted \subseteq aborted', aborted' \subseteq aborted \union {r}
  PROVE  CapacityInv'
<1>1. r \in Requests /\ entry[r] = "active"
  BY DEF Active
<1>2. entry' \in [Requests -> {"new", "refused", "active", "waiting", "settled"}]
  BY StateType DEF Finish
<1>3. unheard' = {} /\ entry'[r] = "settled" /\ RefusalIsHeard'
  BY FinishShape DEF RefusalIsHeard
<1>4. CASE /\ queue = <<>> /\ queue' = <<>> /\ started' = started
           /\ \A q \in Requests \ {r} : entry'[q] = entry[q]
  <2>1. Active' = Active \ {r}
    BY <1>1, <1>2, <1>3, <1>4 DEF Active
  <2>2. Waiting' = Waiting /\ Waiting = {}
    <3>1. Waiting = {}
      BY <1>4 DEF CapacityInv, QueueInv
    <3>2. Waiting' = Waiting
      BY <1>1, <1>2, <1>3, <1>4 DEF Waiting
    <3> QED
      BY <3>1, <3>2
  <2>3. TypeOK'
    <3>1. queue' \in Seq(Requests)
      BY <1>4
    <3> QED
      BY <1>1, <1>2, <1>3, <1>4, <3>1, StateType DEF TypeOK
  <2>4. QueueInv'
    BY <1>4, <2>2 DEF QueueInv
  <2>5. HistoryInv'
    BY <1>1, <1>2, <1>3, <1>4, <2>1, <2>2, StateType DEF CapacityInv, HistoryInv, Retained, Active
  <2>6. Cardinality(Active') <= Concurrent
    BY <2>1, ActiveFinite DEF CapacityInv, LimitsHold
  <2>7. LimitsHold'
    <3>1. Len(queue') <= Queued
      BY <1>4, EmptySeq
    <3>2. running' \subseteq Active'
      BY <2>1 DEF CapacityInv, LimitsHold
    <3>3. Retained' \subseteq Retained
      BY <2>1, <2>2 DEF Retained
    <3> QED
      BY <2>6, <3>1, <3>2, <3>3 DEF CapacityInv, LimitsHold
  <2>8. WorkConserving'
    BY <2>2 DEF WorkConserving
  <2>9. PromotedIsStarted' /\ AbortedLeaves'
    BY <1>4, <2>1, <2>2 DEF CapacityInv, PromotedIsStarted, AbortedLeaves, Retained
  <2> QED
    BY <1>3, <2>3, <2>4, <2>5, <2>7, <2>8, <2>9 DEF CapacityInv
<1>5. CASE /\ queue # <<>> /\ queue[1] \in Waiting /\ QueueWithout(1)
           /\ started' = started \union ({queue[1]} \intersect hasRun)
           /\ entry'[queue[1]] = "active"
           /\ \A q \in Requests \ {r, queue[1]} : entry'[q] = entry[q]
  <2> DEFINE c == queue[1]
  <2>0. c \in Requests /\ entry[c] = "waiting" /\ c # r /\ c \notin Active
    BY <1>1, <1>5 DEF Waiting, Active
  <2>1. Active' = (Active \ {r}) \union {c}
    BY <1>1, <1>2, <1>3, <1>5, <2>0 DEF Active
  <2>2. Waiting' = Waiting \ {c}
    BY <1>1, <1>2, <1>3, <1>5, <2>0 DEF Waiting
  <2>3. TypeOK'
    <3>1. queue' \in Seq(Requests)
      BY <1>5 DEF QueueWithout
    <3> QED
      BY <1>1, <1>2, <1>3, <1>5, <3>1, StateType DEF TypeOK
  <2>4. QueueInv'
    <3>1. 1 \in DOMAIN queue
      BY <1>5, StateType, EmptySeq
    <3> QED
      BY <1>5, <2>2, <3>1, QueueKept DEF CapacityInv
  <2>5. HistoryInv'
    BY <1>1, <1>2, <1>3, <1>5, <2>0, <2>1, <2>2, StateType DEF CapacityInv, HistoryInv, Retained, Active
  <2>6. Cardinality(Active') = Cardinality(Active)
    <3>1. IsFiniteSet(Active \ {r}) /\ Cardinality(Active \ {r}) = Cardinality(Active) - 1
      BY ActiveFinite, FS_RemoveElement
    <3>2. Cardinality((Active \ {r}) \union {c}) = Cardinality(Active \ {r}) + 1
      BY <2>0, <3>1, FS_AddElement
    <3> QED
      BY <2>1, <3>1, <3>2, ActiveFinite
  <2>7. LimitsHold'
    <3>1. Len(queue') <= Queued
      BY <1>5, StateType DEF CapacityInv, LimitsHold, QueueWithout
    <3>2. running' \subseteq Active'
      BY <2>1 DEF CapacityInv, LimitsHold
    <3>3. Retained' \subseteq Retained
      BY <1>5, <2>1, <2>2 DEF Retained
    <3> QED
      BY <2>6, <3>1, <3>2, <3>3 DEF CapacityInv, LimitsHold
  <2>8. WorkConserving'
    BY <1>5, <2>6 DEF CapacityInv, WorkConserving
  <2>9. PromotedIsStarted'
    BY <1>5, <2>1 DEF CapacityInv, PromotedIsStarted
  <2>10. AbortedLeaves'
    BY <1>1, <1>5, <2>0, <2>1, <2>2 DEF CapacityInv, AbortedLeaves, Retained, Waiting
  <2> QED
    BY <1>3, <2>3, <2>4, <2>5, <2>7, <2>8, <2>9, <2>10 DEF CapacityInv
<1> QED
  BY <1>4, <1>5, FinishShape

-----------------------------------------------------------------------------
(* Cancelling and reserving.                                               *)

LEMMA DequeueKeeps ==
  ASSUME CapacityInv, NEW r \in Waiting,
         entry' = [entry EXCEPT ![r] = "settled"],
         \E i \in DOMAIN queue : queue[i] = r /\ queue' = RemoveAt(queue, i),
         unheard' = {}, started' = started, hasRun' = hasRun, running' = running,
         aborted \subseteq aborted', aborted' \subseteq aborted \union {r}
  PROVE  CapacityInv'
<1>1. r \in Requests /\ entry[r] = "waiting"
  BY DEF Waiting
<1>2. Active' = Active /\ Waiting' = Waiting \ {r}
  BY <1>1, StateType DEF Active, Waiting
<1>3. PICK i \in DOMAIN queue : queue[i] = r /\ queue' = RemoveAt(queue, i)
  OBVIOUS
<1>4. QueueWithout(i)
  BY <1>3, RemoveWithout DEF CapacityInv
<1>5. QueueInv'
  BY <1>2, <1>3, <1>4, QueueKept DEF CapacityInv
<1>6. TypeOK'
  BY <1>1, <1>4, StateType DEF TypeOK, QueueWithout
<1>7. HistoryInv'
  BY <1>1, <1>2, StateType DEF CapacityInv, HistoryInv, Retained
<1>8. LimitsHold'
  BY <1>2, <1>4, StateType DEF CapacityInv, LimitsHold, QueueWithout, Retained
<1>9. WorkConserving' /\ PromotedIsStarted' /\ RefusalIsHeard'
  BY <1>2 DEF CapacityInv, WorkConserving, PromotedIsStarted, RefusalIsHeard
<1>10. AbortedLeaves'
  BY <1>1, <1>2 DEF CapacityInv, AbortedLeaves, Retained, Active
<1> QED
  BY <1>5, <1>6, <1>7, <1>8, <1>9, <1>10 DEF CapacityInv

LEMMA CancelKeeps ==
  ASSUME CapacityInv, NEW r \in Requests, Cancel(r), hasRun' = hasRun, running' = running,
         aborted \subseteq aborted', aborted' \subseteq aborted \union {r}
  PROVE  CapacityInv'
<1>1. CASE r \in Active \ started /\ Finish(r)
  <2>1. running' = running \ {r}
    BY <1>1, StateType
  <2> QED
    BY <1>1, <2>1, FinishKeeps
<1>2. CASE /\ r \in Waiting
           /\ entry' = [entry EXCEPT ![r] = "settled"]
           /\ \E i \in DOMAIN queue : queue[i] = r /\ queue' = RemoveAt(queue, i)
           /\ unheard' = {}
           /\ started' = started
  BY <1>2, DequeueKeeps
<1>3. CASE r \notin Waiting \union (Active \ started) /\ UNCHANGED <<entry, queue, started, unheard>>
  <2>1. Active' = Active /\ Waiting' = Waiting /\ Retained' = Retained
    BY <1>3 DEF Active, Waiting, Retained
  <2>2. TypeOK' /\ QueueInv' /\ HistoryInv'
    BY <1>3, <2>1, StateType DEF CapacityInv, TypeOK, QueueInv, HistoryInv
  <2>3. LimitsHold' /\ WorkConserving' /\ PromotedIsStarted' /\ RefusalIsHeard'
    BY <1>3, <2>1 DEF CapacityInv, LimitsHold, WorkConserving, PromotedIsStarted, RefusalIsHeard
  <2>4. AbortedLeaves'
    BY <1>3, <2>1 DEF CapacityInv, AbortedLeaves, Retained
  <2> QED
    BY <2>2, <2>3, <2>4 DEF CapacityInv
<1> QED
  BY <1>1, <1>2, <1>3 DEF Cancel

LEMMA ReserveKeeps ==
  ASSUME CapacityInv, NEW r \in Requests, Reserve(r)
  PROVE  CapacityInv'
<1>1. /\ entry[r] = "new" /\ r \notin Active /\ r \notin Waiting
      /\ r \notin hasRun /\ r \notin started /\ r \notin running
      /\ UNCHANGED <<hasRun, started, running, aborted>>
  BY StateType DEF Reserve, CapacityInv, HistoryInv, Retained, Active, Waiting
<1>2. CASE /\ r \in aborted \/ Full \/ \E q \in Retained : KeyOf[q] = KeyOf[r]
           /\ entry' = [entry EXCEPT ![r] = "refused"]
           /\ unheard' = unheard \union ({r} \ aborted)
           /\ queue' = queue
  <2>1. Active' = Active /\ Waiting' = Waiting /\ Retained' = Retained
    <3>1. Active' = Active /\ Waiting' = Waiting
      BY <1>1, <1>2, StateType DEF Active, Waiting
    <3> QED
      BY <3>1 DEF Retained
  <2>2. TypeOK' /\ QueueInv'
    BY <1>1, <1>2, <2>1, StateType DEF CapacityInv, TypeOK, QueueInv
  <2>3. HistoryInv'
    BY <1>1, <1>2, <2>1, StateType DEF CapacityInv, HistoryInv, Active, Retained, Waiting
  <2>4. LimitsHold' /\ WorkConserving' /\ PromotedIsStarted' /\ AbortedLeaves'
    BY <1>1, <1>2, <2>1 DEF CapacityInv, LimitsHold, WorkConserving, PromotedIsStarted, AbortedLeaves
  <2>5. RefusalIsHeard'
    <3>1. Full => Retained # {}
      BY ActiveFinite, FS_EmptySet DEF Full, Retained
    <3>2. unheard' = unheard \/ Retained # {}
      BY <1>2, <3>1
    <3> QED
      BY <2>1, <3>2 DEF CapacityInv, RefusalIsHeard
  <2> QED
    BY <2>2, <2>3, <2>4, <2>5 DEF CapacityInv
<1>3. CASE /\ r \notin aborted /\ \A q \in Retained : KeyOf[q] # KeyOf[r]
           /\ Cardinality(Active) < Concurrent
           /\ entry' = [entry EXCEPT ![r] = "active"] /\ queue' = queue /\ unheard' = unheard
  <2>1. Active' = Active \union {r} /\ Waiting' = Waiting
    BY <1>1, <1>3, StateType DEF Active, Waiting
  <2>2. Waiting = {}
    BY <1>3, ActiveFinite DEF CapacityInv, WorkConserving
  <2>3. TypeOK' /\ QueueInv'
    BY <1>1, <1>3, <2>1, StateType DEF CapacityInv, TypeOK, QueueInv
  <2>4. HistoryInv'
    BY <1>1, <1>3, <2>1, StateType DEF CapacityInv, HistoryInv, Active, Retained
  <2>5. LimitsHold'
    <3>1. Cardinality(Active') <= Concurrent
      <4>1. Cardinality(Active \union {r}) = Cardinality(Active) + 1
        BY <1>1, ActiveFinite, FS_AddElement
      <4> QED
        BY <1>3, <2>1, <4>1, ActiveFinite
    <3> QED
      BY <1>1, <1>3, <2>1, <3>1 DEF CapacityInv, LimitsHold, Retained
  <2>6. WorkConserving' /\ PromotedIsStarted' /\ AbortedLeaves' /\ RefusalIsHeard'
    BY <1>1, <1>3, <2>1, <2>2
    DEF CapacityInv, WorkConserving, PromotedIsStarted, AbortedLeaves, RefusalIsHeard, Retained
  <2> QED
    BY <2>3, <2>4, <2>5, <2>6 DEF CapacityInv
<1>4. CASE /\ r \notin aborted /\ ~ Full /\ \A q \in Retained : KeyOf[q] # KeyOf[r]
           /\ ~ (Cardinality(Active) < Concurrent)
           /\ entry' = [entry EXCEPT ![r] = "waiting"] /\ queue' = Append(queue, r) /\ unheard' = unheard
  <2>1. Active' = Active /\ Waiting' = Waiting \union {r}
    BY <1>1, <1>4, StateType DEF Active, Waiting
  <2>2. /\ queue' \in Seq(Requests) /\ Len(queue') = Len(queue) + 1 /\ DOMAIN queue' = 1 .. Len(queue) + 1
        /\ queue'[Len(queue) + 1] = r
        /\ \A i \in 1 .. Len(queue) : queue'[i] = queue[i]
    BY <1>4, StateType
  <2>3. TypeOK'
    BY <1>1, <1>4, <2>2, StateType DEF TypeOK
  <2>4. QueueInv'
    BY <1>1, <2>1, <2>2, StateType DEF CapacityInv, QueueInv
  <2>5. HistoryInv'
    BY <1>1, <1>4, <2>1, StateType DEF CapacityInv, HistoryInv, Retained
  <2>6. LimitsHold'
    <3>1. Len(queue') <= Queued
      BY <1>4, <2>2, ActiveFinite, StateType DEF Full
    <3> QED
      BY <1>1, <1>4, <2>1, <3>1 DEF CapacityInv, LimitsHold, Retained
  <2>7. WorkConserving'
    BY <1>4, <2>1, ActiveFinite DEF CapacityInv, LimitsHold, WorkConserving
  <2>8. PromotedIsStarted' /\ AbortedLeaves' /\ RefusalIsHeard'
    BY <1>1, <1>4, <2>1 DEF CapacityInv, PromotedIsStarted, AbortedLeaves, RefusalIsHeard, Retained
  <2> QED
    BY <2>3, <2>4, <2>5, <2>6, <2>7, <2>8 DEF CapacityInv
<1> QED
  BY <1>2, <1>3, <1>4 DEF Reserve

-----------------------------------------------------------------------------
(* Running.                                                                *)

LEMMA RunKeeps ==
  ASSUME CapacityInv, NEW r \in Requests, Run(r)
  PROVE  CapacityInv'
<1>1. Active' = Active /\ Waiting' = Waiting /\ Retained' = Retained
  BY DEF Run, Active, Waiting, Retained
<1>2. TypeOK' /\ QueueInv'
  BY <1>1, StateType DEF Run, CapacityInv, TypeOK, QueueInv
<1>3. HistoryInv'
  BY <1>1, StateType DEF Run, CapacityInv, HistoryInv
<1>4. LimitsHold' /\ WorkConserving' /\ AbortedLeaves' /\ RefusalIsHeard' /\ PromotedIsStarted'
  BY <1>1 DEF Run, CapacityInv, LimitsHold, WorkConserving, AbortedLeaves, RefusalIsHeard, PromotedIsStarted
<1> QED
  BY <1>2, <1>3, <1>4 DEF CapacityInv

LEMMA BeginKeeps ==
  ASSUME CapacityInv, NEW r \in Requests, Begin(r)
  PROVE  CapacityInv'
<1>1. CASE r \in aborted
  <2>1. r \in Active /\ Finish(r) /\ running' = running \ {r} /\ hasRun' = hasRun /\ aborted' = aborted
    BY <1>1 DEF Begin
  <2> QED
    BY <2>1, FinishKeeps
<1>2. CASE r \notin aborted
  <2>1. /\ r \in Active /\ r \in started /\ running' = running \union {r}
        /\ UNCHANGED <<entry, queue, started, unheard, hasRun, aborted>>
    BY <1>2 DEF Begin
  <2>2. Active' = Active /\ Waiting' = Waiting /\ Retained' = Retained
    BY <2>1 DEF Active, Waiting, Retained
  <2> QED
    BY <2>1, <2>2, StateType
    DEF CapacityInv, TypeOK, QueueInv, HistoryInv, LimitsHold, WorkConserving, PromotedIsStarted,
        AbortedLeaves, RefusalIsHeard
<1> QED
  BY <1>1, <1>2

LEMMA CapacityInit == Init => CapacityInv
<1> SUFFICES ASSUME Init PROVE CapacityInv
  OBVIOUS
<1>1. Active = {} /\ Waiting = {} /\ Retained = {}
  BY DEF Init, Active, Waiting, Retained
<1>2. Cardinality(Active) = 0 /\ Len(queue) = 0 /\ DOMAIN queue = {}
  BY <1>1, FS_EmptySet DEF Init
<1> QED
  BY <1>1, <1>2
  DEF Init, CapacityInv, TypeOK, QueueInv, HistoryInv, LimitsHold, WorkConserving, PromotedIsStarted,
      AbortedLeaves, RefusalIsHeard

LEMMA CapacityStep == CapacityInv /\ [Next]_vars => CapacityInv'
<1> SUFFICES ASSUME CapacityInv, [Next]_vars PROVE CapacityInv'
  OBVIOUS
<1>1. CASE UNCHANGED vars
  BY <1>1
  DEF vars, CapacityInv, TypeOK, QueueInv, HistoryInv, LimitsHold, WorkConserving, PromotedIsStarted,
      AbortedLeaves, RefusalIsHeard, Active, Waiting, Retained
<1>2. ASSUME NEW r \in Requests, Reserve(r) PROVE CapacityInv'
  BY <1>2, ReserveKeeps
<1>3. ASSUME NEW r \in Requests, Run(r) PROVE CapacityInv'
  BY <1>3, RunKeeps
<1>4. ASSUME NEW r \in Requests, Release(r) PROVE CapacityInv'
  BY <1>4, CancelKeeps DEF Release
<1>5. ASSUME NEW r \in Requests, Abort(r) PROVE CapacityInv'
  BY <1>5, CancelKeeps DEF Abort
<1>6. ASSUME NEW r \in Requests, Begin(r) PROVE CapacityInv'
  BY <1>6, BeginKeeps
<1>7. ASSUME NEW r \in Requests, CallbackEnds(r) PROVE CapacityInv'
  BY <1>7, FinishKeeps DEF CallbackEnds
<1> QED
  BY <1>1, <1>2, <1>3, <1>4, <1>5, <1>6, <1>7 DEF Next

-----------------------------------------------------------------------------
(* Theorems.                                                               *)

LEMMA CapacityAlways == Spec => []CapacityInv
  BY CapacityInit, CapacityStep, PTL DEF Spec

\* Neither limit of the capacity is ever exceeded and no agent has two turns,
\* whatever the limits and however many deliveries compete.
THEOREM CapacityBounded == Spec => []LimitsHold
<1>1. CapacityInv => LimitsHold
  BY DEF CapacityInv
<1> QED
  BY <1>1, CapacityAlways, PTL

\* No reservation waits for a slot that is free, and none that was promoted
\* after its turn was handed over is left without a start.
THEOREM NoSlotIdle == Spec => [](WorkConserving /\ PromotedIsStarted)
<1>1. CapacityInv => WorkConserving /\ PromotedIsStarted
  BY DEF CapacityInv
<1> QED
  BY <1>1, CapacityAlways, PTL

\* An aborted delivery keeps neither a slot nor a place in the queue.
THEOREM AbortFrees == Spec => []AbortedLeaves
<1>1. CapacityInv => AbortedLeaves
  BY DEF CapacityInv
<1> QED
  BY <1>1, CapacityAlways, PTL

\* Whoever was refused and not notified since can rely on a reservation whose
\* end will notify it.
THEOREM RefusedHasNotifier == Spec => []RefusalIsHeard
<1>1. CapacityInv => RefusalIsHeard
  BY DEF CapacityInv
<1> QED
  BY <1>1, CapacityAlways, PTL
=============================================================================
