------------------------ MODULE DirectDeliveryProofs ------------------------
(***************************************************************************)
(* Proofs about DirectDelivery for any inbox, any set of entities and      *)
(* agents, any page size and any number of execution slots: agents run     *)
(* under their session, no slot leaks, what is held back for want of a     *)
(* slot is woken again, rows of an entity are delivered in order, and a    *)
(* drained run has dealt with every row it was woken for.                  *)
(***************************************************************************)
EXTENDS DirectDelivery, FiniteSetTheorems, WellFoundedInduction, TLAPS

Admitting == run = "reading" /\ at = "admit"

\* Who holds slots, and where the run can be while somebody does.
SlotInv ==
  /\ reserved \subseteq Agents /\ live \subseteq Agents /\ others \in BOOLEAN
  /\ ~ Admitting => reserved \subseteq live
  /\ Admitting => reserved \subseteq live \union {Target}
  /\ Admitting /\ stopped => reserved \subseteq live
  /\ live # {} => run \in {"reading", "releasing"}
  /\ run # "reading" => at = "scan"
  /\ run = "releasing" /\ result = "drained" => live = {}

USE DeliveryAssumption

LEMMA SlotInit == Init => SlotInv
  BY DEF Init, SlotInv, Admitting

LEMMA SlotStep == SlotInv /\ [Next]_vars => SlotInv'
<1> SUFFICES ASSUME SlotInv, [Next]_vars PROVE SlotInv'
  OBVIOUS
<1> USE DEF SlotInv, Admitting, Target, Current, Ahead, inboxVars, posterVars, runVars, scanVars,
        wakeVars, slotVars, otherVars
<1>1. ASSUME NEW m \in Msgs, Store(m) PROVE SlotInv'
  BY <1>1 DEF Store
<1>2. ASSUME NEW m \in Msgs, Notify(m) PROVE SlotInv'
  BY <1>2 DEF Notify, Wake, WakeShard, WakeDrain
<1>3. ASSUME NEW m \in Msgs, DrainMessage(m) PROVE SlotInv'
  BY <1>3 DEF DrainMessage, WakeShard, WakeDrain
<1>4. CASE Picked
  BY <1>4 DEF Picked, RunCompletes
<1>5. CASE ReadPage
  BY <1>5 DEF ReadPage, EndRun, ResetScan
<1>6. CASE EndPage
  BY <1>6 DEF EndPage, ReadOn, EndScan, EndRun, BeginScan, ResetScan
<1>7. CASE WaitingEnds
  BY <1>7 DEF WaitingEnds, BeginScan, ResetScan
<1>8. CASE Released
  BY <1>8 DEF Released, RunCompletes
<1>9. CASE ProcessNext
  BY <1>9 DEF ProcessNext, EndRun, ResetScan
<1>10. CASE NotCompleted
  BY <1>10 DEF NotCompleted, NextRow
<1>11. CASE Acknowledged
  BY <1>11 DEF Acknowledged, Dispatched, NextRow
<1>12. CASE Defer
  BY <1>12 DEF Defer, Dispatched
<1>13. CASE Admit
  BY <1>13 DEF Admit, Dispatched, RetryDeferred, Wake, WakeShard, WakeDrain
<1>14. CASE RecordDeferred
  BY <1>14 DEF RecordDeferred, NextRow, WakeDrain
<1>15. CASE AgentAcknowledged
  BY <1>15 DEF AgentAcknowledged, NextRow
<1>16. CASE AgentDiscarded
  BY <1>16 DEF AgentDiscarded, NextRow
<1>17. CASE NotPicked
  BY <1>17 DEF NotPicked, RunCompletes
<1>18. CASE RunThrows
  BY <1>18 DEF RunThrows, ResetScan
<1>19. CASE AckExhausted
  BY <1>19 DEF AckExhausted, Dispatched, NextRow
<1>20. CASE AdmitFails
  BY <1>20 DEF AdmitFails, Dispatched, NextRow
<1>21. CASE AgentAckExhausted
  BY <1>21 DEF AgentAckExhausted, NextRow
<1>22. CASE SessionLost
  BY <1>22 DEF SessionLost, StopDrain, WakeDrain
<1>23. ASSUME NEW t \in Agents, AgentEnds(t) PROVE SlotInv'
  BY <1>23 DEF AgentEnds, RetryDeferred, Wake, WakeShard, WakeDrain
<1>24. CASE OtherStarts
  BY <1>24 DEF OtherStarts
<1>25. CASE OtherEnds
  BY <1>25 DEF OtherEnds, RetryDeferred, Wake, WakeShard, WakeDrain
<1>26. CASE BeginStartupDrain
  BY <1>26 DEF BeginStartupDrain
<1>27. CASE BeginClose
  BY <1>27 DEF BeginClose, StopDrain, WakeDrain
<1>28. CASE UNCHANGED vars
  BY <1>28 DEF vars
<1> QED
  BY <1>1, <1>2, <1>3, <1>4, <1>5, <1>6, <1>7, <1>8, <1>9, <1>10, <1>11, <1>12, <1>13, <1>14,
     <1>15, <1>16, <1>17, <1>18, <1>19, <1>20, <1>21, <1>22, <1>23, <1>24, <1>25, <1>26, <1>27,
     <1>28 DEF Next, RunStep, FaultStep

-----------------------------------------------------------------------------
(* The number of slots in use.                                             *)

LEMMA SlotsFinite ==
  ASSUME SlotInv
  PROVE  IsFiniteSet(reserved) /\ Cardinality(reserved) \in Nat
<1>1. IsFiniteSet(reserved)
  BY FS_Subset DEF SlotInv
<1> QED
  BY <1>1, FS_CardinalityType

LEMMA InUseType ==
  ASSUME SlotInv
  PROVE  /\ InUse \in Nat
         /\ InUse > 0 <=> reserved # {} \/ others
  BY SlotsFinite, FS_EmptySet DEF InUse, SlotInv

SlotBound == InUse <= Slots

LEMMA FewerSlots ==
  ASSUME SlotInv, SlotBound, NEW t, reserved' = reserved \ {t}, others' = others
  PROVE  SlotBound'
<1>1. Cardinality(reserved \ {t}) \in Nat /\ Cardinality(reserved \ {t}) <= Cardinality(reserved)
  BY SlotsFinite, FS_Subset, FS_CardinalityType
<1> QED
  BY <1>1, SlotsFinite DEF SlotBound, InUse

LEMMA BoundStep == SlotInv /\ SlotBound /\ [Next]_vars => SlotBound'
<1> SUFFICES ASSUME SlotInv, SlotBound, [Next]_vars PROVE SlotBound'
  OBVIOUS
<1> USE DEF inboxVars, posterVars, runVars, scanVars, wakeVars, slotVars, otherVars
<1>1. CASE UNCHANGED <<reserved, others>>
  BY <1>1 DEF SlotBound, InUse
<1>2. ASSUME NEW t, reserved' = reserved \ {t}, others' = others PROVE SlotBound'
  BY <1>2, FewerSlots
<1>3. CASE Admit
  <2>1. CASE UNCHANGED reserved
    BY <1>1, <1>3, <2>1 DEF Admit
  <2>2. CASE reserved' = reserved \union {Target}
    <3>1. Cardinality(reserved \union {Target}) = Cardinality(reserved) + 1
      BY <1>3, SlotsFinite, FS_AddElement DEF Admit
    <3> QED
      BY <1>3, <2>2, <3>1, SlotsFinite DEF Admit, SlotBound, InUse
  <2> QED
    BY <1>3, <2>1, <2>2 DEF Admit
<1>4. CASE AgentAckExhausted
  BY <1>4, <1>2 DEF AgentAckExhausted
<1>5. CASE SessionLost
  BY <1>5, <1>1, <1>2 DEF SessionLost, StopDrain
<1>6. CASE BeginClose
  BY <1>6, <1>1, <1>2 DEF BeginClose, StopDrain
<1>7. ASSUME NEW t \in Agents, AgentEnds(t) PROVE SlotBound'
  BY <1>7, <1>2 DEF AgentEnds
<1>8. CASE OtherStarts
  BY <1>8, SlotsFinite DEF OtherStarts, SlotBound, InUse
<1>9. CASE OtherEnds
  BY <1>9, SlotsFinite DEF OtherEnds, SlotBound, InUse
<1> QED
  <2> USE <1>1
  <2>1. ASSUME NEW m \in Msgs, Store(m) \/ Notify(m) \/ DrainMessage(m) PROVE SlotBound'
    BY <2>1 DEF Store, Notify, DrainMessage
  <2>2. CASE RunStep
    BY <2>2, <1>3 DEF RunStep, Picked, ReadPage, EndPage, WaitingEnds, Released, ProcessNext,
       NotCompleted, Acknowledged, Defer, RecordDeferred, AgentAcknowledged, AgentDiscarded
  <2>3. CASE FaultStep
    BY <2>3, <1>4, <1>5 DEF FaultStep, NotPicked, RunThrows, AckExhausted, AdmitFails
  <2>4. CASE BeginStartupDrain \/ UNCHANGED vars
    BY <2>4 DEF BeginStartupDrain, vars
  <2> QED
    BY <1>6, <1>7, <1>8, <1>9, <2>1, <2>2, <2>3, <2>4 DEF Next

-----------------------------------------------------------------------------
(* What is held back is woken again.                                       *)

Held == reserved # {} \/ others

\* A row whose reservation failed, and whose target the drain has not blocked
\* yet, is remembered as well, unless a wake has overtaken it.
WakerInv ==
  /\ intake = "open" /\ HoldsBack /\ capBlocked # {} => deferred /\ Held
  /\ run = "reading" /\ at = "defer" /\ ~ moved /\ ~ stopped /\ intake = "open"
       => deferred /\ Held

LEMMA WakerStep == SlotInv /\ WakerInv /\ [Next]_vars => WakerInv'
<1> SUFFICES ASSUME SlotInv, WakerInv, [Next]_vars PROVE WakerInv'
  OBVIOUS
<1> USE DEF WakerInv, HoldsBack, Held, inboxVars, posterVars, runVars, scanVars, wakeVars,
        slotVars, otherVars
<1>1. ASSUME NEW m \in Msgs, Store(m) PROVE WakerInv'
  BY <1>1 DEF Store
<1>2. ASSUME NEW m \in Msgs, Notify(m) PROVE WakerInv'
  BY <1>2 DEF Notify, Wake, WakeShard, WakeDrain
<1>3. ASSUME NEW m \in Msgs, DrainMessage(m) PROVE WakerInv'
  BY <1>3 DEF DrainMessage, WakeShard, WakeDrain
<1>4. CASE Picked
  BY <1>4 DEF Picked, RunCompletes, SlotInv
<1>5. CASE ReadPage
  BY <1>5 DEF ReadPage, EndRun, ResetScan
<1>6. CASE EndPage
  BY <1>6 DEF EndPage, ReadOn, EndScan, EndRun, BeginScan, ResetScan
<1>7. CASE WaitingEnds
  BY <1>7 DEF WaitingEnds, BeginScan, ResetScan
<1>8. CASE Released
  BY <1>8 DEF Released, RunCompletes, Hears
<1>9. CASE ProcessNext
  BY <1>9 DEF ProcessNext, EndRun, ResetScan
<1>10. CASE NotCompleted
  BY <1>10 DEF NotCompleted, NextRow
<1>11. CASE Acknowledged
  BY <1>11 DEF Acknowledged, NextRow
<1>12. CASE Defer
  <2>1. ~ stopped => Held
    BY <1>12, InUseType DEF Defer
  <2> QED
    BY <1>12, <2>1 DEF Defer, Dispatched
<1>13. CASE Admit
  BY <1>13 DEF Admit, Dispatched, RetryDeferred, Wake, WakeShard, WakeDrain, Hears
<1>14. CASE RecordDeferred
  BY <1>14 DEF RecordDeferred, NextRow, WakeDrain
<1>15. CASE AgentAcknowledged
  BY <1>15 DEF AgentAcknowledged, NextRow
<1>16. CASE AgentDiscarded
  BY <1>16 DEF AgentDiscarded, NextRow
<1>17. CASE NotPicked
  BY <1>17 DEF NotPicked, RunCompletes
<1>18. CASE RunThrows
  BY <1>18 DEF RunThrows, ResetScan
<1>19. CASE AckExhausted
  BY <1>19 DEF AckExhausted, NextRow
<1>20. CASE AdmitFails
  BY <1>20 DEF AdmitFails, BlockedAfterRetry, Hears, Dispatched, NextRow
<1>21. CASE AgentAckExhausted
  BY <1>21 DEF AgentAckExhausted, BlockedAfterRetry, Hears, NextRow
<1>22. CASE SessionLost
  BY <1>22 DEF SessionLost, StopDrain, WakeDrain
<1>23. ASSUME NEW t \in Agents, AgentEnds(t) PROVE WakerInv'
  BY <1>23 DEF AgentEnds, RetryDeferred, Wake, WakeShard, WakeDrain, SlotInv
<1>24. CASE OtherStarts
  BY <1>24 DEF OtherStarts
<1>25. CASE OtherEnds
  BY <1>25 DEF OtherEnds, RetryDeferred, Wake, WakeShard, WakeDrain, Hears
<1>26. CASE BeginStartupDrain
  BY <1>26 DEF BeginStartupDrain
<1>27. CASE BeginClose
  BY <1>27 DEF BeginClose
<1>28. CASE UNCHANGED vars
  BY <1>28 DEF vars
<1> QED
  BY <1>1, <1>2, <1>3, <1>4, <1>5, <1>6, <1>7, <1>8, <1>9, <1>10, <1>11, <1>12, <1>13, <1>14,
     <1>15, <1>16, <1>17, <1>18, <1>19, <1>20, <1>21, <1>22, <1>23, <1>24, <1>25, <1>26, <1>27,
     <1>28 DEF Next, RunStep, FaultStep

-----------------------------------------------------------------------------
(* Theorems.                                                               *)

DeliveryInv == SlotInv /\ SlotBound /\ WakerInv

LEMMA DeliveryInductive == Spec => []DeliveryInv
<1>1. Init => DeliveryInv
  <2>1. Init => Cardinality(reserved) = 0
    BY FS_EmptySet DEF Init
  <2> QED
    BY <2>1, SlotInit DEF Init, DeliveryInv, SlotBound, InUse, WakerInv
<1>2. DeliveryInv /\ [Next]_vars => DeliveryInv'
  BY SlotStep, BoundStep, WakerStep DEF DeliveryInv
<1> QED
  BY <1>1, <1>2, PTL DEF Spec

\* No slot leaks between the reservation and the turn, and never more slots
\* are taken than the process has (#completeAgentAttempt, reserve).
THEOREM SlotsHeldByTurns == Spec => []NoLeakedSlot
<1>1. DeliveryInv => NoLeakedSlot
  BY DEF DeliveryInv, SlotInv, SlotBound, Admitting, NoLeakedSlot
<1> QED
  BY <1>1, DeliveryInductive, PTL

\* Agents never outlive the session that admitted them (#release).
THEOREM AgentsUnderSession == Spec => []AgentsWithinSession
<1>1. DeliveryInv => AgentsWithinSession
  BY DEF DeliveryInv, SlotInv, AgentsWithinSession
<1> QED
  BY <1>1, DeliveryInductive, PTL

\* Whatever is held back for want of a slot is remembered, and an agent that
\* will release a slot still runs (#recordDeferred, retryDeferred).
THEOREM DeferralIsRemembered == Spec => []DeferredHasWaker
<1>1. DeliveryInv => DeferredHasWaker
  BY InUseType DEF DeliveryInv, WakerInv, Held, DeferredHasWaker
<1> QED
  BY <1>1, DeliveryInductive, PTL

-----------------------------------------------------------------------------
(* Pages and what a scan has dealt with.                                   *)

LEMMA LeastNatural ==
  ASSUME NEW S \in SUBSET Nat, S # {}
  PROVE  Min(S) \in S /\ \A y \in S : Min(S) <= y
<1>1. PICK x \in S : \A y \in S : ~ (<<y, x>> \in OpToRel(<, Nat))
  BY NatLessThanWellFounded, WFMin
<1>2. \A y \in S : ~ (y < x)
  BY <1>1 DEF OpToRel
<1>3. \A y \in S : x <= y
  BY <1>2
<1> QED
  BY <1>3 DEF Min

LEMMA GreatestNatural ==
  ASSUME NEW S \in SUBSET Nat, S # {}, NEW n \in Nat, \A x \in S : x <= n
  PROVE  Max(S) \in S /\ \A y \in S : y <= Max(S)
<1> DEFINE Above == {m \in Nat : \A y \in S : y <= m}
           m == Min(Above)
<1>1. m \in Above /\ \A x \in Above : m <= x
  <2>1. n \in Above /\ Above \in SUBSET Nat
    OBVIOUS
  <2> HIDE DEF Above
  <2> QED
    BY <2>1, LeastNatural
<1> HIDE DEF m
<1>2. m \in S
  <2> SUFFICES ASSUME m \notin S PROVE FALSE
    OBVIOUS
  <2>1. \A y \in S : y \in Nat /\ y < m
    BY <1>1
  <2>2. m - 1 \in Nat
    <3>1. PICK y \in S : y \in Nat /\ y < m
      BY <2>1
    <3> QED
      BY <1>1, <3>1
  <2>3. m - 1 \in Above
    BY <1>1, <2>1, <2>2
  <2> QED
    BY <1>1, <2>2, <2>3
<1>3. \A y \in S : m >= y
  BY <1>1
<1>4. Max(S) \in S /\ \A y \in S : Max(S) >= y
  BY <1>2, <1>3 DEF Max
<1> QED
  BY <1>4

LEMMA CurrentIsNext ==
  ASSUME page \subseteq Msgs, pos \in Nat, Ahead # {}
  PROVE  /\ Current \in page /\ pos < Current
         /\ \A m \in page : m <= Current <=> m <= pos \/ m = Current
<1>1. page \in SUBSET Nat
  BY DEF Msgs
<1>2. Ahead \in SUBSET Nat
  BY <1>1 DEF Ahead
<1>3. Current \in Ahead /\ \A y \in Ahead : Current <= y
  BY <1>2, LeastNatural DEF Current
<1> QED
  BY <1>1, <1>3 DEF Ahead

\* The last of some rows.
LEMMA LastIs ==
  ASSUME NEW S \in SUBSET Msgs, S # {}
  PROVE  Max(S) \in S /\ \A m \in S : m <= Max(S)
<1>1. S \in SUBSET Nat /\ \A m \in S : m <= NumMsgs
  BY DEF Msgs
<1>2. NumMsgs \in Nat
  OBVIOUS
<1> QED
  BY <1>1, <1>2, GreatestNatural

OnPage == {"page", "dispatch", "defer", "admit"}

PageInv ==
  /\ row \in [Msgs -> {"absent", "stored", "delivered", "gone"}]
  /\ page \subseteq Msgs /\ pos \in Nat /\ after \in Nat
  /\ at \in OnPage \union {"scan", "wait"}
  /\ run # "reading" => page = {} /\ pos = 0 /\ after = 0 /\ progress = FALSE
  /\ at \notin OnPage => page = {} /\ pos = 0
  /\ old \subseteq page /\ \A m \in old : row[m] \in {"delivered", "gone"}
  /\ at \in {"dispatch", "defer", "admit"} => Ahead # {}
  /\ at \in {"defer", "admit"} => Target \in Agents
  /\ at = "dispatch" => Target \notin blocked
  /\ capBlocked \subseteq Agents

LEMMA CurrentTyped ==
  ASSUME PageInv, Ahead # {}
  PROVE  Current \in Msgs /\ Current \in Nat
<1>1. page \subseteq Msgs /\ pos \in Nat
  BY DEF PageInv
<1>2. Current \in Msgs
  BY <1>1, CurrentIsNext
<1> QED
  BY <1>2 DEF Msgs

LEMMA PageInit == Init => PageInv
  BY DEF Init, PageInv, OnPage

\* Steps that only change rows, wakes and slots.
LEMMA PageKept ==
  ASSUME PageInv, UNCHANGED scanVars, run' # "reading" => run # "reading",
         row' \in [Msgs -> {"absent", "stored", "delivered", "gone"}],
         \A m \in Msgs : row[m] \in {"delivered", "gone"} => row'[m] \in {"delivered", "gone"},
         blocked' \subseteq blocked, capBlocked' \subseteq capBlocked
  PROVE  PageInv'
<1>1. Ahead' = Ahead /\ Target' = Target
  BY DEF scanVars, Ahead, Target, Current
<1> QED
  BY <1>1 DEF PageInv, scanVars, OnPage

\* The drain goes on with the next row.
LEMMA PageGoesOn ==
  ASSUME PageInv, Ahead # {}, NextRow, run' = run, run = "reading",
         row' \in [Msgs -> {"absent", "stored", "delivered", "gone"}],
         \A m \in Msgs : row[m] \in {"delivered", "gone"} => row'[m] \in {"delivered", "gone"},
         capBlocked' \subseteq Agents
  PROVE  PageInv'
<1>1. Current \in Nat
  BY CurrentTyped
<1>2. UNCHANGED <<page, old, after>> /\ at' = "page" /\ pos' = Current
  BY DEF NextRow
<1>3. old' \subseteq page' /\ \A m \in old' : row'[m] \in {"delivered", "gone"}
  BY <1>2 DEF PageInv
<1> HIDE DEF Current
<1> QED
  BY <1>1, <1>2, <1>3 DEF PageInv, OnPage

LEMMA PageStep == SlotInv /\ PageInv /\ [Next]_vars => PageInv'
<1> SUFFICES ASSUME SlotInv, PageInv, [Next]_vars PROVE PageInv'
  OBVIOUS
<1> USE DEF inboxVars, posterVars, runVars, wakeVars, slotVars, otherVars
<1>0. /\ row \in [Msgs -> {"absent", "stored", "delivered", "gone"}]
      /\ capBlocked \subseteq Agents /\ (at \in {"dispatch", "defer", "admit"} => Ahead # {})
      /\ run # "reading" => at = "scan"
      /\ page \subseteq Msgs
      /\ at \in {"defer", "admit"} => Target \in Agents
  BY DEF PageInv, SlotInv
<1>1. ASSUME NEW m \in Msgs, Store(m) PROVE PageInv'
  BY <1>0, <1>1, PageKept DEF Store
<1>2. ASSUME NEW m \in Msgs, Notify(m) PROVE PageInv'
  BY <1>0, <1>2, PageKept DEF Notify, Wake, WakeShard, WakeDrain
<1>3. ASSUME NEW m \in Msgs, DrainMessage(m) PROVE PageInv'
  BY <1>0, <1>3, PageKept DEF DrainMessage, WakeShard, WakeDrain
<1>4. CASE Picked
  BY <1>0, <1>4, PageKept DEF Picked, RunCompletes
<1>5. CASE ReadPage
  <2>1. CASE stopped
    BY <1>5, <2>1 DEF ReadPage, EndRun, ResetScan, PageInv, OnPage
  <2>2. CASE ~ stopped
    BY <1>5, <2>2 DEF ReadPage, PageInv, OnPage, Listed
  <2> QED
    BY <2>1, <2>2
<1>6. CASE EndPage
  <2>0. row' \in [Msgs -> {"absent", "stored", "delivered", "gone"}]
    BY <1>0, <1>6 DEF EndPage
  <2>1. CASE EndRun("stopped") \/ EndRun("drained")
    BY <2>0, <2>1 DEF EndRun, ResetScan, PageInv, OnPage
  <2>2. CASE BeginScan
    BY <2>0, <2>2 DEF BeginScan, ResetScan, PageInv, OnPage
  <2>3. CASE /\ at' = "wait" /\ page' = {} /\ old' = {} /\ pos' = 0
             /\ UNCHANGED <<after, progress, runVars, wakeVars>>
    BY <1>6, <2>0, <2>3 DEF PageInv, OnPage, EndPage
  <2>4. ASSUME NEW expired \in SUBSET old, ReadOn(page \ expired)
        PROVE  PageInv'
    <3>1. after' \in Nat
      <4>1. page \ expired # {} => Max(page \ expired) \in Nat
        <5>1. (page \ expired) \in SUBSET Msgs
          BY <1>0
        <5>2. Msgs \in SUBSET Nat
          BY DEF Msgs
        <5> QED
          BY <5>1, <5>2, LastIs
      <4> QED
        BY <2>4, <4>1 DEF ReadOn, PageInv
    <3> QED
      BY <1>6, <2>0, <2>4, <3>1 DEF ReadOn, PageInv, OnPage, EndPage
  <2> QED
    BY <1>6, <2>1, <2>2, <2>3, <2>4 DEF EndPage, EndScan
<1>7. CASE WaitingEnds
  BY <1>0, <1>7 DEF WaitingEnds, BeginScan, ResetScan, PageInv, OnPage
<1>8. CASE Released
  BY <1>0, <1>8, PageKept DEF Released, RunCompletes
<1>9. CASE ProcessNext
  <2>1. CASE EndRun("stopped")
    BY <1>0, <1>9, <2>1 DEF ProcessNext, EndRun, ResetScan, PageInv, OnPage
  <2>2. CASE pos' = Current /\ at' = at
    <3>1. Current \in Nat /\ Current \in page
      BY <1>0, <1>9, CurrentTyped, CurrentIsNext DEF ProcessNext, PageInv
    <3> QED
      BY <1>9, <2>2, <3>1 DEF ProcessNext, PageInv, OnPage, EndRun
  <2>3. CASE at' = "dispatch" /\ UNCHANGED <<page, pos>> /\ ~ Skipped(Current)
    <3>1. Ahead' = Ahead /\ Target' = Target /\ Target \notin blocked
      BY <2>3 DEF Ahead, Target, Current, Skipped
    <3> QED
      BY <1>9, <2>3, <3>1 DEF ProcessNext, PageInv, OnPage, EndRun
  <2> QED
    BY <1>9, <2>1, <2>2, <2>3 DEF ProcessNext
<1>10. CASE NotCompleted
  BY <1>0, <1>10, PageGoesOn DEF NotCompleted
<1>11. CASE Acknowledged
  BY <1>0, <1>11, PageGoesOn DEF Acknowledged, Dispatched
<1>12. CASE Defer
  <2>1. Ahead' = Ahead /\ Target' = Target
    BY <1>12 DEF Defer, Ahead, Target, Current
  <2> QED
    BY <1>12, <2>1 DEF Defer, Dispatched, PageInv, OnPage
<1>13. CASE Admit
  <2>1. Ahead' = Ahead /\ Target' = Target
    BY <1>13 DEF Admit, Ahead, Target, Current
  <2>2. /\ UNCHANGED <<row, page, pos, after, progress, old>> /\ at' = "admit"
        /\ Target \in Agents /\ capBlocked' \subseteq capBlocked /\ run = "reading" /\ at = "dispatch"
        /\ run' = "reading"
    BY <1>13 DEF Admit, Dispatched, RetryDeferred, Wake, WakeShard, WakeDrain
  <2> QED
    BY <2>1, <2>2 DEF PageInv, OnPage
<1>14. CASE RecordDeferred
  <2>1. capBlocked' \subseteq Agents /\ row' = row /\ run' = run
    BY <1>0, <1>14 DEF RecordDeferred, WakeDrain
  <2> QED
    BY <1>0, <1>14, <2>1, PageGoesOn DEF RecordDeferred
<1>15. CASE AgentAcknowledged
  BY <1>0, <1>15, PageGoesOn DEF AgentAcknowledged
<1>16. CASE AgentDiscarded
  BY <1>0, <1>16, PageGoesOn DEF AgentDiscarded
<1>17. CASE NotPicked
  BY <1>0, <1>17, PageKept DEF NotPicked, RunCompletes
<1>18. CASE RunThrows
  BY <1>18 DEF RunThrows, ResetScan, PageInv, OnPage
<1>19. CASE AckExhausted
  BY <1>0, <1>19, PageGoesOn DEF AckExhausted, Dispatched
<1>20. CASE AdmitFails
  BY <1>0, <1>20, PageGoesOn DEF AdmitFails, Dispatched, BlockedAfterRetry
<1>21. CASE AgentAckExhausted
  BY <1>0, <1>21, PageGoesOn DEF AgentAckExhausted, BlockedAfterRetry
<1>22. CASE SessionLost
  BY <1>0, <1>22, PageKept DEF SessionLost, StopDrain, WakeDrain
<1>23. ASSUME NEW t \in Agents, AgentEnds(t) PROVE PageInv'
  BY <1>0, <1>23, PageKept DEF AgentEnds, RetryDeferred, Wake, WakeShard, WakeDrain
<1>24. CASE OtherStarts
  BY <1>0, <1>24, PageKept DEF OtherStarts
<1>25. CASE OtherEnds
  BY <1>0, <1>25, PageKept DEF OtherEnds, RetryDeferred, Wake, WakeShard, WakeDrain
<1>26. CASE BeginStartupDrain
  BY <1>0, <1>26, PageKept DEF BeginStartupDrain
<1>27. CASE BeginClose
  BY <1>0, <1>27, PageKept DEF BeginClose, StopDrain, WakeDrain
<1>28. CASE UNCHANGED vars
  BY <1>0, <1>28, PageKept DEF vars
<1> QED
  BY <1>1, <1>2, <1>3, <1>4, <1>5, <1>6, <1>7, <1>8, <1>9, <1>10, <1>11, <1>12, <1>13, <1>14,
     <1>15, <1>16, <1>17, <1>18, <1>19, <1>20, <1>21, <1>22, <1>23, <1>24, <1>25, <1>26, <1>27,
     <1>28 DEF Next, RunStep, FaultStep

\* A row the run has dealt with, unless its entity is held back.
Settled(m) == row[m] # "stored" \/ TargetOf[m] \in blocked

Known == owed \subseteq Msgs /\ \A m \in page \union owed : row[m] # "absent"

\* No row of another entity than an agent is passed over on the page.
PageInOrder ==
  run = "reading" /\ ~ stopped /\ intake # "startup"
    => \A m \in page : m <= pos /\ TargetOf[m] \notin Agents => Settled(m)

\* The scan goes on undisturbed.
Scanning == run = "reading" /\ ~ stopped /\ ~ woken /\ intake = "open"

\* What the scan has delivered nothing of, it has found settled.
ScannedIsSettled ==
  Scanning /\ ~ progress
    => \A m \in owed : m <= after \/ (m \in page /\ m <= pos) => Settled(m)

\* What is owed beyond the continuation is on the page or after a full one.
PageIsNext ==
  Scanning /\ at \in OnPage
    => \A m \in owed : row[m] = "stored" /\ ~ (m <= after) /\ m \notin page
         => Cardinality(page) = PageSize /\ \A n \in page : n < m

DrainedIsSettled ==
  run = "releasing" /\ result = "drained" /\ ~ pendingWake /\ intake = "open"
    => \A m \in owed : Settled(m)

ScanInv == Known /\ PageInOrder /\ ScannedIsSettled /\ PageIsNext /\ DrainedIsSettled

LEMMA ScanInit == Init => ScanInv
  BY DEF Init, ScanInv, Known, PageInOrder, Scanning, ScannedIsSettled, PageIsNext, DrainedIsSettled

\* No step stores a row again.
RowsKept ==
  \A m \in Msgs : row[m] # "absent" =>
    row'[m] # "absent" /\ (row'[m] = "stored" => row[m] = "stored")

Undisturbed == UNCHANGED <<run, result, owed, blocked, woken, pendingWake>>
Woken == /\ run = "reading" /\ run' = "reading" /\ woken'
         /\ owed' = owed \union Stored /\ blocked \ capBlocked \subseteq blocked'
Remembered == /\ run # "reading" /\ run' # "reading" /\ owed' = owed \union Stored
              /\ run' = "releasing" => pendingWake'
Completed == run' \notin {"reading", "releasing"} /\ owed' \subseteq owed

\* A step between two rows of the page, or outside of it.
LEMMA ScanKept ==
  ASSUME PageInv, ScanInv, UNCHANGED scanVars, RowsKept,
         \/ intake' = intake
         \/ intake' = "startup" /\ intake = "open"
         \/ intake' = "closing" /\ (run' = "reading" => stopped'),
         stopped => stopped',
         Undisturbed \/ Woken \/ Remembered \/ Completed
  PROVE  ScanInv'
<1>1. UNCHANGED <<page, pos, after, at, progress>>
  BY DEF scanVars
<1>2. Known'
  BY <1>1 DEF ScanInv, Known, RowsKept, PageInv, Undisturbed, Woken, Remembered, Completed, Stored
<1>3. \A m \in page \union owed : row[m] # "absent" /\ m \in Msgs
  BY DEF ScanInv, Known, PageInv
<1>4. ASSUME NEW m \in page \union owed, Settled(m), TargetOf[m] \in blocked => TargetOf[m] \in blocked'
      PROVE  Settled(m)'
  BY <1>3, <1>4 DEF Settled, RowsKept
<1>5. CASE Undisturbed
  <2>1. /\ UNCHANGED <<run, result, owed, woken, pendingWake>>
        /\ \A m \in page \union owed : Settled(m) => Settled(m)'
    BY <1>4, <1>5 DEF Undisturbed
  <2>2. PageInOrder'
    BY <1>1, <2>1 DEF ScanInv, PageInOrder
  <2>3. ScannedIsSettled' /\ DrainedIsSettled'
    BY <1>1, <2>1 DEF ScanInv, Scanning, ScannedIsSettled, DrainedIsSettled
  <2>4. PageIsNext'
    BY <1>1, <1>3, <2>1 DEF ScanInv, Scanning, PageIsNext, RowsKept
  <2> QED
    BY <1>2, <2>2, <2>3, <2>4 DEF ScanInv
<1>6. CASE Woken
  <2>1. PageInOrder'
    <3> SUFFICES ASSUME PageInOrder, ~ stopped, intake # "startup",
                        NEW m \in page, m <= pos, TargetOf[m] \notin Agents
                 PROVE  Settled(m)'
      BY <1>1, <1>6 DEF ScanInv, PageInOrder, Woken
    <3>1. Settled(m) /\ TargetOf[m] \notin capBlocked
      BY <1>6 DEF PageInOrder, PageInv, Woken
    <3> QED
      BY <1>4, <1>6, <3>1 DEF Woken
  <2> QED
    BY <1>2, <1>6, <2>1 DEF ScanInv, Scanning, ScannedIsSettled, PageIsNext, DrainedIsSettled, Woken
<1>7. CASE Remembered \/ Completed
  BY <1>2, <1>7 DEF ScanInv, Scanning, PageInOrder, ScannedIsSettled, PageIsNext, DrainedIsSettled,
                    Remembered, Completed
<1> QED
  BY <1>5, <1>6, <1>7

\* The row the drain is done with is settled.
Finished == row'[Current] # "stored" \/ Target \in blocked'

LEMMA ScanGoesOn ==
  ASSUME PageInv, ScanInv, Ahead # {}, NextRow, RowsKept, run = "reading", run' = "reading",
         UNCHANGED <<intake, stopped>>,
         \/ owed' = owed /\ (woken' <=> woken) /\ blocked \subseteq blocked'
         \/ Woken,
         progress' = progress \/ progress',
         ~ stopped /\ intake # "startup" /\ Target \notin Agents => Finished,
         ~ stopped /\ intake = "open" /\ ~ woken' /\ ~ progress' => Finished
  PROVE  ScanInv'
<1> DEFINE c == Current
<1>1. UNCHANGED <<page, after>> /\ pos' = c /\ at' = "page"
  BY DEF NextRow
<1>2. /\ c \in page /\ Target = TargetOf[c]
      /\ \A m \in page : m <= c <=> m <= pos \/ m = c
  BY CurrentIsNext DEF PageInv, Target
<1>3. Known'
  BY <1>1 DEF ScanInv, Known, RowsKept, PageInv, Woken, Stored
<1>4. \A m \in page \union owed : row[m] # "absent" /\ m \in Msgs
  BY DEF ScanInv, Known, PageInv
<1>5. ASSUME NEW m \in page \union owed, Settled(m), TargetOf[m] \in blocked => TargetOf[m] \in blocked'
      PROVE  Settled(m)'
  BY <1>4, <1>5 DEF Settled, RowsKept
<1>6. Finished => row'[c] # "stored" \/ TargetOf[c] \in blocked'
  BY <1>2 DEF Finished
<1> HIDE DEF c
<1>7. PageInOrder'
  <2> SUFFICES ASSUME ~ stopped, intake # "startup",
                      NEW m \in page, m <= c, TargetOf[m] \notin Agents
               PROVE  Settled(m)'
    BY <1>1 DEF PageInOrder
  <2>1. CASE m = c
    BY <1>2, <1>6, <2>1 DEF Settled
  <2>2. CASE m <= pos
    <3>1. Settled(m) /\ TargetOf[m] \notin capBlocked
      BY <2>2 DEF ScanInv, PageInOrder, PageInv
    <3> QED
      BY <1>5, <3>1 DEF Woken
  <2> QED
    BY <1>2, <2>1, <2>2
<1>8. ScannedIsSettled' /\ PageIsNext'
  <2>1. CASE woken'
    BY <2>1 DEF Scanning, ScannedIsSettled, PageIsNext
  <2>2. CASE ~ woken'
    <3>1. owed' = owed /\ (woken' <=> woken) /\ blocked \subseteq blocked'
      BY <2>2 DEF Woken
    <3>2. ScannedIsSettled'
      <4> SUFFICES ASSUME Scanning', ~ progress', NEW m \in owed,
                          m <= after \/ (m \in page /\ m <= c)
                   PROVE  Settled(m)'
        BY <1>1, <3>1 DEF ScannedIsSettled
      <4>1. CASE m = c
        BY <1>6, <2>2, <4>1 DEF Settled, Scanning
      <4>2. CASE m <= after \/ (m \in page /\ m <= pos)
        <5>1. Scanning /\ ~ progress
          BY <3>1 DEF Scanning
        <5> QED
          BY <1>5, <3>1, <4>2, <5>1 DEF ScanInv, ScannedIsSettled
      <4> QED
        BY <1>2, <4>1, <4>2
    <3>3. PageIsNext'
      <4>1. Scanning' => Scanning /\ at \in OnPage
        <5>1. at \in OnPage
          BY DEF PageInv, Ahead
        <5> QED
          BY <3>1, <5>1 DEF Scanning
      <4> QED
        BY <1>1, <1>4, <3>1, <4>1 DEF ScanInv, PageIsNext, RowsKept
    <3> QED
      BY <3>2, <3>3
  <2> QED
    BY <2>1, <2>2
<1>9. DrainedIsSettled'
  BY DEF DrainedIsSettled
<1> QED
  BY <1>3, <1>7, <1>8, <1>9 DEF ScanInv

LEMMA RunEnds ==
  ASSUME PageInv, ScanInv, NEW outcome \in {"drained", "stopped"}, EndRun(outcome), RowsKept,
         outcome = "drained" /\ intake' = "open" /\ ~ pendingWake => \A m \in owed : Settled(m)'
  PROVE  ScanInv'
<1>1. /\ run' = "releasing" /\ result' = outcome /\ page' = {}
      /\ UNCHANGED <<pendingWake, owed, blocked>>
  BY DEF EndRun, ResetScan, wakeVars
<1>2. Known'
  BY <1>1 DEF ScanInv, Known, RowsKept
<1>3. DrainedIsSettled'
  BY <1>1 DEF DrainedIsSettled
<1> QED
  BY <1>1, <1>2, <1>3 DEF ScanInv, PageInOrder, Scanning, ScannedIsSettled, PageIsNext

LEMMA ScanBegins ==
  ASSUME PageInv, ScanInv, BeginScan, RowsKept, run = "reading"
  PROVE  ScanInv'
<1>1. /\ page' = {} /\ after' = 0 /\ at' = "scan"
      /\ UNCHANGED <<run, owed>> /\ run = "reading"
  BY DEF BeginScan, ResetScan, runVars
<1>2. Known'
  BY <1>1 DEF ScanInv, Known, RowsKept
<1>3. \A m \in owed : ~ (m <= 0)
  BY DEF ScanInv, Known, Msgs
<1> QED
  BY <1>1, <1>2, <1>3
  DEF ScanInv, PageInOrder, Scanning, ScannedIsSettled, PageIsNext, DrainedIsSettled, OnPage

LEMMA PageReadScan ==
  ASSUME PageInv, ScanInv, ReadPage
  PROVE  ScanInv'
<1>0. RowsKept
  BY DEF ReadPage, RowsKept, inboxVars
<1>1. CASE stopped
  BY <1>0, <1>1, RunEnds DEF ReadPage
<1>2. CASE ~ stopped
  <2>1. /\ run = "reading" /\ page' \subseteq Listed /\ IsNextPage(page') /\ pos' = 0
        /\ UNCHANGED <<row, after, progress, run, stopped, intake, owed, blocked, woken>>
        /\ page = {}
    BY <1>2 DEF ReadPage, runVars, wakeVars, inboxVars, PageInv, OnPage
  <2>2. Known'
    BY <2>1 DEF ScanInv, Known, Listed
  <2>3. \A m \in page' : ~ (m <= 0)
    BY <2>1 DEF Listed, Msgs
  <2>4. PageInOrder'
    BY <2>1, <2>3 DEF PageInOrder
  <2>5. ScannedIsSettled'
    BY <2>1, <2>3 DEF ScanInv, ScannedIsSettled, Scanning, Settled
  <2>6. PageIsNext'
    <3> SUFFICES ASSUME NEW m \in owed, row[m] = "stored", ~ (m <= after), m \notin page'
                 PROVE  Cardinality(page') = PageSize /\ \A n \in page' : n < m
      BY <2>1 DEF PageIsNext
    <3>1. m \in Listed \ page'
      <4>1. m \in Msgs /\ m \in Nat /\ after \in Nat
        BY DEF ScanInv, Known, Msgs, PageInv
      <4> QED
        BY <4>1 DEF Listed
    <3> QED
      BY <2>1, <3>1 DEF IsNextPage
  <2>7. DrainedIsSettled'
    BY <2>1 DEF DrainedIsSettled
  <2> QED
    BY <2>2, <2>4, <2>5, <2>6, <2>7 DEF ScanInv
<1> QED
  BY <1>1, <1>2

LEMMA PageEndScan ==
  ASSUME PageInv, ScanInv, EndPage
  PROVE  ScanInv'
<1>0. RowsKept /\ run = "reading" /\ intake' = intake /\ Ahead = {} /\ at = "page"
  BY DEF EndPage, RowsKept
<1>1. CASE EndRun("stopped")
  BY <1>0, <1>1, RunEnds
<1>2. CASE BeginScan
  BY <1>0, <1>2, ScanBegins
<1>3. \A m \in page : m <= pos
  BY <1>0 DEF Ahead, PageInv, Msgs
<1>4. ASSUME NEW m \in owed, row[m] = "stored", Scanning, ~ progress, ~ Settled(m)
      PROVE  m \notin page /\ ~ (m <= after) /\ Cardinality(page) = PageSize /\ \A n \in page : n < m
  <2>1. m \notin page /\ ~ (m <= after)
    BY <1>3, <1>4 DEF ScanInv, ScannedIsSettled
  <2> QED
    BY <1>0, <1>4, <2>1 DEF ScanInv, PageIsNext, OnPage
<1>5. \A m \in owed : Settled(m) /\ blocked' = blocked => Settled(m)'
  BY <1>0 DEF Settled, RowsKept, ScanInv, Known
<1>6. CASE ~ stopped /\ Cardinality(page) # PageSize /\ EndScan /\ ~ MustRescan
  <2>1. \A m \in owed : ~ woken /\ ~ progress /\ intake = "open" => Settled(m)
    BY <1>0, <1>4, <1>6 DEF Scanning, Settled
  <2>2. CASE EndRun("drained")
    <3>1. live = {} => ~ woken /\ ~ progress
      BY <1>6 DEF MustRescan
    <3>2. live = {} /\ blocked' = blocked
      BY <2>2, <1>6 DEF EndScan, EndRun, wakeVars, BeginScan, runVars
    <3>3. intake' = "open" => \A m \in owed : Settled(m)'
      BY <1>0, <1>5, <2>1, <3>1, <3>2
    <3> QED
      BY <1>0, <2>2, <3>3, RunEnds
  <2>3. CASE /\ at' = "wait" /\ page' = {} /\ pos' = 0
             /\ UNCHANGED <<after, progress, runVars, wakeVars>>
    <3>1. /\ UNCHANGED <<run, stopped, blocked, owed, woken, progress, after>>
      BY <2>3 DEF runVars, wakeVars
    <3>2. Known'
      BY <1>0, <2>3, <3>1 DEF ScanInv, Known, RowsKept
    <3>3. ScannedIsSettled'
      BY <1>0, <1>5, <2>1, <3>1 DEF ScannedIsSettled, Scanning
    <3> QED
      BY <1>0, <2>3, <3>1, <3>2, <3>3
      DEF ScanInv, PageInOrder, PageIsNext, DrainedIsSettled, OnPage
  <2> QED
    BY <1>6, <2>2, <2>3 DEF EndScan
<1>7. ASSUME ~ stopped, NEW expired \in SUBSET old, ReadOn(page \ expired)
      PROVE  ScanInv'
  <2> DEFINE left == page \ expired
  <2>1. /\ at' = "scan" /\ page' = {} /\ after' = IF left = {} THEN after ELSE Max(left)
        /\ UNCHANGED <<progress, run, stopped, blocked, owed, woken>>
    BY <1>7 DEF ReadOn, runVars, wakeVars
  <2>2. Known'
    BY <1>0, <2>1 DEF ScanInv, Known, RowsKept
  <2>3. ScannedIsSettled'
    <3> SUFFICES ASSUME Scanning, ~ progress, NEW m \in owed, m <= after'
                 PROVE  Settled(m)'
      BY <1>0, <2>1 DEF ScannedIsSettled, Scanning
    <3>1. CASE Settled(m)
      BY <1>5, <2>1, <3>1
    <3>2. CASE ~ Settled(m)
      <4>1. row[m] = "stored"
        BY <3>2 DEF Settled
      <4>2. m \notin page /\ ~ (m <= after) /\ \A n \in page : n < m
        BY <1>4, <3>2, <4>1
      <4>3. left # {} /\ after' = Max(left)
        BY <2>1, <4>2
      <4>4. left \in SUBSET Msgs
        BY DEF PageInv
      <4> HIDE DEF left
      <4>5. Max(left) \in left
        BY <4>3, <4>4, LastIs
      <4>6. Max(left) < m /\ Max(left) \in Nat /\ m \in Nat
        <5>1. Max(left) \in page
          BY <4>5 DEF left
        <5>2. Max(left) \in Msgs /\ m \in Msgs
          BY <4>4, <4>5 DEF ScanInv, Known
        <5>3. Msgs \subseteq Nat
          BY DEF Msgs
        <5> QED
          BY <4>2, <5>1, <5>2, <5>3
      <4> QED
        BY <4>3, <4>6
    <3> QED
      BY <3>1, <3>2
  <2> QED
    BY <1>0, <2>1, <2>2, <2>3 DEF ScanInv, PageInOrder, PageIsNext, DrainedIsSettled, OnPage
<1>8. EndRun("stopped") \/ (~ stopped /\ \E expired \in SUBSET old : ReadOn(page \ expired))
      \/ (~ stopped /\ Cardinality(page) # PageSize /\ EndScan)
  BY DEF EndPage
<1>9. EndScan => BeginScan \/ ~ MustRescan
  BY DEF EndScan
<1> QED
  BY <1>1, <1>2, <1>6, <1>7, <1>8, <1>9

LEMMA ScanStep == SlotInv /\ PageInv /\ ScanInv /\ [Next]_vars => ScanInv'
<1> SUFFICES ASSUME SlotInv, PageInv, ScanInv, [Next]_vars PROVE ScanInv'
  OBVIOUS
<1> USE DEF inboxVars, posterVars, runVars, wakeVars, slotVars, otherVars
<1>0. /\ at \in {"dispatch", "defer", "admit"} => Ahead # {}
      /\ at \in {"defer", "admit"} => Target \in Agents
      /\ run # "reading" => at = "scan"
      /\ row \in [Msgs -> {"absent", "stored", "delivered", "gone"}]
      /\ Ahead # {} => Current \in Msgs
  BY CurrentTyped DEF PageInv, SlotInv
<1> USE DEF Undisturbed, Woken, Remembered, Completed
<1>1. ASSUME NEW m \in Msgs, Store(m) PROVE ScanInv'
  <2>1. RowsKept
    BY <1>0, <1>1 DEF Store, RowsKept
  <2> QED
    BY <1>1, <2>1, ScanKept DEF Store
<1>r. row' = row => RowsKept
  BY DEF RowsKept
<1>b. ASSUME NEW retry \in BOOLEAN, BlockedAfterRetry(retry), run = "reading", run' = run
      PROVE  /\ Target \in blocked'
             /\ \/ Woken
                \/ owed' = owed /\ (woken' <=> woken) /\ blocked \subseteq blocked'
  <2>1. CASE retry = TRUE
    BY <1>b, <2>1 DEF BlockedAfterRetry
  <2>2. CASE retry = FALSE
    BY <1>b, <2>2 DEF BlockedAfterRetry
  <2> QED
    BY <2>1, <2>2
<1>2. ASSUME NEW m \in Msgs, Notify(m) PROVE ScanInv'
  <2>1. Undisturbed \/ Woken \/ Remembered
    BY <1>2 DEF Notify, Wake, WakeShard, WakeDrain
  <2> QED
    BY <1>2, <1>r, <2>1, ScanKept DEF Notify
<1>3. ASSUME NEW m \in Msgs, DrainMessage(m) PROVE ScanInv'
  <2>1. Undisturbed \/ Woken \/ Remembered
    BY <1>3 DEF DrainMessage, WakeShard, WakeDrain
  <2> QED
    BY <1>3, <1>r, <2>1, ScanKept DEF DrainMessage
<1>4. CASE Picked
  <2>1. CASE intake = "closing"
    <3>1. Completed
      BY <1>4, <2>1 DEF Picked, RunCompletes
    <3> QED
      BY <1>4, <1>r, <2>1, <3>1, ScanKept DEF Picked
  <2>2. CASE intake # "closing"
    <3>1. /\ run' = "reading" /\ page = {} /\ after = 0
          /\ UNCHANGED <<page, after, row, owed>> /\ at' = "scan"
      BY <1>0, <1>4, <2>2 DEF Picked, scanVars, PageInv
    <3>2. \A m \in owed : ~ (m <= 0)
      BY DEF ScanInv, Known, Msgs
    <3> QED
      BY <3>1, <3>2
      DEF ScanInv, Known, PageInOrder, ScannedIsSettled, PageIsNext, DrainedIsSettled, OnPage
  <2> QED
    BY <2>1, <2>2
<1>5. CASE ReadPage
  BY <1>5, PageReadScan
<1>6. CASE EndPage
  BY <1>6, PageEndScan
<1>7. CASE WaitingEnds
  BY <1>7, <1>r, ScanBegins DEF WaitingEnds
<1>8. CASE Released
  <2>1. Completed
    BY <1>8 DEF Released, RunCompletes
  <2> QED
    BY <1>8, <1>r, <2>1, ScanKept DEF Released
<1>9. CASE ProcessNext
  <2>1. CASE EndRun("stopped")
    BY <1>9, <1>r, <2>1, RunEnds DEF ProcessNext
  <2>2. CASE ~ stopped /\ Skipped(Current) /\ pos' = Current
             /\ UNCHANGED <<runVars, wakeVars, at, page, old, after, progress>>
    <3>1. NextRow /\ run = "reading" /\ Ahead # {} /\ intake' = intake /\ row' = row
      BY <1>9, <2>2 DEF ProcessNext, NextRow
    <3>2. intake # "startup" => Finished
      BY <2>2, <3>1 DEF Skipped, Accepts, Finished, PageInv, Target
    <3> QED
      BY <1>r, <2>2, <3>1, <3>2, ScanGoesOn
  <2>3. CASE /\ at' = "dispatch"
             /\ UNCHANGED <<runVars, pendingWake, woken, blocked, capBlocked, owed, page, old, pos,
                            after, progress>>
    BY <1>9, <2>3
    DEF ProcessNext, ScanInv, Known, PageInOrder, Scanning, ScannedIsSettled, PageIsNext,
        DrainedIsSettled, OnPage, Settled
  <2> QED
    BY <1>9, <2>1, <2>2, <2>3 DEF ProcessNext
<1>10. CASE NotCompleted
  <2>1. /\ NextRow /\ row' = row /\ run = "reading" /\ run' = run /\ intake' = intake /\ Ahead # {}
        /\ UNCHANGED <<stopped, owed, woken, blocked, progress>>
    BY <1>0, <1>10 DEF NotCompleted
  <2>2. stopped \/ intake = "startup"
    BY <1>10 DEF NotCompleted, Accepts
  <2> QED
    BY <1>r, <2>1, <2>2, ScanGoesOn
<1>11. CASE Acknowledged
  <2>1. /\ NextRow /\ RowsKept /\ run = "reading" /\ run' = run /\ intake' = intake /\ Ahead # {}
        /\ UNCHANGED <<stopped, owed, woken, blocked>> /\ progress' /\ Finished
    BY <1>0, <1>11 DEF Acknowledged, Dispatched, RowsKept, Finished
  <2> QED
    BY <2>1, ScanGoesOn
<1>12. CASE Defer
  BY <1>12
  DEF Defer, Dispatched, ScanInv, Known, PageInOrder, Scanning, ScannedIsSettled, PageIsNext,
      DrainedIsSettled, OnPage, Settled
<1>13. CASE Admit
  <2>1. /\ Undisturbed \/ Woken
        /\ run = "reading" /\ at = "dispatch" /\ at' = "admit"
        /\ UNCHANGED <<row, intake, stopped, page, pos, after, progress>>
    BY <1>13 DEF Admit, Dispatched, RetryDeferred, Wake, WakeShard, WakeDrain
  <2>2. CASE Undisturbed
    BY <2>1, <2>2
    DEF ScanInv, Known, PageInOrder, Scanning, ScannedIsSettled, PageIsNext, DrainedIsSettled,
        OnPage, Settled
  <2>3. CASE Woken
    BY <2>1, <2>3
    DEF ScanInv, Known, PageInOrder, Scanning, ScannedIsSettled, PageIsNext, DrainedIsSettled,
        Settled, Stored, PageInv
  <2> QED
    BY <2>1, <2>2, <2>3
<1>14. CASE RecordDeferred
  <2>1. /\ NextRow /\ row' = row /\ run = "reading" /\ run' = run /\ intake' = intake /\ Ahead # {}
        /\ UNCHANGED <<stopped, progress>> /\ Target \in Agents
        /\ \/ Woken
           \/ owed' = owed /\ woken' = woken /\ blocked' = blocked \union {Target}
    BY <1>0, <1>14 DEF RecordDeferred, WakeDrain
  <2> QED
    BY <1>r, <2>1, ScanGoesOn DEF Finished
<1>15. CASE AgentAcknowledged
  <2>1. /\ NextRow /\ RowsKept /\ run = "reading" /\ run' = run /\ intake' = intake /\ Ahead # {}
        /\ UNCHANGED <<stopped, owed, woken, blocked>> /\ progress' /\ Finished
    BY <1>0, <1>15 DEF AgentAcknowledged, RowsKept, Finished
  <2> QED
    BY <2>1, ScanGoesOn
<1>16. CASE AgentDiscarded
  <2>1. /\ NextRow /\ row' = row /\ run = "reading" /\ run' = run /\ intake' = intake /\ Ahead # {}
        /\ UNCHANGED <<stopped, owed, woken, blocked, progress>> /\ stopped
    BY <1>0, <1>16 DEF AgentDiscarded
  <2> QED
    BY <1>r, <2>1, ScanGoesOn
<1>17. CASE NotPicked
  <2>1. Completed
    BY <1>17 DEF NotPicked, RunCompletes
  <2> QED
    BY <1>17, <1>r, <2>1, ScanKept DEF NotPicked
<1>18. CASE RunThrows
  BY <1>18
  DEF RunThrows, ResetScan, ScanInv, Known, PageInOrder, Scanning, ScannedIsSettled, PageIsNext,
      DrainedIsSettled
<1>19. CASE AckExhausted
  <2>1. /\ NextRow /\ row' = row /\ run = "reading" /\ run' = run /\ intake' = intake /\ Ahead # {}
        /\ UNCHANGED <<stopped, owed, woken, progress>> /\ blocked' = blocked \union {Target}
    BY <1>0, <1>19 DEF AckExhausted, Dispatched
  <2> QED
    BY <1>r, <2>1, ScanGoesOn DEF Finished
<1>20. CASE AdmitFails
  <2>1. /\ NextRow /\ row' = row /\ run = "reading" /\ run' = run /\ intake' = intake /\ Ahead # {}
        /\ UNCHANGED <<stopped, progress>>
        /\ \E retry \in BOOLEAN : BlockedAfterRetry(retry)
    BY <1>0, <1>20 DEF AdmitFails, Dispatched, BlockedAfterRetry
  <2> QED
    BY <1>r, <2>1, <1>b, ScanGoesOn DEF Finished
<1>21. CASE AgentAckExhausted
  <2>1. /\ NextRow /\ row' = row /\ run = "reading" /\ run' = run /\ intake' = intake /\ Ahead # {}
        /\ UNCHANGED <<stopped, progress>>
        /\ \E retry \in BOOLEAN : BlockedAfterRetry(retry)
    BY <1>0, <1>21 DEF AgentAckExhausted, BlockedAfterRetry
  <2> QED
    BY <1>r, <2>1, <1>b, ScanGoesOn DEF Finished
<1>22. CASE SessionLost
  <2>1. Woken /\ stopped'
    BY <1>22 DEF SessionLost, StopDrain, WakeDrain
  <2> QED
    BY <1>22, <1>r, <2>1, ScanKept DEF SessionLost
<1>23. ASSUME NEW t \in Agents, AgentEnds(t) PROVE ScanInv'
  <2>1. Undisturbed \/ Woken \/ Remembered
    BY <1>23 DEF AgentEnds, RetryDeferred, Wake, WakeShard, WakeDrain
  <2> QED
    BY <1>23, <1>r, <2>1, ScanKept DEF AgentEnds
<1>24. CASE OtherStarts
  BY <1>24, <1>r, ScanKept DEF OtherStarts
<1>25. CASE OtherEnds
  <2>1. Undisturbed \/ Woken \/ Remembered
    BY <1>25 DEF OtherEnds, RetryDeferred, Wake, WakeShard, WakeDrain
  <2> QED
    BY <1>25, <1>r, <2>1, ScanKept DEF OtherEnds
<1>26. CASE BeginStartupDrain
  BY <1>26, <1>r, ScanKept DEF BeginStartupDrain
<1>27. CASE BeginClose
  <2>1. Undisturbed \/ Woken
    BY <1>27 DEF BeginClose, StopDrain, WakeDrain
  <2>2. (run' = "reading" => stopped') /\ (stopped => stopped')
    BY <1>27 DEF BeginClose, StopDrain, WakeDrain
  <2> QED
    BY <1>27, <1>r, <2>1, <2>2, ScanKept DEF BeginClose
<1>28. CASE UNCHANGED vars
  BY <1>28, <1>r, ScanKept DEF vars
<1> QED
  BY <1>1, <1>2, <1>3, <1>4, <1>5, <1>6, <1>7, <1>8, <1>9, <1>10, <1>11, <1>12, <1>13, <1>14,
     <1>15, <1>16, <1>17, <1>18, <1>19, <1>20, <1>21, <1>22, <1>23, <1>24, <1>25, <1>26, <1>27,
     <1>28 DEF Next, RunStep, FaultStep

LEMMA ScanInductive == Spec => [](SlotInv /\ PageInv /\ ScanInv)
<1>1. Init => SlotInv /\ PageInv /\ ScanInv
  BY SlotInit, PageInit, ScanInit
<1>2. SlotInv /\ PageInv /\ ScanInv /\ [Next]_vars => (SlotInv /\ PageInv /\ ScanInv)'
  BY SlotStep, PageStep, ScanStep
<1> QED
  BY <1>1, <1>2, PTL DEF Spec

\* The rows of an entity on one page are delivered in its order, on pages of any
\* size and whatever fails (#processMessage, #completeAttempt).
THEOREM DeliveryKeepsOrder == Spec => InOrderPerEntity
<1> DEFINE InOrder ==
      \A m, n \in page :
       m < n /\ TargetOf[m] = TargetOf[n] /\ TargetOf[m] \notin Agents
             /\ row[n] = "stored" /\ row'[n] = "delivered" /\ ~ stopped
         => row[m] # "stored" \/ intake = "startup"
<1>1. PageInv /\ ScanInv /\ [Next]_vars => [InOrder]_vars
  <2> SUFFICES ASSUME PageInv, ScanInv, Next,
                      NEW m \in page, NEW n \in page, m < n, TargetOf[m] = TargetOf[n],
                      TargetOf[m] \notin Agents, row[n] = "stored", row'[n] = "delivered",
                      ~ stopped, intake # "startup"
               PROVE  row[m] # "stored"
    OBVIOUS
  <2>0. row \in [Msgs -> {"absent", "stored", "delivered", "gone"}] /\ n \in Msgs
    BY DEF PageInv
  <2>1. Acknowledged /\ n = Current
    <3>1. row'[n] # row[n]
      OBVIOUS
    <3>2. (\E k \in Msgs : Store(k)) \/ EndPage \/ Acknowledged \/ AgentAcknowledged
      BY <3>1 DEF Next, RunStep, FaultStep, Notify, DrainMessage, Picked, ReadPage, WaitingEnds,
         Released, ProcessNext, NotCompleted, Defer, Admit, RecordDeferred, AgentDiscarded,
         NotPicked, RunThrows, AckExhausted, AdmitFails, AgentAckExhausted, SessionLost,
         AgentEnds, OtherStarts, OtherEnds, BeginStartupDrain, BeginClose, inboxVars
    <3>3. ~ EndPage
      BY <2>0 DEF EndPage
    <3>4. ASSUME NEW k \in Msgs, Store(k) PROVE FALSE
      BY <2>0, <3>4 DEF Store
    <3>5. AgentAcknowledged \/ Acknowledged => Ahead # {} /\ n = Current
      BY <2>0 DEF AgentAcknowledged, Acknowledged, Dispatched, PageInv
    <3>6. ~ AgentAcknowledged
      BY <3>5 DEF AgentAcknowledged, PageInv, Target
    <3> QED
      BY <3>2, <3>3, <3>4, <3>5, <3>6
  <2>2. Ahead # {} /\ Target \notin blocked /\ run = "reading"
    BY <2>1 DEF Acknowledged, Dispatched, PageInv
  <2>3. m <= pos
    BY <2>1, <2>2, CurrentIsNext DEF PageInv, Msgs
  <2> QED
    BY <2>1, <2>2, <2>3 DEF ScanInv, PageInOrder, Settled, Target
<1> QED
  BY <1>1, ScanInductive, PTL DEF InOrderPerEntity, Spec

\* A run that ends drained leaves no row behind that it was woken for, but
\* those of entities it holds back (#endScan, #readPages, #startShared).
THEOREM DrainedRunsDelivered == Spec => DrainedMeansDelivered
<1> DEFINE Delivered ==
      run = "releasing" /\ run' # "releasing" /\ result' = "drained" /\ intake = "open"
       => \A m \in owed \ owed' : row[m] # "stored" \/ TargetOf[m] \in blocked
<1>1. SlotInv /\ PageInv /\ ScanInv /\ [Next]_vars => [Delivered]_vars
  <2> SUFFICES ASSUME ScanInv, Next, run = "releasing", run' # "releasing", result' = "drained",
                      intake = "open", NEW m \in owed \ owed', row[m] = "stored"
               PROVE  TargetOf[m] \in blocked
    OBVIOUS
  <2>1. Released
    BY DEF Next, RunStep, FaultStep, Store, Notify, DrainMessage, Picked, ReadPage, EndPage,
       WaitingEnds, ProcessNext, NotCompleted, Acknowledged, AgentAcknowledged, Defer, Admit,
       RecordDeferred, AgentDiscarded, NotPicked, RunThrows, AckExhausted, AdmitFails,
       AgentAckExhausted, SessionLost, AgentEnds, OtherStarts, OtherEnds, BeginStartupDrain,
       BeginClose, RetryDeferred, Wake, WakeShard, WakeDrain, StopDrain, Dispatched,
       runVars, wakeVars
  <2>2. RunCompletes("drained") /\ result = "drained"
    BY <2>1 DEF Released, RunCompletes
  <2>3. ~ pendingWake
    BY <2>2 DEF RunCompletes, Hears, Stored, ScanInv, Known
  <2> QED
    BY <2>2, <2>3 DEF ScanInv, DrainedIsSettled, Settled
<1> QED
  BY <1>1, ScanInductive, PTL DEF DrainedMeansDelivered, Spec
=============================================================================
