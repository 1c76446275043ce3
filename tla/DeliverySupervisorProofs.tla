---------------------- MODULE DeliverySupervisorProofs ----------------------
(***************************************************************************)
(* Proofs about DeliverySupervisor for every number of shards, every limit *)
(* and every number of faults.                                             *)
(***************************************************************************)
EXTENDS DeliverySupervisor, FiniteSetTheorems, WellFoundedInduction, TLAPS

\* What close() has made sure of in each of its phases.
CloseInv ==
  /\ phase \in {"open", "grace", "release", "drain", "failed", "closed"}
  /\ phase = "release" => closeConfirms
  /\ phase = "drain" => active = {} \/ "drain" \in idle
  /\ phase = "drain" /\ ~ releaseError => releaseConfirmed

Booleans ==
  /\ recoveryTimer \in BOOLEAN /\ watchTimer \in BOOLEAN
  /\ closeConfirms \in BOOLEAN /\ releaseConfirmed \in BOOLEAN /\ releaseError \in BOOLEAN

SupervisorInv == Booleans /\ CloseInv /\ RecoveryAlive /\ ClosedIsQuiet

\* Steps of recovery and of the watch leave close() alone.
CloseKept ==
  /\ UNCHANGED <<phase, closeConfirms, releaseConfirmed, releaseError>>
  /\ phase # "open" => UNCHANGED <<recoveryTimer, watchTimer, pending>>

\* What #recover() does to the attempt: its continuations wait for one.
LEMMA RecoverEffect ==
  ASSUME NEW who, Recover(who)
  PROVE  /\ onRecovered' = onRecovered \union who
         /\ recovery' # "none"
         /\ UNCHANGED <<closeConfirms, releaseConfirmed, releaseError>>
BY DEF Recover

\* A step that neither closes nor settles a run keeps what close() promises.
LEMMA QuietKept ==
  ASSUME SupervisorInv, CloseKept, phase # "open" => active' = active, idle' = idle
  PROVE  CloseInv' /\ ClosedIsQuiet'
BY DEF SupervisorInv, CloseKept, CloseInv, ClosedIsQuiet, Booleans

LEMMA StartStep ==
  ASSUME SupervisorInv, Start
  PROVE  SupervisorInv'
<1>1. /\ CloseKept /\ active' = active /\ idle' = idle /\ phase = "open"
      /\ recoveryTimer' = recoveryTimer /\ watchTimer' = watchTimer
      /\ "start" \in onRecovered' /\ recovery' # "none"
  BY RecoverEffect DEF Start, CloseKept, timerVars, queueVars
<1>2. CloseInv' /\ ClosedIsQuiet'
  BY <1>1, QuietKept
<1> QED
  BY <1>1, <1>2 DEF SupervisorInv, Booleans, CloseKept, RecoveryAlive

LEMMA SnapshotStep ==
  ASSUME SupervisorInv, SnapshotAnswers \/ SnapshotFails \/ SnapshotApplied
  PROVE  SupervisorInv'
<1>1. /\ CloseKept /\ (phase # "open" => active' = active) /\ idle' = idle
      /\ started' = started /\ recoveryTimer' = recoveryTimer /\ watchTimer' = watchTimer
      /\ onRecovered' = onRecovered /\ recovery' # "none"
  BY DEF SnapshotAnswers, SnapshotFails, SnapshotApplied, CloseKept, timerVars, queueVars,
         releaseVars, Accepting
<1>2. CloseInv' /\ ClosedIsQuiet'
  BY <1>1, QuietKept
<1> QED
  BY <1>1, <1>2 DEF SupervisorInv, Booleans, CloseKept, RecoveryAlive, Accepting

LEMMA RecoverySettlesStep ==
  ASSUME SupervisorInv, RecoverySettles
  PROVE  SupervisorInv'
<1>1. /\ CloseKept /\ active' = active /\ idle' = idle /\ started' = started
      /\ onRecovered' = {} /\ phase' = phase
  BY DEF RecoverySettles, CloseKept, timerVars, queueVars, releaseVars
<1>2. CloseInv' /\ ClosedIsQuiet'
  BY <1>1, QuietKept
<1>3. recoveryTimer' \in BOOLEAN /\ watchTimer' \in BOOLEAN
  BY DEF RecoverySettles, SupervisorInv, Booleans, timerVars
<1>4. Accepting' => recoveryTimer'
  <2> DEFINE kept == recoveryTimer \/ onRecovered \intersect {"start", "periodic"} # {}
  <2>1. Accepting' => phase = "open" /\ kept
    BY <1>1 DEF SupervisorInv, RecoveryAlive, Accepting
  <2>2. phase = "open" => recoveryTimer' = kept
    BY DEF RecoverySettles
  <2> HIDE DEF kept
  <2> QED
    BY <2>1, <2>2
<1> QED
  BY <1>1, <1>2, <1>3, <1>4 DEF SupervisorInv, Booleans, CloseKept, RecoveryAlive

LEMMA TimerStep ==
  ASSUME SupervisorInv, PeriodicFires \/ WatchTimerFires
  PROVE  SupervisorInv'
<1>1. phase = "open"
  BY DEF PeriodicFires, WatchTimerFires, SupervisorInv, ClosedIsQuiet
<1>2. CASE PeriodicFires
  <2>1. /\ UNCHANGED <<phase, started, active, idle, watchTimer>> /\ recoveryTimer' = FALSE
        /\ Recover({"periodic"})
    BY <1>2 DEF PeriodicFires, queueVars
  <2>2. CloseKept /\ "periodic" \in onRecovered' /\ recovery' # "none"
    BY <1>1, <2>1, RecoverEffect DEF CloseKept
  <2>3. CloseInv' /\ ClosedIsQuiet'
    BY <2>1, <2>2, QuietKept
  <2> QED
    BY <2>1, <2>2, <2>3 DEF SupervisorInv, Booleans, CloseKept, RecoveryAlive
<1>3. CASE WatchTimerFires
  <2>1. /\ UNCHANGED <<phase, started, active, idle, recoveryTimer>> /\ watchTimer' = FALSE
        /\ Recover({"watch"})
    BY <1>3 DEF WatchTimerFires, queueVars
  <2>2. CloseKept /\ onRecovered \subseteq onRecovered' /\ recovery' # "none"
    BY <1>1, <2>1, RecoverEffect DEF CloseKept
  <2>3. CloseInv' /\ ClosedIsQuiet'
    BY <2>1, <2>2, QuietKept
  <2> QED
    BY <2>1, <2>2, <2>3 DEF SupervisorInv, Booleans, CloseKept, RecoveryAlive, Accepting
<1> QED
  BY <1>2, <1>3

LEMMA NotificationStep ==
  ASSUME SupervisorInv, NEW k \in Shards,
         PostLocal(k) \/ PostRemote(k) \/ WatchUpdate(k) \/ WatchEnds
  PROVE  SupervisorInv'
<1>1. /\ CloseKept /\ (phase # "open" => active' = active) /\ idle' = idle
      /\ started' = started /\ recoveryTimer' = recoveryTimer /\ watchTimer' \in BOOLEAN
      /\ onRecovered' = onRecovered /\ recovery' = recovery
  BY DEF PostLocal, PostRemote, WatchUpdate, WatchEnds, CloseKept, timerVars, queueVars,
         releaseVars, recoverVars, Accepting, SupervisorInv, Booleans
<1>2. CloseInv' /\ ClosedIsQuiet'
  BY <1>1, QuietKept
<1> QED
  BY <1>1, <1>2 DEF SupervisorInv, Booleans, CloseKept, RecoveryAlive, Accepting

\* The idle waiters of close() are resolved only when no run is left.
LEMMA RunSettlesStep ==
  ASSUME SupervisorInv, NEW k \in Shards, NEW outcome, RunSettles(k, outcome)
  PROVE  SupervisorInv'
<1>1. /\ UNCHANGED <<phase, started, recoveryTimer, watchTimer>> /\ k \in active /\ SettleIdle
      /\ phase # "open" => active' = active \ {k} /\ UNCHANGED <<pending, recoverVars, releaseVars>>
  BY DEF RunSettles, timerVars
<1>2. /\ UNCHANGED <<closeConfirms, releaseConfirmed, releaseError>>
      /\ onRecovered' = onRecovered
      /\ recovery' # "none" \/ recovery' = recovery
  <2>1. Recover({}) \/ UNCHANGED <<recoverVars, releaseVars>>
    BY DEF RunSettles
  <2>2. ASSUME Recover({})
        PROVE  /\ UNCHANGED <<closeConfirms, releaseConfirmed, releaseError>>
               /\ onRecovered' = onRecovered /\ recovery' # "none"
    BY <2>2, RecoverEffect
  <2> QED
    BY <2>1, <2>2 DEF recoverVars, releaseVars
<1>3. RecoveryAlive' /\ Booleans'
  BY <1>1, <1>2 DEF SupervisorInv, Booleans, RecoveryAlive, Accepting
<1>4. ClosedIsQuiet'
  BY <1>1, <1>2 DEF SupervisorInv, ClosedIsQuiet
<1>5. CloseInv'
  BY <1>1, <1>2 DEF SupervisorInv, CloseInv, SettleIdle
<1> QED
  BY <1>3, <1>4, <1>5 DEF SupervisorInv

LEMMA WhenIdleStep ==
  ASSUME SupervisorInv, WhenIdle
  PROVE  SupervisorInv'
BY DEF WhenIdle, SupervisorInv, Booleans, CloseInv, RecoveryAlive, ClosedIsQuiet, Accepting,
       queueVars, recoverVars, timerVars, releaseVars

\* The phases that close() enters once the runs were given their time.
LEMMA EnterDrainKeeps ==
  ASSUME NEW error \in BOOLEAN, EnterDrain(error), releaseConfirmed' \in BOOLEAN,
         active' = active, ~ error => releaseConfirmed',
         ~ recoveryTimer', ~ watchTimer', pending' = <<>>
  PROVE  CloseInv' /\ ClosedIsQuiet' /\ releaseError' \in BOOLEAN /\ phase' # "open"
BY DEF EnterDrain, CloseInv, ClosedIsQuiet

LEMMA EnterReleaseKeeps ==
  ASSUME SupervisorInv, EnterRelease, active' = active,
         ~ recoveryTimer', ~ watchTimer', pending' = <<>>
  PROVE  /\ CloseInv' /\ ClosedIsQuiet' /\ phase' # "open"
         /\ releaseError' \in BOOLEAN /\ closeConfirms' \in BOOLEAN /\ releaseConfirmed' \in BOOLEAN
<1>1. CASE releaseConfirmed /\ EnterDrain(FALSE)
           /\ UNCHANGED <<releasing, closeConfirms, releaseConfirmed>>
  BY <1>1, EnterDrainKeeps DEF SupervisorInv, Booleans
<1>2. CASE /\ phase' = "release" /\ closeConfirms' = TRUE /\ releaseError' = FALSE
           /\ UNCHANGED <<idle, releaseConfirmed>>
  BY <1>2 DEF SupervisorInv, Booleans, CloseInv, ClosedIsQuiet
<1> QED
  BY <1>1, <1>2 DEF EnterRelease

LEMMA CloseStep ==
  ASSUME SupervisorInv, Close
  PROVE  SupervisorInv'
<1>1. /\ pending' = <<>> /\ recoveryTimer' = FALSE /\ watchTimer' = FALSE /\ active' = active
      /\ onRecovered' = onRecovered /\ recovery' = recovery
  BY DEF Close, recoverVars
<1>2. CASE active # {} /\ phase' = "grace" /\ UNCHANGED releaseVars
  BY <1>1, <1>2
  DEF SupervisorInv, Booleans, CloseInv, ClosedIsQuiet, RecoveryAlive, Accepting, releaseVars
<1>3. CASE EnterRelease
  BY <1>1, <1>3, EnterReleaseKeeps
  DEF SupervisorInv, Booleans, RecoveryAlive, Accepting
<1> QED
  BY <1>2, <1>3 DEF Close

LEMMA GraceEndsStep ==
  ASSUME SupervisorInv, GraceEnds
  PROVE  SupervisorInv'
<1>1. /\ EnterRelease /\ active' = active /\ pending' = <<>>
      /\ recoveryTimer' = FALSE /\ watchTimer' = FALSE
      /\ onRecovered' = onRecovered /\ recovery' = recovery
  BY DEF GraceEnds, SupervisorInv, ClosedIsQuiet, Booleans, queueVars, timerVars, recoverVars
<1> QED
  BY <1>1, EnterReleaseKeeps DEF SupervisorInv, Booleans, RecoveryAlive, Accepting

LEMMA ReleaseStep ==
  ASSUME SupervisorInv, ReleaseTimesOut \/ \E ok \in BOOLEAN : ReleaseAnswers(ok)
  PROVE  SupervisorInv'
<1>1. CASE ReleaseTimesOut
  <2>1. /\ EnterDrain(TRUE) /\ active' = active /\ pending' = <<>>
        /\ recoveryTimer' = FALSE /\ watchTimer' = FALSE
        /\ onRecovered' = onRecovered /\ recovery' = recovery
        /\ closeConfirms' = closeConfirms /\ releaseConfirmed' = releaseConfirmed
    BY <1>1
    DEF ReleaseTimesOut, SupervisorInv, ClosedIsQuiet, Booleans, queueVars, timerVars, recoverVars
  <2> QED
    BY <2>1, EnterDrainKeeps DEF SupervisorInv, Booleans, RecoveryAlive, Accepting
<1>2. ASSUME NEW ok \in BOOLEAN, ReleaseAnswers(ok)
      PROVE  SupervisorInv'
  <2>1. /\ UNCHANGED <<started, active, pending, recoveryTimer, watchTimer, onRecovered>>
        /\ closeConfirms' = FALSE
        /\ releaseConfirmed' = (releaseConfirmed \/ (closeConfirms /\ ok))
        /\ onRecovered # {} => recovery' # "none"
    BY <1>2 DEF ReleaseAnswers, queueVars, timerVars, SupervisorInv, RecoveryAlive
  <2>2. CASE phase = "release"
    <3>1. EnterDrain(~ ok) /\ (~ (~ ok) => releaseConfirmed')
      BY <1>2, <2>1, <2>2 DEF ReleaseAnswers, SupervisorInv, CloseInv
    <3>2. ~ recoveryTimer' /\ ~ watchTimer' /\ pending' = <<>> /\ releaseConfirmed' \in BOOLEAN
      BY <2>1, <2>2 DEF SupervisorInv, ClosedIsQuiet, Booleans
    <3>3. (~ ok) \in BOOLEAN
      OBVIOUS
    <3>4. CloseInv' /\ ClosedIsQuiet' /\ releaseError' \in BOOLEAN /\ phase' # "open"
      BY <2>1, <3>1, <3>2, <3>3, EnterDrainKeeps
    <3> QED
      BY <2>1, <3>2, <3>4 DEF SupervisorInv, Booleans, RecoveryAlive, Accepting
  <2>3. CASE phase # "release"
    <3>1. UNCHANGED <<phase, idle, releaseError>>
      BY <1>2, <2>3 DEF ReleaseAnswers
    <3> QED
      BY <2>1, <2>3, <3>1
      DEF SupervisorInv, Booleans, CloseInv, ClosedIsQuiet, RecoveryAlive, Accepting
  <2> QED
    BY <2>2, <2>3
<1> QED
  BY <1>1, <1>2

LEMMA DrainEndsStep ==
  ASSUME SupervisorInv, DrainEnds
  PROVE  SupervisorInv'
BY DEF DrainEnds, SupervisorInv, Booleans, CloseInv, RecoveryAlive, ClosedIsQuiet, Accepting,
       queueVars, recoverVars, timerVars, releaseVars

LEMMA InitialSupervisor == Init => SupervisorInv
BY DEF Init, SupervisorInv, Booleans, CloseInv, RecoveryAlive, ClosedIsQuiet, Accepting

LEMMA NextKeepsSupervisor == SupervisorInv /\ [Next]_vars => SupervisorInv'
<1> SUFFICES ASSUME SupervisorInv, [Next]_vars PROVE SupervisorInv'
  OBVIOUS
<1>1. CASE Start \/ SnapshotAnswers \/ SnapshotFails \/ SnapshotApplied
  BY <1>1, StartStep, SnapshotStep
<1>2. CASE RecoverySettles \/ PeriodicFires \/ WatchTimerFires
  BY <1>2, RecoverySettlesStep, TimerStep
<1>3. CASE WhenIdle \/ Close \/ GraceEnds \/ DrainEnds
  BY <1>3, WhenIdleStep, CloseStep, GraceEndsStep, DrainEndsStep
<1>4. CASE ReleaseTimesOut \/ ReleaseAnswers(TRUE) \/ ReleaseAnswers(FALSE)
  BY <1>4, ReleaseStep
<1>5. CASE WatchEnds
  <2>1. 1 \in Shards
    BY SupervisorAssumption DEF Shards
  <2> QED
    BY <1>5, <2>1, NotificationStep
<1>6. ASSUME NEW k \in Shards, PostLocal(k) \/ PostRemote(k) \/ WatchUpdate(k)
      PROVE  SupervisorInv'
  BY <1>6, NotificationStep
<1>7. ASSUME NEW k \in Shards, NEW outcome \in Outcomes, RunSettles(k, outcome)
      PROVE  SupervisorInv'
  BY <1>7, RunSettlesStep
<1>8. CASE UNCHANGED vars
  BY <1>8
  DEF vars, SupervisorInv, Booleans, CloseInv, RecoveryAlive, ClosedIsQuiet, Accepting,
      queueVars, recoverVars, timerVars, releaseVars
<1> QED
  BY <1>1, <1>2, <1>3, <1>4, <1>5, <1>6, <1>7, <1>8 DEF Next, Remote, Internal

-----------------------------------------------------------------------------
(* The theorems.                                                           *)

THEOREM SupervisorInvariance == Spec => []SupervisorInv
BY InitialSupervisor, NextKeepsSupervisor, PTL DEF Spec

\* A started supervisor keeps a recovery timer or an attempt that will set it
\* again, whatever fails (#scheduleRecovery, #recover).
THEOREM RecoveryStaysAlive == Spec => []RecoveryAlive
<1>1. SupervisorInv => RecoveryAlive
  BY DEF SupervisorInv
<1> QED
  BY <1>1, SupervisorInvariance, PTL

\* close() leaves no timer and no queued shard behind, and is complete only
\* when no run is left and expired sessions are known to be released.
THEOREM CloseIsQuiet == Spec => []ClosedIsQuiet
<1>1. SupervisorInv => ClosedIsQuiet
  BY DEF SupervisorInv
<1> QED
  BY <1>1, SupervisorInvariance, PTL

-----------------------------------------------------------------------------
(* The admission queue.                                                    *)

LEMMA LeastNatural ==
  ASSUME NEW S \in SUBSET Nat, S # {}
  PROVE  \E x \in S : \A y \in S : x <= y
<1>1. PICK x \in S : \A y \in S : ~ (<<y, x>> \in OpToRel(<, Nat))
  BY NatLessThanWellFounded, WFMin
<1>2. \A y \in S : ~ (y < x)
  BY <1>1 DEF OpToRel
<1> QED
  BY <1>2

\* Rest of Without, as a relation.
Filters(F, s, gone, n) ==
  F = [i \in 0 .. n |->
        IF i = 0 THEN <<>>
        ELSE IF s[i].shard \in gone THEN F[i - 1] ELSE Append(F[i - 1], s[i])]

LEMMA FilterExists ==
  ASSUME NEW s, NEW gone, NEW n \in Nat
  PROVE  \E F : Filters(F, s, gone, n)
<1> DEFINE Bad == {m \in Nat : ~ \E F : Filters(F, s, gone, m)}
<1> SUFFICES ASSUME Bad # {} PROVE FALSE
  OBVIOUS
<1>1. PICK m \in Bad : \A x \in Bad : m <= x
  BY LeastNatural
<1>2. m # 0
  <2> DEFINE F == [i \in 0 .. 0 |-> <<>>]
  <2>1. Filters(F, s, gone, 0)
    BY DEF Filters
  <2> QED
    BY <1>1, <2>1
<1>3. m - 1 \in Nat /\ m - 1 \notin Bad
  BY <1>1, <1>2
<1>4. PICK F : Filters(F, s, gone, m - 1)
  BY <1>3
<1> DEFINE G == [i \in 0 .. m |-> IF i < m THEN F[i]
                 ELSE IF s[m].shard \in gone THEN F[m - 1] ELSE Append(F[m - 1], s[m])]
<1>5. ASSUME NEW i \in 0 .. m
      PROVE  G[i] = IF i = 0 THEN <<>>
                    ELSE IF s[i].shard \in gone THEN G[i - 1] ELSE Append(G[i - 1], s[i])
  <2>1. CASE i = m
    BY <1>2, <2>1
  <2>2. CASE i < m
    <3>1. i \in 0 .. m - 1 /\ (i # 0 => i - 1 \in 0 .. m /\ i - 1 < m)
      BY <2>2
    <3>2. F[i] = IF i = 0 THEN <<>>
                 ELSE IF s[i].shard \in gone THEN F[i - 1] ELSE Append(F[i - 1], s[i])
      BY <1>4, <3>1 DEF Filters
    <3>3. G[i] = F[i] /\ (i # 0 => G[i - 1] = F[i - 1])
      BY <2>2, <3>1
    <3> HIDE DEF G
    <3> QED
      BY <3>2, <3>3
  <2> QED
    BY <2>1, <2>2
<1>6. Filters(G, s, gone, m)
  BY <1>5 DEF Filters
<1> QED
  BY <1>1, <1>6

LEMMA WithoutFilters ==
  ASSUME NEW s, NEW gone, Len(s) \in Nat
  PROVE  \E F : Filters(F, s, gone, Len(s)) /\ Without(s, gone) = F[Len(s)]
<1> DEFINE F == CHOOSE G : Filters(G, s, gone, Len(s))
<1>1. Filters(F, s, gone, Len(s))
  BY FilterExists
<1>2. Without(s, gone) = F[Len(s)]
  BY Zenon DEF Without, Filters
<1> QED
  BY <1>1, <1>2

AdmitsUpto(F, n) ==
  F = [i \in 0 .. n |->
        IF i = 0 THEN Queue
        ELSE IF i \in snapshot THEN AdmitObserved(F[i - 1], i) ELSE F[i - 1]]

LEMMA AdmitsExists ==
  ASSUME NEW n \in Nat
  PROVE  \E F : AdmitsUpto(F, n)
<1> DEFINE Bad == {m \in Nat : ~ \E F : AdmitsUpto(F, m)}
<1> SUFFICES ASSUME Bad # {} PROVE FALSE
  OBVIOUS
<1>1. PICK m \in Bad : \A x \in Bad : m <= x
  BY LeastNatural
<1>2. m # 0
  <2> DEFINE F == [i \in 0 .. 0 |-> Queue]
  <2>1. AdmitsUpto(F, 0)
    BY DEF AdmitsUpto
  <2> QED
    BY <1>1, <2>1
<1>3. m - 1 \in Nat /\ m - 1 \notin Bad
  BY <1>1, <1>2
<1>4. PICK F : AdmitsUpto(F, m - 1)
  BY <1>3
<1> DEFINE G == [i \in 0 .. m |-> IF i < m THEN F[i]
                 ELSE IF m \in snapshot THEN AdmitObserved(F[m - 1], m) ELSE F[m - 1]]
<1>5. ASSUME NEW i \in 0 .. m
      PROVE  G[i] = IF i = 0 THEN Queue
                    ELSE IF i \in snapshot THEN AdmitObserved(G[i - 1], i) ELSE G[i - 1]
  <2>1. CASE i = m
    BY <1>2, <2>1
  <2>2. CASE i < m
    <3>1. i \in 0 .. m - 1 /\ (i # 0 => i - 1 \in 0 .. m /\ i - 1 < m)
      BY <2>2
    <3>2. F[i] = IF i = 0 THEN Queue
                 ELSE IF i \in snapshot THEN AdmitObserved(F[i - 1], i) ELSE F[i - 1]
      BY <1>4, <3>1 DEF AdmitsUpto
    <3>3. G[i] = F[i] /\ (i # 0 => G[i - 1] = F[i - 1])
      BY <2>2, <3>1
    <3> HIDE DEF G
    <3> QED
      BY <3>2, <3>3
  <2> QED
    BY <2>1, <2>2
<1>6. AdmitsUpto(G, m)
  BY <1>5 DEF AdmitsUpto
<1> QED
  BY <1>1, <1>6

LEMMA AdmittedIs == AdmitsUpto(Admitted, NumShards)
<1>1. Admitted = CHOOSE F : AdmitsUpto(F, NumShards)
  BY Zenon DEF Admitted, AdmitsUpto
<1>2. NumShards \in Nat
  BY SupervisorAssumption
<1> QED
  BY <1>1, <1>2, AdmitsExists

\* A request of its own for every queued shard, and a run for no more shards
\* than there are slots; the shards in failed are not observed again.
Distinct(requests) ==
  \A i, j \in DOMAIN requests : requests[i].shard = requests[j].shard => i = j

Fresh(requests, failed) ==
  \A i \in DOMAIN requests : requests[i].observed => requests[i].shard \notin failed

QueueType == [active : SUBSET Shards, pending : Seq(Request), rescan : BOOLEAN]

Good(q, failed) ==
  /\ q \in QueueType /\ Cardinality(q.active) <= Concurrency
  /\ Len(q.pending) <= PendingLimit
  /\ Distinct(q.pending) /\ Fresh(q.pending, failed)

\* WorkConserving of a queue.
Full(q) == Cardinality(q.active) = Concurrency
Serving(q) ==
  \A i \in DOMAIN q.pending : q.pending[i].shard \in q.active \/ Full(q)

LEMMA ShardSets ==
  ASSUME NEW S \in SUBSET Shards
  PROVE  IsFiniteSet(S) /\ Cardinality(S) \in Nat
<1>1. IsFiniteSet(Shards)
  BY FS_Interval, SupervisorAssumption DEF Shards
<1> QED
  BY <1>1, FS_Subset, FS_CardinalityType

LEMMA EnqueueGood ==
  ASSUME NEW q, NEW failed, Good(q, failed), NEW k \in Shards, NEW observed \in BOOLEAN,
         observed => k \notin failed
  PROVE  /\ Good(Enqueue(q, k, observed), failed)
         /\ Enqueue(q, k, observed).active = q.active
         /\ Serving(q) /\ (k \in q.active \/ Full(q)) => Serving(Enqueue(q, k, observed))
<1>0. /\ q \in QueueType /\ q.pending \in Seq(Request)
      /\ DOMAIN q.pending = 1 .. Len(q.pending) /\ Len(q.pending) \in Nat
      /\ \A i \in DOMAIN q.pending : q.pending[i] \in Request
      /\ Distinct(q.pending) /\ Fresh(q.pending, failed) /\ Cardinality(q.active) <= Concurrency
      /\ Len(q.pending) <= PendingLimit /\ PendingLimit \in Nat
  BY SupervisorAssumption DEF Good, QueueType
<1> DEFINE p == q.pending
           new == [shard |-> k, observed |-> observed]
<1>1. new \in Request
  BY DEF Request
<1>2. CASE Queued(q, k)
  <2> DEFINE r == [i \in DOMAIN p |-> IF p[i].shard = k /\ ~ observed
                                       THEN [shard |-> k, observed |-> FALSE] ELSE p[i]]
  <2>1. Enqueue(q, k, observed) = [q EXCEPT !.pending = r]
    BY <1>2 DEF Enqueue
  <2>2. DOMAIN r = DOMAIN p /\ \A i \in DOMAIN r : r[i] \in Request /\ r[i].shard = p[i].shard
        /\ (r[i].observed => p[i].observed)
    BY <1>0 DEF Request
  <2>3. r \in Seq(Request) /\ Len(r) = Len(p)
    <3>1. r \in [1 .. Len(p) -> Request]
      BY <1>0, <2>2
    <3> HIDE DEF r
    <3> QED
      BY <1>0, <3>1
  <2> HIDE DEF r
  <2>4. Distinct(r) /\ Fresh(r, failed)
    BY <1>0, <2>2 DEF Distinct, Fresh
  <2>5. /\ Enqueue(q, k, observed) \in QueueType
        /\ Enqueue(q, k, observed).active = q.active
        /\ Enqueue(q, k, observed).pending = r
    BY <1>0, <2>1, <2>3 DEF QueueType
  <2> QED
    BY <1>0, <2>2, <2>3, <2>4, <2>5 DEF Good, Serving, Full
<1>3. CASE ~ Queued(q, k) /\ Len(p) >= PendingLimit
  <2>1. Enqueue(q, k, observed) = [q EXCEPT !.rescan = TRUE]
    BY <1>3 DEF Enqueue
  <2>2. /\ Enqueue(q, k, observed) \in QueueType
        /\ Enqueue(q, k, observed).active = q.active
        /\ Enqueue(q, k, observed).pending = p
    BY <1>0, <2>1 DEF QueueType
  <2> QED
    BY <1>0, <2>2 DEF Good, Serving, Full
<1>4. CASE ~ Queued(q, k) /\ ~ (Len(p) >= PendingLimit)
  <2> DEFINE r == Append(p, new)
  <2>1. Enqueue(q, k, observed) = [q EXCEPT !.pending = r]
    BY <1>4 DEF Enqueue
  <2>2. /\ r \in Seq(Request) /\ DOMAIN r = 1 .. Len(p) + 1 /\ Len(r) <= PendingLimit
        /\ \A i \in DOMAIN p : r[i] = p[i]
        /\ r[Len(p) + 1] = new
    BY <1>0, <1>1, <1>4
  <2>3. new.shard = k /\ new.observed = observed /\ \A i \in DOMAIN p : p[i].shard # k
    BY <1>4 DEF Queued
  <2> HIDE DEF r, new
  <2>4. \A i \in DOMAIN r : i \in DOMAIN p \/ i = Len(p) + 1
    BY <1>0, <2>2
  <2>5. Distinct(r)
    BY <1>0, <2>2, <2>3, <2>4 DEF Distinct
  <2>6. Fresh(r, failed)
    BY <1>0, <2>2, <2>3, <2>4 DEF Fresh
  <2>7. /\ Enqueue(q, k, observed) \in QueueType
        /\ Enqueue(q, k, observed).active = q.active
        /\ Enqueue(q, k, observed).pending = r
    BY <1>0, <2>1, <2>2 DEF QueueType
  <2>8. Serving(q) /\ (k \in q.active \/ Full(q)) => Serving(Enqueue(q, k, observed))
    BY <2>2, <2>3, <2>4, <2>7 DEF Serving, Full
  <2> QED
    BY <1>0, <2>2, <2>5, <2>6, <2>7, <2>8 DEF Good
<1> QED
  BY <1>2, <1>3, <1>4

LEMMA AdmitGood ==
  ASSUME NEW q, NEW failed, Good(q, failed), NEW k \in Shards, NEW observed \in BOOLEAN,
         observed => k \notin failed
  PROVE  /\ Good(Admit(q, k, observed), failed)
         /\ Serving(q) => Serving(Admit(q, k, observed))
<1>0. q \in QueueType /\ q.active \in SUBSET Shards /\ Cardinality(q.active) <= Concurrency
      /\ Concurrency \in Nat
  BY SupervisorAssumption DEF Good, QueueType
<1>1. IsFiniteSet(q.active) /\ Cardinality(q.active) \in Nat
  BY <1>0, ShardSets
<1>2. CASE k \in q.active \/ Cardinality(q.active) >= Concurrency
  <2>1. k \in q.active \/ Full(q)
    BY <1>0, <1>1, <1>2 DEF Full
  <2>2. Admit(q, k, observed) = Enqueue(q, k, observed)
    BY <1>2 DEF Admit
  <2> QED
    BY <2>1, <2>2, EnqueueGood
<1>3. CASE ~ (k \in q.active \/ Cardinality(q.active) >= Concurrency)
  <2>1. Admit(q, k, observed) = [q EXCEPT !.active = q.active \union {k}]
    BY <1>3 DEF Admit
  <2>2. /\ Admit(q, k, observed) \in QueueType
        /\ Admit(q, k, observed).active = q.active \union {k}
        /\ Admit(q, k, observed).pending = q.pending
    BY <1>0, <2>1 DEF QueueType
  <2>3. Cardinality(q.active \union {k}) = Cardinality(q.active) + 1
    BY <1>1, <1>3, FS_AddElement
  <2>4. Cardinality(q.active \union {k}) <= Concurrency /\ ~ Full(q)
    BY <1>0, <1>1, <1>3, <2>3 DEF Full
  <2> QED
    BY <2>2, <2>4 DEF Good, Serving
<1> QED
  BY <1>2, <1>3

LEMMA AdmittedGood ==
  ASSUME Good(Queue, failedObserved), Serving(Queue)
  PROVE  Good(Admitted[NumShards], failedObserved) /\ Serving(Admitted[NumShards])
<1> DEFINE Fine(i) == Good(Admitted[i], failedObserved) /\ Serving(Admitted[i])
           Bad == {i \in 0 .. NumShards : ~ Fine(i)}
<1>1. NumShards \in Nat /\ NumShards \in 0 .. NumShards
  BY SupervisorAssumption
<1>2. \A i \in 0 .. NumShards :
        Admitted[i] = IF i = 0 THEN Queue
                      ELSE IF i \in snapshot THEN AdmitObserved(Admitted[i - 1], i)
                      ELSE Admitted[i - 1]
  BY AdmittedIs DEF AdmitsUpto
<1>3. ASSUME Bad # {} PROVE FALSE
  <2>0. Bad \in SUBSET Nat
    BY <1>1
  <2> HIDE DEF Bad
  <2>1. PICK i \in Bad : \A j \in Bad : i <= j
    BY <1>3, <2>0, LeastNatural
  <2> USE DEF Bad
  <2>2. i # 0
    BY <1>2, <2>1
  <2>3. i \in Shards /\ i - 1 \in 0 .. NumShards /\ Fine(i - 1)
    BY <1>1, <2>1, <2>2 DEF Shards
  <2>4. Fine(i)
    <3>1. CASE i \in snapshot /\ i \notin failedObserved
      <4>1. Admitted[i] = Admit(Admitted[i - 1], i, TRUE)
        BY <1>2, <2>1, <2>2, <3>1 DEF AdmitObserved
      <4> QED
        BY <2>3, <3>1, <4>1, AdmitGood
    <3>2. CASE i \notin snapshot \/ i \in failedObserved
      BY <1>2, <2>1, <2>2, <2>3, <3>2 DEF AdmitObserved
    <3> QED
      BY <3>1, <3>2
  <2> QED
    BY <2>1, <2>4
<1> QED
  BY <1>1, <1>3

\* What Without leaves are requests of the sequence, each once.
LEMMA WithoutKeeps ==
  ASSUME NEW s \in Seq(Request), NEW gone
  PROVE  /\ Without(s, gone) \in Seq(Request) /\ Len(Without(s, gone)) <= Len(s)
         /\ \A i \in DOMAIN Without(s, gone) :
              \E j \in DOMAIN s : Without(s, gone)[i] = s[j] /\ s[j].shard \notin gone
         /\ Distinct(s) => Distinct(Without(s, gone))
<1> DEFINE n == Len(s)
<1>1. n \in Nat /\ DOMAIN s = 1 .. n /\ \A i \in 1 .. n : s[i] \in Request
  OBVIOUS
<1>2. PICK F : Filters(F, s, gone, n) /\ Without(s, gone) = F[n]
  BY <1>1, WithoutFilters
<1> DEFINE From(t, m) ==
             \A i \in DOMAIN t : \E j \in 1 .. m : t[i] = s[j] /\ s[j].shard \notin gone
           Fine(m) == /\ F[m] \in Seq(Request) /\ Len(F[m]) <= m /\ From(F[m], m)
                      /\ Distinct(s) => Distinct(F[m])
           Bad == {m \in 0 .. n : ~ Fine(m)}
<1>3. Bad \in SUBSET Nat
  BY <1>1
<1>4. ASSUME Bad # {} PROVE FALSE
  <2> HIDE DEF Bad
  <2>1. PICK m \in Bad : \A x \in Bad : m <= x
    BY <1>3, <1>4, LeastNatural
  <2> USE DEF Bad
  <2>2. m \in 0 .. n /\ F[m] = IF m = 0 THEN <<>>
                 ELSE IF s[m].shard \in gone THEN F[m - 1] ELSE Append(F[m - 1], s[m])
    BY <1>2, <2>1 DEF Filters
  <2> HIDE DEF n
  <2>3. CASE m = 0
    <3>1. F[m] = <<>>
      BY <2>2, <2>3
    <3>2. Fine(m)
      BY <3>1 DEF Distinct
    <3> QED
      BY <2>1, <3>2
  <2>4. CASE m # 0
    <3>1. m \in 1 .. n /\ m - 1 \in 0 .. n /\ Fine(m - 1)
      <4>1. m \in 1 .. n /\ m - 1 \in 0 .. n /\ ~ (m <= m - 1)
        BY <1>1, <2>2, <2>4
      <4> QED
        BY <2>1, <4>1
    <3> DEFINE t == F[m - 1]
    <3>2. CASE s[m].shard \in gone
      <4>1. F[m] = t
        BY <2>2, <2>4, <3>2
      <4>2. From(t, m)
        BY <1>1, <3>1
      <4>3. Fine(m)
        <5>1. Len(t) \in Nat /\ Len(t) <= m
          BY <1>1, <3>1
        <5> QED
          BY <3>1, <4>1, <4>2, <5>1
      <4> QED
        BY <2>1, <4>3
    <3>3. CASE s[m].shard \notin gone
      <4> DEFINE u == Append(t, s[m])
      <4>1. F[m] = u /\ t \in Seq(Request) /\ s[m] \in Request
        BY <1>1, <2>2, <2>4, <3>1, <3>3
      <4>2. /\ From(t, m - 1) /\ (Distinct(s) => Distinct(t)) /\ Len(t) <= m - 1
        BY <3>1
      <4> HIDE DEF t
      <4>3. /\ u \in Seq(Request) /\ DOMAIN t = 1 .. Len(t) /\ DOMAIN u = 1 .. Len(t) + 1
            /\ Len(t) \in Nat /\ Len(u) = Len(t) + 1
            /\ \A i \in DOMAIN t : u[i] = t[i]
            /\ u[Len(t) + 1] = s[m]
        BY <4>1
      <4> HIDE DEF u
      <4>4. \A i \in DOMAIN u : i \in DOMAIN t \/ i = Len(t) + 1
        BY <4>3
      <4>5. From(u, m)
        <5> SUFFICES ASSUME NEW i \in DOMAIN u
                     PROVE  \E j \in 1 .. m : u[i] = s[j] /\ s[j].shard \notin gone
          OBVIOUS
        <5>1. CASE i = Len(t) + 1
          BY <1>1, <3>1, <3>3, <4>3, <5>1
        <5>2. CASE i \in DOMAIN t
          <6>1. PICK j \in 1 .. m - 1 : t[i] = s[j] /\ s[j].shard \notin gone
            BY <4>2, <5>2
          <6>2. j \in 1 .. m
            BY <1>1, <3>1
          <6> QED
            BY <4>3, <5>2, <6>1, <6>2
        <5> QED
          BY <4>4, <5>1, <5>2
      <4>6. ASSUME Distinct(s) PROVE Distinct(u)
        <5>1. \A i \in DOMAIN t : t[i].shard # s[m].shard
          <6> SUFFICES ASSUME NEW i \in DOMAIN t PROVE t[i].shard # s[m].shard
            OBVIOUS
          <6>1. PICK j \in 1 .. m - 1 : t[i] = s[j]
            BY <4>2
          <6>2. j \in 1 .. n /\ m \in 1 .. n /\ j # m
            BY <1>1, <3>1
          <6> QED
            BY <1>1, <4>6, <6>1, <6>2 DEF Distinct
        <5>2. \A i, j \in DOMAIN t : t[i].shard = t[j].shard => i = j
          BY <4>2, <4>6 DEF Distinct
        <5> QED
          BY <4>3, <4>4, <5>1, <5>2 DEF Distinct
      <4>7. Fine(m)
        <5>1. Len(u) <= m
          BY <1>1, <3>1, <4>2, <4>3
        <5> QED
          BY <4>1, <4>3, <4>5, <4>6, <5>1
      <4> QED
        BY <2>1, <4>7
    <3> QED
      BY <3>2, <3>3
  <2> QED
    BY <2>3, <2>4
<1>5. Fine(n)
  <2>1. n \in 0 .. n
    BY <1>1
  <2> QED
    BY <1>4, <2>1
<1> QED
  BY <1>1, <1>2, <1>5

\* A queue that lost requests stays good.
LEMMA WithoutGood ==
  ASSUME NEW q, NEW failed, Good(q, failed), NEW gone
  PROVE  /\ Without(q.pending, gone) \in Seq(Request)
         /\ Len(Without(q.pending, gone)) <= PendingLimit
         /\ Distinct(Without(q.pending, gone))
         /\ \A i \in DOMAIN Without(q.pending, gone) :
              \E j \in DOMAIN q.pending : /\ Without(q.pending, gone)[i] = q.pending[j]
                                        /\ q.pending[j].shard \notin gone
<1>1. q.pending \in Seq(Request) /\ Distinct(q.pending) /\ Len(q.pending) <= PendingLimit
  BY DEF Good, QueueType
<1> DEFINE p == q.pending
           w == Without(p, gone)
<1>2. /\ w \in Seq(Request) /\ Len(w) <= Len(p) /\ Distinct(w)
      /\ \A i \in DOMAIN w : \E j \in DOMAIN p : w[i] = p[j] /\ p[j].shard \notin gone
  BY <1>1, WithoutKeeps
<1>3. Len(p) \in Nat /\ PendingLimit \in Nat /\ Len(p) <= PendingLimit
  BY <1>1, SupervisorAssumption
<1> HIDE DEF p, w
<1>4. Len(w) <= PendingLimit
  BY <1>2, <1>3
<1> QED
  BY <1>2, <1>4 DEF p, w

\* The completed run frees its slot and only its explicit request, or one of a
\* shard that did not fail, starts it again.
LEMMA RepeatGood ==
  ASSUME NEW q, NEW f, Good(q, f), NEW k \in Shards, NEW failed, failed \subseteq f \union {k}
  PROVE  Good(Repeat(q, k, failed), failed)
<1> DEFINE p == Without(q.pending, {k})
           explicit == \E i \in DOMAIN q.pending : q.pending[i] = [shard |-> k, observed |-> FALSE]
           freed == [q EXCEPT !.active = @ \ {k}, !.pending = p]
<1>0. /\ q \in QueueType /\ q.active \in SUBSET Shards /\ Cardinality(q.active) <= Concurrency
      /\ Fresh(q.pending, f) /\ Concurrency \in Nat
  BY SupervisorAssumption DEF Good, QueueType
<1>1. /\ p \in Seq(Request) /\ Distinct(p) /\ Len(p) <= PendingLimit
      /\ \A i \in DOMAIN p : \E j \in DOMAIN q.pending : p[i] = q.pending[j] /\ q.pending[j].shard # k
  <2>1. /\ p \in Seq(Request) /\ Distinct(p) /\ Len(p) <= PendingLimit
        /\ \A i \in DOMAIN p :
             \E j \in DOMAIN q.pending : p[i] = q.pending[j] /\ q.pending[j].shard \notin {k}
    BY WithoutGood
  <2> HIDE DEF p
  <2> QED
    BY <2>1
<1>2. Repeat(q, k, failed) =
        IF Queued(q, k) /\ (explicit \/ k \notin failed) THEN Admit(freed, k, ~ explicit) ELSE freed
  BY DEF Repeat
<1> HIDE DEF p, explicit
<1>3. freed \in QueueType /\ freed.active = q.active \ {k} /\ freed.pending = p
  BY <1>0, <1>1 DEF QueueType
<1>4. Cardinality(q.active \ {k}) <= Concurrency
  <2>1. IsFiniteSet(q.active) /\ Cardinality(q.active) \in Nat
    BY <1>0, ShardSets
  <2>2. Cardinality(q.active \ {k}) =
          IF k \in q.active THEN Cardinality(q.active) - 1 ELSE Cardinality(q.active)
    BY <2>1, FS_RemoveElement
  <2> QED
    BY <1>0, <2>1, <2>2
<1>5. Fresh(p, failed)
  BY <1>0, <1>1 DEF Fresh
<1> HIDE DEF freed
<1>6. Good(freed, failed)
  BY <1>1, <1>3, <1>4, <1>5 DEF Good
<1>7. CASE Queued(q, k) /\ (explicit \/ k \notin failed)
  <2>1. (~ explicit) \in BOOLEAN /\ (~ explicit => k \notin failed)
    BY <1>7
  <2>2. Good(Admit(freed, k, ~ explicit), failed)
    BY <1>6, <2>1, AdmitGood
  <2> QED
    BY <1>2, <1>7, <2>2
<1> QED
  BY <1>2, <1>6, <1>7

LEMMA GreatestNatural ==
  ASSUME NEW S \in SUBSET Nat, S # {}, NEW n \in Nat, \A x \in S : x <= n
  PROVE  \E x \in S : \A y \in S : y <= x
<1> DEFINE Above == {m \in Nat : \A y \in S : y <= m}
<1>1. PICK m \in Above : \A x \in Above : m <= x
  <2>1. n \in Above /\ Above \in SUBSET Nat
    OBVIOUS
  <2> HIDE DEF Above
  <2> QED
    BY <2>1, LeastNatural
<1>2. CASE m \in S
  BY <1>1, <1>2
<1>3. CASE m \notin S
  <2>1. \A y \in S : y \in Nat /\ y < m
    BY <1>1, <1>3
  <2>2. m - 1 \in Nat
    <3>1. PICK y \in S : y \in Nat /\ y < m
      BY <2>1
    <3> QED
      BY <1>1, <3>1
  <2>3. m - 1 \in Above
    BY <1>1, <2>1, <2>2
  <2> QED
    BY <1>1, <2>2, <2>3
<1> QED
  BY <1>2, <1>3

\* The positions of W that room of them may take, in order: no more than that,
\* and as many when one of W is left.
First(W, room) == {j \in W : Cardinality({m \in W : m <= j}) <= room}

LEMMA FirstOf ==
  ASSUME NEW n \in Nat, NEW W \in SUBSET (1 .. n), NEW room \in Nat
  PROVE  /\ First(W, room) \subseteq W
         /\ IsFiniteSet(First(W, room)) /\ Cardinality(First(W, room)) \in Nat
         /\ Cardinality(First(W, room)) <= room
         /\ First(W, room) # W => Cardinality(First(W, room)) = room
<1> DEFINE Upto(j) == {m \in W : m <= j}
           P == {j \in W : Cardinality(Upto(j)) <= room}
<1>0. First(W, room) = P
  BY DEF First
<1>1. IsFiniteSet(W) /\ \A S \in SUBSET W : IsFiniteSet(S) /\ Cardinality(S) \in Nat
  <2>1. IsFiniteSet(1 .. n)
    BY FS_Interval
  <2> QED
    BY <2>1, FS_Subset, FS_CardinalityType
<1>2. P \in SUBSET W /\ P \in SUBSET Nat /\ \A j \in Nat : Upto(j) \in SUBSET W
  <2>1. P \in SUBSET W /\ W \in SUBSET Nat
    OBVIOUS
  <2>2. \A j \in Nat : Upto(j) \in SUBSET W
    OBVIOUS
  <2> HIDE DEF P, Upto
  <2> QED
    BY <2>1, <2>2
<1>3. Cardinality(P) <= room
  <2>1. CASE P = {}
    <3> HIDE DEF P
    <3> QED
      BY <2>1, FS_EmptySet
  <2>2. CASE P # {}
    <3> HIDE DEF P
    <3>1. \A x \in P : x <= n
      BY <1>2
    <3>2. PICK g \in P : \A y \in P : y <= g
      BY <1>2, <2>2, <3>1, GreatestNatural
    <3>3. P \in SUBSET Upto(g)
      BY <1>2, <3>2
    <3>4. IsFiniteSet(Upto(g)) /\ Cardinality(Upto(g)) \in Nat
      BY <1>1
    <3> HIDE DEF Upto
    <3>5. Cardinality(P) <= Cardinality(Upto(g))
      BY <3>3, <3>4, FS_Subset
    <3>6. Cardinality(Upto(g)) <= room
      BY <3>2 DEF P
    <3>7. Cardinality(P) \in Nat
      BY <1>1, <1>2
    <3> QED
      BY <3>4, <3>5, <3>6, <3>7
  <2> QED
    BY <2>1, <2>2
<1>4. ASSUME P # W PROVE Cardinality(P) >= room
  <2> DEFINE Left == W \ P
  <2>1. Left # {} /\ Left \in SUBSET Nat
    <3> HIDE DEF P
    <3>1. PICK x \in W : x \notin P
      BY <1>2, <1>4
    <3>2. W \in SUBSET Nat
      OBVIOUS
    <3>3. Left # {} /\ Left \in SUBSET W
      BY <3>1
    <3> QED
      BY <3>2, <3>3
  <2> HIDE DEF Left
  <2>2. PICK l \in Left : \A y \in Left : l <= y
    BY <2>1, LeastNatural
  <2>3. l \in W /\ l \notin P /\ l \in Nat
    BY <2>1, <2>2 DEF Left
  <2>4. Upto(l) \in SUBSET (P \union {l})
    <3> SUFFICES ASSUME NEW m \in W, m <= l, m # l PROVE m \in P
      OBVIOUS
    <3>1. m \in Nat /\ ~ (l <= m)
      BY <2>3
    <3> QED
      BY <2>2, <3>1 DEF Left
  <2>5. IsFiniteSet(P \union {l}) /\ Cardinality(P \union {l}) = Cardinality(P) + 1
    <3> HIDE DEF P
    <3>1. IsFiniteSet(P)
      BY <1>1, <1>2
    <3> QED
      BY <2>3, <3>1, FS_AddElement
  <2>6. Cardinality(Upto(l)) <= Cardinality(P) + 1
    <3> HIDE DEF P, Upto
    <3> QED
      BY <2>4, <2>5, FS_Subset
  <2>7. Cardinality(Upto(l)) \in Nat /\ Cardinality(P) \in Nat
    BY <1>1, <1>2
  <2>8. ~ (Cardinality(Upto(l)) <= room)
    BY <2>3
  <2> HIDE DEF P, Upto
  <2> QED
    BY <2>6, <2>7, <2>8
<1>5. IsFiniteSet(P) /\ Cardinality(P) \in Nat
  BY <1>1, <1>2
<1> HIDE DEF P
<1>6. P # W => Cardinality(P) = room
  BY <1>3, <1>4, <1>5
<1>7. P \subseteq W
  BY <1>2
<1> QED
  BY <1>0, <1>3, <1>5, <1>6, <1>7

\* As many shards as there are distinct requests.
LEMMA ShardsOf ==
  ASSUME NEW s \in Seq(Request), Distinct(s), NEW P \in SUBSET (DOMAIN s), IsFiniteSet(P)
  PROVE  Cardinality({s[j].shard : j \in P}) = Cardinality(P)
<1> DEFINE T == {s[j].shard : j \in P}
           f == [j \in P |-> s[j].shard]
<1>1. f \in Surjection(P, T)
  BY DEF Surjection
<1>2. f \in Injection(P, T)
  BY DEF Injection, IsInjective, Distinct
<1> HIDE DEF T, f
<1>3. Cardinality(T) = Cardinality(P)
  BY <1>1, <1>2, FS_Surjection
<1> QED
  BY <1>3 DEF T

\* The waiting requests take the free slots, and none of them is left waiting
\* when a slot is.
LEMMA StartWaitingGood ==
  ASSUME NEW q, NEW failed, Good(q, failed)
  PROVE  Good(StartWaiting(q), failed) /\ Serving(StartWaiting(q))
<1> DEFINE p == q.pending
           W == {i \in DOMAIN p : p[i].shard \notin q.active}
           room == Concurrency - Cardinality(q.active)
           P == First(W, room)
           first == {p[i].shard : i \in P}
           rest == Without(p, first)
<1>0. /\ q \in QueueType /\ q.active \in SUBSET Shards /\ Cardinality(q.active) <= Concurrency
      /\ Distinct(p) /\ Fresh(p, failed) /\ Concurrency \in Nat /\ p \in Seq(Request)
  BY SupervisorAssumption DEF Good, QueueType
<1>1. IsFiniteSet(q.active) /\ Cardinality(q.active) \in Nat
  BY <1>0, ShardSets
<1>2. StartWaiting(q) = [q EXCEPT !.active = q.active \union first, !.pending = rest]
  BY DEF StartWaiting, First
<1>3. /\ P \subseteq W /\ IsFiniteSet(P) /\ Cardinality(P) \in Nat /\ Cardinality(P) <= room
      /\ P # W => Cardinality(P) = room
  <2> HIDE DEF p
  <2>1. Len(p) \in Nat /\ W \in SUBSET (1 .. Len(p)) /\ room \in Nat
    BY <1>0, <1>1
  <2> HIDE DEF W, room
  <2> QED
    BY <2>1, FirstOf
<1> HIDE DEF P
<1>4. Cardinality(first) = Cardinality(P)
  <2>1. P \in SUBSET (DOMAIN p)
    BY <1>3
  <2> HIDE DEF p
  <2> QED
    BY <1>0, <1>3, <2>1, ShardsOf
<1>5. first \in SUBSET Shards /\ first \intersect q.active = {}
  <2>1. \A i \in P : p[i] \in Request /\ p[i].shard \notin q.active
    BY <1>0, <1>3
  <2> QED
    BY <2>1 DEF Request
<1>6. /\ rest \in Seq(Request) /\ Distinct(rest) /\ Len(rest) <= PendingLimit
      /\ \A i \in DOMAIN rest : \E j \in DOMAIN p : rest[i] = p[j] /\ p[j].shard \notin first
  <2> HIDE DEF first
  <2> QED
    BY WithoutGood
<1>7. \A j \in DOMAIN p : p[j].shard \notin first => p[j].shard \in q.active \/ P # W
  OBVIOUS
<1> HIDE DEF first, rest, p
<1>8. Cardinality(q.active \union first) = Cardinality(q.active) + Cardinality(first)
  <2>1. IsFiniteSet(first) /\ Cardinality(first) \in Nat
    BY <1>5, ShardSets
  <2>2. Cardinality(q.active \intersect first) = 0
    <3>1. q.active \intersect first = {}
      BY <1>5
    <3> QED
      BY <3>1, FS_EmptySet
  <2>3. Cardinality(q.active \union first) =
          Cardinality(q.active) + Cardinality(first) - Cardinality(q.active \intersect first)
    BY <1>1, <2>1, FS_Union
  <2> QED
    BY <1>1, <2>1, <2>2, <2>3
<1>9. /\ Cardinality(q.active \union first) <= Concurrency
      /\ P # W => Cardinality(q.active \union first) = Concurrency
  BY <1>0, <1>1, <1>3, <1>4, <1>8
<1> HIDE DEF W, room
<1>10. /\ StartWaiting(q) \in QueueType
       /\ StartWaiting(q).active = q.active \union first
       /\ StartWaiting(q).pending = rest
  BY <1>0, <1>2, <1>5, <1>6 DEF QueueType
<1>11. Fresh(rest, failed)
  BY <1>0, <1>6 DEF Fresh
<1>12. Serving(StartWaiting(q))
  BY <1>6, <1>7, <1>9, <1>10 DEF Serving, Full
<1> QED
  BY <1>6, <1>9, <1>10, <1>11, <1>12 DEF Good

-----------------------------------------------------------------------------
(* The queue of the supervisor.                                            *)

QueueInv == Good(Queue, failedObserved) /\ Serving(Queue)

LEMMA QueueSet ==
  ASSUME NEW q, Good(q, failedObserved'), Serving(q), SetQueue(q)
  PROVE  QueueInv'
<1>1. q \in QueueType
  BY DEF Good
<1>2. Queue' = q
  BY <1>1 DEF SetQueue, Queue, QueueType
<1> QED
  BY <1>2 DEF QueueInv, Good, Serving, Full, QueueType, Distinct, Fresh

LEMMA QueueKept ==
  ASSUME QueueInv, UNCHANGED queueVars, failedObserved' \subseteq failedObserved
  PROVE  QueueInv'
BY DEF QueueInv, queueVars, Queue, Good, Serving, Full, Distinct, Fresh

LEMMA QueueEmpties ==
  ASSUME QueueInv, pending' = <<>>, rescanRequired' = rescanRequired,
         \E k : active' = active \ {k} \/ active' = active
  PROVE  QueueInv'
<1>0. active \in SUBSET Shards /\ Cardinality(active) <= Concurrency /\ Concurrency \in Nat
      /\ rescanRequired \in BOOLEAN
  BY SupervisorAssumption DEF QueueInv, Good, QueueType, Queue
<1>1. IsFiniteSet(active) /\ Cardinality(active) \in Nat
  BY <1>0, ShardSets
<1>2. active' \in SUBSET active
  OBVIOUS
<1>3. Cardinality(active') <= Cardinality(active) /\ Cardinality(active') \in Nat
  BY <1>1, <1>2, FS_Subset, FS_CardinalityType
<1>4. Queue' \in QueueType /\ Queue'.active = active' /\ Queue'.pending = <<>>
  BY <1>0, <1>2 DEF Queue, QueueType
<1>5. Cardinality(active') <= Concurrency
  BY <1>0, <1>1, <1>3
<1> QED
  BY <1>4, <1>5, SupervisorAssumption DEF QueueInv, Good, Serving, Distinct, Fresh

LEMMA SnapshotAppliedQueue ==
  ASSUME QueueInv, SnapshotApplied
  PROVE  QueueInv'
<1>1. CASE Accepting
  <2>1. SetQueue(Admitted[NumShards]) /\ failedObserved' = failedObserved
    BY <1>1 DEF SnapshotApplied
  <2>2. Good(Admitted[NumShards], failedObserved') /\ Serving(Admitted[NumShards])
    BY <2>1, AdmittedGood DEF QueueInv
  <2> QED
    BY <2>1, <2>2, QueueSet
<1>2. CASE ~ Accepting
  BY <1>2, QueueKept DEF SnapshotApplied
<1> QED
  BY <1>1, <1>2

LEMMA NotificationQueue ==
  ASSUME QueueInv, NEW k \in Shards, PostLocal(k) \/ WatchUpdate(k)
  PROVE  QueueInv'
<1>1. failedObserved' = failedObserved
  BY DEF PostLocal, WatchUpdate
<1>2. \/ UNCHANGED queueVars
      \/ SetQueue(Admit(Queue, k, FALSE))
      \/ SetQueue(Admit(Queue, k, TRUE)) /\ k \notin failedObserved
      \/ SetQueue(Queue)
  BY DEF PostLocal, WatchUpdate, AdmitObserved
<1>3. CASE UNCHANGED queueVars
  BY <1>1, <1>3, QueueKept
<1>4. CASE SetQueue(Admit(Queue, k, FALSE))
  <2>1. Good(Admit(Queue, k, FALSE), failedObserved') /\ Serving(Admit(Queue, k, FALSE))
    BY <1>1, AdmitGood DEF QueueInv
  <2> QED
    BY <1>4, <2>1, QueueSet
<1>5. CASE SetQueue(Admit(Queue, k, TRUE)) /\ k \notin failedObserved
  <2>1. Good(Admit(Queue, k, TRUE), failedObserved') /\ Serving(Admit(Queue, k, TRUE))
    BY <1>1, <1>5, AdmitGood DEF QueueInv
  <2> QED
    BY <1>5, <2>1, QueueSet
<1>6. CASE SetQueue(Queue)
  BY <1>1, <1>6, QueueSet DEF QueueInv
<1> QED
  BY <1>2, <1>3, <1>4, <1>5, <1>6

LEMMA RunSettlesQueue ==
  ASSUME SupervisorInv, QueueInv, NEW k \in Shards, NEW outcome, RunSettles(k, outcome)
  PROVE  QueueInv'
<1>1. CASE phase = "open"
  <2> DEFINE r == Repeat(Queue, k, failedObserved')
             q == StartWaiting(r)
             u == [q EXCEPT !.rescan = FALSE]
  <2>1. SetQueue(u) /\ failedObserved' \subseteq failedObserved \union {k}
    BY <1>1 DEF RunSettles
  <2>2. Good(r, failedObserved')
    BY <2>1, RepeatGood DEF QueueInv
  <2> HIDE DEF r
  <2>3. Good(q, failedObserved') /\ Serving(q)
    BY <2>2, StartWaitingGood
  <2> HIDE DEF q
  <2>4. u \in QueueType /\ u.active = q.active /\ u.pending = q.pending
    BY <2>3 DEF Good, QueueType
  <2> HIDE DEF u
  <2>5. Good(u, failedObserved') /\ Serving(u)
    BY <2>3, <2>4 DEF Good, Serving, Full
  <2> QED
    BY <2>1, <2>5, QueueSet
<1>2. CASE phase # "open"
  <2>1. active' = active \ {k} /\ UNCHANGED <<pending, rescanRequired>> /\ pending = <<>>
    BY <1>2 DEF RunSettles, SupervisorInv, ClosedIsQuiet
  <2> QED
    BY <2>1, QueueEmpties
<1> QED
  BY <1>1, <1>2

LEMMA CloseQueue ==
  ASSUME QueueInv, Close
  PROVE  QueueInv'
<1>1. pending' = <<>> /\ active' = active /\ rescanRequired' = rescanRequired
  BY DEF Close
<1>2. PICK k : active' = active
  BY <1>1
<1> QED
  BY <1>1, <1>2, QueueEmpties

LEMMA InitialQueue == Init => QueueInv
<1> SUFFICES ASSUME Init PROVE QueueInv
  OBVIOUS
<1>1. Queue \in QueueType /\ Queue.active = {} /\ Queue.pending = <<>>
  <2>1. Queue = [active |-> {}, pending |-> <<>>, rescan |-> FALSE]
    BY DEF Init, Queue
  <2>2. {} \in SUBSET Shards /\ <<>> \in Seq(Request)
    OBVIOUS
  <2> QED
    BY <2>1, <2>2 DEF QueueType
<1>2. Cardinality({}) <= Concurrency
  BY FS_EmptySet, SupervisorAssumption
<1> QED
  BY <1>1, <1>2, SupervisorAssumption DEF QueueInv, Good, Serving, Distinct, Fresh

LEMMA NextKeepsQueue == SupervisorInv /\ QueueInv /\ [Next]_vars => QueueInv'
<1> SUFFICES ASSUME SupervisorInv, QueueInv, [Next]_vars PROVE QueueInv'
  OBVIOUS
<1>1. CASE Start \/ SnapshotAnswers \/ SnapshotFails \/ RecoverySettles \/ PeriodicFires \/ WatchTimerFires
  BY <1>1, QueueKept
  DEF Start, SnapshotAnswers, SnapshotFails, RecoverySettles, PeriodicFires, WatchTimerFires
<1>2. CASE WatchEnds \/ WhenIdle \/ GraceEnds \/ DrainEnds \/ ReleaseTimesOut
           \/ ReleaseAnswers(TRUE) \/ ReleaseAnswers(FALSE)
  BY <1>2, QueueKept
  DEF WatchEnds, WhenIdle, GraceEnds, DrainEnds, ReleaseTimesOut, ReleaseAnswers
<1>3. CASE SnapshotApplied
  BY <1>3, SnapshotAppliedQueue
<1>4. CASE Close
  BY <1>4, CloseQueue
<1>5. ASSUME NEW k \in Shards, PostLocal(k) \/ WatchUpdate(k) PROVE QueueInv'
  BY <1>5, NotificationQueue
<1>6. ASSUME NEW k \in Shards, PostRemote(k) PROVE QueueInv'
  BY <1>6, QueueKept DEF PostRemote
<1>7. ASSUME NEW k \in Shards, NEW outcome \in Outcomes, RunSettles(k, outcome) PROVE QueueInv'
  BY <1>7, RunSettlesQueue
<1>8. CASE UNCHANGED vars
  BY <1>8, QueueKept DEF vars
<1> QED
  BY <1>1, <1>2, <1>3, <1>4, <1>5, <1>6, <1>7, <1>8 DEF Next, Remote, Internal

THEOREM QueueInvariance == Spec => [](SupervisorInv /\ QueueInv)
<1>1. Init => SupervisorInv /\ QueueInv
  BY InitialSupervisor, InitialQueue
<1>2. SupervisorInv /\ QueueInv /\ [Next]_vars => (SupervisorInv /\ QueueInv)'
  BY NextKeepsSupervisor, NextKeepsQueue
<1> QED
  BY <1>1, <1>2, PTL DEF Spec

\* No queued shard waits for anything but its own run or a slot: #queue() takes
\* a request only when there is no slot for it, and #startNext() fills every slot
\* that a run frees.
THEOREM QueueIsWorkConserving == Spec => []WorkConserving
<1>1. ASSUME QueueInv PROVE WorkConserving
  <2>1. \A i \in DOMAIN pending : pending[i].shard \in active \/ Cardinality(active) = Concurrency
    BY <1>1 DEF QueueInv, Serving, Full, Queue
  <2> QED
    BY <2>1 DEF WorkConserving, Waiting
<1> QED
  BY <1>1, QueueInvariance, PTL

\* A shard whose run failed is queued by nobody's observation until the periodic
\* recovery forgets the failure (#failedObserved).
THEOREM FailedShardsRest == Spec => []NoEarlyRetry
<1>1. QueueInv => NoEarlyRetry
  BY DEF QueueInv, Good, Fresh, Queue, NoEarlyRetry
<1> QED
  BY <1>1, QueueInvariance, PTL

\* The limits the supervisor was built with: runs never take more than the
\* slots and requests never more than the queue, one for each shard, although
\* repeats are admitted, overridden and dropped in between.
THEOREM AdmissionIsBounded ==
  Spec => [](/\ Cardinality(active) <= Concurrency
             /\ Len(pending) <= PendingLimit
             /\ Cardinality(Waiting) = Len(pending))
<1>1. ASSUME QueueInv
      PROVE  /\ Cardinality(active) <= Concurrency
             /\ Len(pending) <= PendingLimit
             /\ Cardinality(Waiting) = Len(pending)
  <2>1. /\ pending \in Seq(Request) /\ Distinct(pending)
        /\ Cardinality(active) <= Concurrency /\ Len(pending) <= PendingLimit
    BY <1>1 DEF QueueInv, Good, QueueType, Queue
  <2>2. /\ DOMAIN pending = 1 .. Len(pending) /\ Len(pending) \in Nat
    BY <2>1
  <2>3. IsFiniteSet(DOMAIN pending) /\ Cardinality(DOMAIN pending) = Len(pending)
    <3> DEFINE n == Len(pending)
    <3>1. n \in Nat /\ DOMAIN pending = 1 .. n
      BY <2>2
    <3> HIDE DEF n
    <3>2. IsFiniteSet(1 .. n) /\ Cardinality(1 .. n) = IF 1 > n THEN 0 ELSE n - 1 + 1
      BY <3>1, FS_Interval
    <3>3. IsFiniteSet(DOMAIN pending) /\ Cardinality(DOMAIN pending) = n
      BY <3>1, <3>2
    <3> QED
      BY <3>3 DEF n
  <2>4. DOMAIN pending \in SUBSET (DOMAIN pending)
    OBVIOUS
  <2> QED
    BY <2>1, <2>3, <2>4, ShardsOf DEF Waiting
<1> QED
  BY <1>1, QueueInvariance, PTL
=============================================================================
