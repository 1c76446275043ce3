---------------------- MODULE ShardedWorkRegistryProofs ---------------------
(***************************************************************************)
(* Proofs about ShardedWorkRegistry for every set of workers and clients,  *)
(* every lease duration and every clock skew.                              *)
(***************************************************************************)
EXTENDS ShardedWorkRegistry, FiniteSetTheorems, TLAPS

LEMMA NoRecordType == NoRecord \in Record
  BY DEF NoRecord, Record

LEMMA OwnedType == TypeOK => \A c \in Clients : Owned(c) \in Record
  BY ClientsAssumption DEF TypeOK, LeaseTypeOK, Owned, Now, Record

LEMMA UnownedType == TypeOK => \A c \in Clients : Unowned(c) \in Record
  BY DEF TypeOK, Unowned, Record

LEMMA FinishType ==
  ASSUME TypeOK, NEW c \in Clients, Finish(c)
  PROVE  /\ clock' \in [Workers -> Nat]
         /\ op' \in [Clients -> Ops]
         /\ pc' \in [Clients -> {"idle", "read", "decide", "cas"}]
         /\ seen' \in [Clients -> Record]
         /\ wanted' \in [Clients -> Record]
         /\ tries' \in [Clients -> Nat]
         /\ handle' \in [Workers -> {"open", "closing", "closed"}]
         /\ active' \in [Workers -> Int]
<1>1. WorkerOf[c] \in Workers
  BY ClientsAssumption
<1>2. active' \in [Workers -> Int]
  BY <1>1 DEF TypeOK, Finish
<1>3. seen' \in [Clients -> Record] /\ wanted' \in [Clients -> Record]
  BY NoRecordType DEF TypeOK, Finish
<1> QED
  BY <1>2, <1>3 DEF TypeOK, LeaseTypeOK, Finish, Ops

LEMMA AcquiredType ==
  ASSUME TypeOK, NEW c \in Clients, NEW s \in Record, Acquired(c, s)
  PROVE  /\ session' \in [Clients -> Record]
         /\ owns' \in [Clients -> BOOLEAN]
  BY DEF TypeOK, Acquired

LEMMA NotAcquiredType ==
  ASSUME TypeOK, NEW c \in Clients, NotAcquired(c)
  PROVE  /\ session' \in [Clients -> Record]
         /\ owns' \in [Clients -> BOOLEAN]
  BY NoRecordType DEF TypeOK, NotAcquired

LEMMA RefusedType ==
  ASSUME TypeOK, NEW c \in Clients, Refused(c)
  PROVE  TypeOK'
  BY FinishType, NotAcquiredType DEF Refused, NotAcquired, TypeOK, LeaseTypeOK

LEMMA ObservedType ==
  ASSUME TypeOK, NEW c \in Clients, Observed(c)
  PROVE  TypeOK'
<1>1. seen[c] \in Record
  BY DEF TypeOK
<1>2. Acquired(c, seen[c])
  BY DEF Observed
<1> QED
  BY <1>1, <1>2, FinishType, AcquiredType DEF Observed, Acquired, TypeOK, LeaseTypeOK

LEMMA AttemptType ==
  ASSUME TypeOK, NEW c \in Clients, NEW r \in Record, Attempt(c, r)
  PROVE  TypeOK'
  BY DEF Attempt, TypeOK, LeaseTypeOK

LEMMA TypeStep == TypeOK /\ [Next]_vars => TypeOK'
<1> SUFFICES ASSUME TypeOK, [Next]_vars PROVE TypeOK'
  OBVIOUS
<1>1. ASSUME NEW w \in Workers, Tick(w), UNCHANGED registryVars PROVE TypeOK'
  BY <1>1 DEF Tick, registryVars, TypeOK, LeaseTypeOK
<1>2. ASSUME NEW c \in Clients, PickUp(c) \/ Renew(c) \/ Release(c) PROVE TypeOK'
  BY <1>2, ClientsAssumption
  DEF PickUp, Renew, Release, Begin, TypeOK, LeaseTypeOK, Ops
<1>3. ASSUME NEW c \in Clients, Read(c) PROVE TypeOK'
  BY <1>3 DEF Read, TypeOK, LeaseTypeOK
<1>4. ASSUME NEW c \in Clients, DecidePickUp(c) \/ DecideRenew(c) \/ DecideRelease(c)
      PROVE TypeOK'
  BY <1>4, OwnedType, UnownedType, ObservedType, RefusedType, AttemptType
  DEF DecidePickUp, DecideRenew, DecideRelease
<1>5. ASSUME NEW c \in Clients, CasApplied(c) PROVE TypeOK'
  <2>1. wanted[c] \in Record
    BY DEF TypeOK
  <2>2. CASE op[c] = "release"
    BY <1>5, <2>1, <2>2, FinishType, NotAcquiredType
    DEF CasApplied, CasStores, NotAcquired, TypeOK, LeaseTypeOK
  <2>3. CASE op[c] # "release"
    BY <1>5, <2>1, <2>3, FinishType, AcquiredType
    DEF CasApplied, CasStores, Acquired, TypeOK, LeaseTypeOK
  <2> QED
    BY <2>2, <2>3
<1>6. ASSUME NEW c \in Clients, CasRefused(c) PROVE TypeOK'
  BY <1>6, RefusedType, NoRecordType DEF CasRefused, TypeOK, LeaseTypeOK
<1>7. ASSUME NEW c \in Clients, StorageFails(c) PROVE TypeOK'
  BY <1>7, RefusedType DEF StorageFails
<1>8. ASSUME NEW c \in Clients, CasAnswerLost(c) PROVE TypeOK'
  <2>1. wanted[c] \in Record
    BY DEF TypeOK
  <2> QED
    BY <1>8, <2>1, FinishType, NotAcquiredType
    DEF CasAnswerLost, CasStores, NotAcquired, TypeOK, LeaseTypeOK
<1>9. ASSUME NEW w \in Workers, BeginClose(w) \/ CloseHandle(w) PROVE TypeOK'
  BY <1>9 DEF BeginClose, CloseHandle, TypeOK, LeaseTypeOK
<1>10. CASE UNCHANGED vars
  BY <1>10 DEF vars, registryVars, TypeOK, LeaseTypeOK
<1> QED
  BY <1>1, <1>2, <1>3, <1>4, <1>5, <1>6, <1>7, <1>8, <1>9, <1>10 DEF Next, Step

(* Every variable keeps its type under every operation of the registry,    *)
(* every storage fault and every clock.                                    *)
THEOREM TypeCorrect == Spec => []TypeOK
<1>1. Init => TypeOK
  BY NoRecordType DEF Init, LeaseInit, TypeOK, LeaseTypeOK, Ops
<1> QED
  BY <1>1, TypeStep, PTL DEF Spec

-----------------------------------------------------------------------------
(* The inductive invariant.                                                *)

ClientInv(c) ==
  /\ KnowledgeSound(c)
  /\ pc[c] # "idle" => op[c] # "none"
  /\ pc[c] = "cas" => WriteJustified(c)

LocalUnchanged(d) ==
  /\ op'[d] = op[d] /\ pc'[d] = pc[d]
  /\ seen'[d] = seen[d] /\ wanted'[d] = wanted[d]
  /\ session'[d] = session[d] /\ owns'[d] = owns[d]
  /\ d \in seenFresh' => d \in seenFresh
  /\ d \in heldFresh' => d \in heldFresh

(* A client an action does not touch keeps its part of the invariant, as   *)
(* long as the row and the clocks stay.                                    *)
LEMMA Frame ==
  ASSUME NEW d \in Clients, TypeOK, ClientInv(d), LocalUnchanged(d),
         UNCHANGED <<record, clock>>
  PROVE  ClientInv(d)'
  BY DEF ClientInv, LocalUnchanged, KnowledgeSound, WriteJustified, Covered, Timely,
         LiveAt, Expires, Unowned, NoRecord

LEMMA LeaseInvariantParts ==
  LeaseInvariant <=>
    TypeOK /\ SkewBounded /\ Timely(record) /\ \A c \in Clients : ClientInv(c)
  BY DEF LeaseInvariant, ClientInv

LEMMA RefusedKeeps ==
  ASSUME NEW c \in Clients, TypeOK, \A d \in Clients : ClientInv(d), Refused(c),
         pc[c] # "idle"
  PROVE  \A d \in Clients : ClientInv(d)'
<1>1. ASSUME NEW d \in Clients, d # c PROVE ClientInv(d)'
  <2>1. LocalUnchanged(d) /\ UNCHANGED <<record, clock>>
    BY <1>1 DEF LocalUnchanged, Refused, NotAcquired, Finish, TypeOK
  <2> QED BY <2>1, Frame
<1>2. ClientInv(c)'
  <2>1. ClientInv(c)
    OBVIOUS
  <2> QED
    BY <2>1 DEF Refused, NotAcquired, Finish, TypeOK, ClientInv, KnowledgeSound, Timely,
                NoRecord, LeaseTypeOK
<1> QED BY <1>1, <1>2

LEMMA ObservedKeeps ==
  ASSUME NEW c \in Clients, TypeOK, \A d \in Clients : ClientInv(d), Observed(c),
         seen[c].worker = WorkerOf[c]
  PROVE  \A d \in Clients : ClientInv(d)'
<1>1. ASSUME NEW d \in Clients, d # c PROVE ClientInv(d)'
  <2>1. LocalUnchanged(d) /\ UNCHANGED <<record, clock>>
    BY <1>1 DEF LocalUnchanged, Observed, Acquired, Finish, TypeOK
  <2> QED BY <2>1, Frame
<1>2. ClientInv(c)'
  <2>1. ClientInv(c) /\ WorkerOf[c] \in Workers
    BY ClientsAssumption
  <2>2. seen[c] # NoRecord
    BY <2>1, WorkersAssumption DEF NoRecord
  <2> QED
    BY <2>1, <2>2 DEF Observed, Acquired, Finish, TypeOK, ClientInv, KnowledgeSound, Timely,
                Covered, Expires, NoRecord, LeaseTypeOK
<1> QED BY <1>1, <1>2

LEMMA AttemptKeeps ==
  ASSUME NEW c \in Clients, NEW r \in Record, TypeOK,
         \A d \in Clients : ClientInv(d), Attempt(c, r), op[c] # "none",
         WriteJustified(c)'
  PROVE  \A d \in Clients : ClientInv(d)'
<1>1. ASSUME NEW d \in Clients, d # c PROVE ClientInv(d)'
  <2>1. LocalUnchanged(d) /\ UNCHANGED <<record, clock>>
    BY <1>1 DEF LocalUnchanged, Attempt, TypeOK
  <2> QED BY <2>1, Frame
<1>2. ClientInv(c)'
  <2>1. ClientInv(c)
    OBVIOUS
  <2> QED
    BY <2>1 DEF Attempt, TypeOK, ClientInv, KnowledgeSound, Timely, Covered, Expires
<1> QED BY <1>1, <1>2

LEMMA DecideKeeps ==
  ASSUME NEW c \in Clients, LeaseInvariant,
         DecidePickUp(c) \/ DecideRenew(c) \/ DecideRelease(c)
  PROVE  LeaseInvariant'
<1>1. TypeOK /\ SkewBounded /\ Timely(record) /\ \A d \in Clients : ClientInv(d)
  BY LeaseInvariantParts
<1>2. /\ WorkerOf[c] \in Workers /\ Owned(c) \in Record /\ Unowned(c) \in Record
      /\ pc[c] # "idle" /\ op[c] # "none" /\ ClientInv(c)
  BY <1>1, OwnedType, UnownedType, ClientsAssumption
  DEF DecidePickUp, DecideRenew, DecideRelease
<1>3. ASSUME Refused(c) PROVE \A d \in Clients : ClientInv(d)'
  BY <1>1, <1>2, <1>3, RefusedKeeps
<1>4. ASSUME Observed(c), seen[c].worker = WorkerOf[c]
      PROVE \A d \in Clients : ClientInv(d)'
  BY <1>1, <1>4, ObservedKeeps
<1>5. ASSUME DecidePickUp(c) PROVE \A d \in Clients : ClientInv(d)'
  <2>1. ASSUME ~ SeenLive(c), Attempt(c, Owned(c)) PROVE WriteJustified(c)'
    BY <1>1, <1>2, <1>5, <2>1
    DEF DecidePickUp, Attempt, WriteJustified, Owned, Now, SeenLive, LiveAt, Expires,
        TypeOK, LeaseTypeOK, Record
  <2>2. ASSUME ~ SeenLive(c), Attempt(c, Owned(c)) PROVE \A d \in Clients : ClientInv(d)'
    <3>1. WriteJustified(c)'
      BY <2>1, <2>2
    <3> QED
      BY <1>1, <1>2, <2>2, <3>1, AttemptKeeps
  <2> QED
    BY <1>3, <1>4, <1>5, <2>2 DEF DecidePickUp
<1>6. ASSUME DecideRenew(c) PROVE \A d \in Clients : ClientInv(d)'
  <2>1. session[c].worker = WorkerOf[c]
    BY <1>2, <1>6 DEF DecideRenew, ClientInv, KnowledgeSound
  <2>2. ASSUME SeenLive(c), seen[c] = session[c], Attempt(c, Owned(c))
        PROVE WriteJustified(c)'
    BY <1>1, <1>2, <1>6, <2>1, <2>2
    DEF DecideRenew, Attempt, WriteJustified, Owned, Now, SeenLive, LiveAt, Expires,
        ClientInv, KnowledgeSound, Timely, TypeOK, LeaseTypeOK, Record
  <2>3. ASSUME SeenLive(c), seen[c] = session[c], Attempt(c, Owned(c))
        PROVE \A d \in Clients : ClientInv(d)'
    <3>1. WriteJustified(c)'
      BY <2>2, <2>3
    <3> QED
      BY <1>1, <1>2, <2>3, <3>1, AttemptKeeps
  <2> QED
    BY <1>3, <1>4, <1>6, <2>1, <2>3 DEF DecideRenew
<1>7. ASSUME DecideRelease(c) PROVE \A d \in Clients : ClientInv(d)'
  <2>1. session[c].worker = WorkerOf[c]
    BY <1>2, <1>7 DEF DecideRelease, ClientInv, KnowledgeSound
  <2>2. ASSUME seen[c] = session[c], Attempt(c, Unowned(c)) PROVE WriteJustified(c)'
    BY <1>1, <1>2, <1>7, <2>1, <2>2
    DEF DecideRelease, Attempt, WriteJustified, Unowned, TypeOK
  <2>3. ASSUME seen[c] = session[c], Attempt(c, Unowned(c))
        PROVE \A d \in Clients : ClientInv(d)'
    <3>1. WriteJustified(c)'
      BY <2>2, <2>3
    <3> QED
      BY <1>1, <1>2, <2>3, <3>1, AttemptKeeps
  <2> QED
    BY <1>3, <1>7, <2>3 DEF DecideRelease
<1>8. \A d \in Clients : ClientInv(d)'
  BY <1>5, <1>6, <1>7
<1>9. UNCHANGED <<record, clock>>
  BY DEF DecidePickUp, DecideRenew, DecideRelease, Observed, Acquired, Refused,
         NotAcquired, Finish, Attempt
<1>10. TypeOK'
  BY <1>1, TypeStep DEF Next, Step
<1> QED
  BY <1>1, <1>8, <1>9, <1>10, LeaseInvariantParts DEF LeaseInvariant, ClientInv, SkewBounded, Timely

(* A stored row is justified by the row it replaces, so every covered row  *)
(* other than a released one stays covered.                                *)
LEMMA StoreCovers ==
  ASSUME NEW c \in Clients, LeaseInvariant, CasStores(c), UNCHANGED clock,
         op[c] \in {"pickUp", "renew"},
         NEW r \in Record, r.worker \in Workers, Covered(r)
  PROVE  Covered(r)'
<1>1. /\ WorkerOf[c] \in Workers /\ WriteJustified(c) /\ record = seen[c] /\ record' = wanted[c]
      /\ record \in Record /\ wanted[c] \in Record /\ clock \in [Workers -> Nat]
  BY ClientsAssumption DEF LeaseInvariant, CasStores, TypeOK, LeaseTypeOK
<1>2. CASE \E v \in Workers : clock[v] >= Expires(r)
  BY <1>2 DEF Covered, Expires
<1>3. CASE record.worker = r.worker /\ record.picked >= r.picked
  <2>1. CASE op[c] = "pickUp"
    <3>1. clock[WorkerOf[c]] >= Expires(r)
      BY <1>1, <1>3, <2>1, TimeAssumption, WorkersAssumption
      DEF WriteJustified, LiveAt, Expires, Record
    <3> QED
      BY <1>1, <3>1 DEF Covered, Expires
  <2>2. CASE op[c] = "renew"
    BY <1>1, <1>3, <2>2 DEF WriteJustified, Covered, Record
  <2> QED
    BY <2>1, <2>2
<1> QED
  BY <1>2, <1>3 DEF Covered

LEMMA CasKeeps ==
  ASSUME NEW c \in Clients, LeaseInvariant, CasApplied(c) \/ CasAnswerLost(c)
  PROVE  LeaseInvariant'
<1>1. TypeOK /\ SkewBounded /\ Timely(record) /\ \A d \in Clients : ClientInv(d)
  BY LeaseInvariantParts
<1>2. /\ WorkerOf[c] \in Workers /\ CasStores(c) /\ UNCHANGED clock
      /\ op[c] \in {"pickUp", "renew", "release"} /\ WriteJustified(c) /\ ClientInv(c)
  <2>1. CasStores(c) /\ UNCHANGED clock
    BY DEF CasApplied, CasAnswerLost, Acquired, NotAcquired, Finish
  <2> QED
    BY <1>1, <2>1, ClientsAssumption DEF CasStores, LeaseInvariant, ClientInv, TypeOK, Ops
<1>3. TypeOK'
  BY <1>1, TypeStep DEF Next, Step
<1>4. SkewBounded'
  BY <1>1, <1>2 DEF SkewBounded
<1>5. Timely(record)'
  <2>1. CASE op[c] = "release"
    <3>1. record'.worker = None
      BY <1>1, <1>2, <2>1 DEF WriteJustified, Unowned, CasStores, TypeOK, Record
    <3> QED
      BY <3>1, WorkersAssumption DEF Timely
  <2>2. CASE op[c] # "release"
    BY <1>2, <2>2 DEF WriteJustified, Timely, CasStores
  <2> QED
    BY <2>1, <2>2
<1>6. ASSUME NEW d \in Clients, d # c PROVE ClientInv(d)'
  <2>1. LocalUnchanged(d)
    BY <1>6, <1>1 DEF LocalUnchanged, CasApplied, CasAnswerLost, CasStores, Acquired,
                      NotAcquired, Finish, TypeOK
  <2>2. op[c] = "release" => d \notin heldFresh' /\ d \notin seenFresh'
    BY DEF CasApplied, CasAnswerLost, CasStores
  <2>3. /\ Timely(seen[d])' /\ Timely(session[d])'
        /\ session'[d] # NoRecord => session'[d].worker = WorkerOf[d]
        /\ owns'[d] => session'[d] # NoRecord
        /\ op'[d] \in {"renew", "release"} => session'[d] # NoRecord
        /\ pc'[d] # "idle" => op'[d] # "none"
    BY <1>1, <1>2, <2>1 DEF LocalUnchanged, ClientInv, KnowledgeSound, Timely
  <2>4. pc'[d] = "cas" => WriteJustified(d)'
    BY <1>1, <1>2, <2>1 DEF LocalUnchanged, ClientInv, WriteJustified, Unowned, LiveAt, Expires
  <2>5. d \in heldFresh' => owns'[d] /\ Covered(session[d])'
    <3> SUFFICES ASSUME d \in heldFresh' PROVE owns'[d] /\ Covered(session[d])'
      OBVIOUS
    <3>1. /\ d \in heldFresh /\ owns[d] /\ session[d] \in Record /\ Covered(session[d])
          /\ session[d].worker \in Workers /\ session'[d] = session[d] /\ owns'[d]
      BY <1>1, <2>1, ClientsAssumption DEF LocalUnchanged, ClientInv, KnowledgeSound, TypeOK
    <3>2. op[c] \in {"pickUp", "renew"}
      BY <1>2, <2>2
    <3>3. \A r \in Record : r = session[d] => Covered(r)'
      BY <1>2, <3>1, <3>2, StoreCovers
    <3> QED
      BY <3>1, <3>3 DEF Covered, Expires
  <2>6. d \in seenFresh' /\ seen'[d].worker \in Workers => Covered(seen[d])'
    <3> SUFFICES ASSUME d \in seenFresh', seen'[d].worker \in Workers PROVE Covered(seen[d])'
      OBVIOUS
    <3>1. /\ d \in seenFresh /\ seen[d] \in Record /\ Covered(seen[d])
          /\ seen[d].worker \in Workers /\ seen'[d] = seen[d]
      BY <1>1, <2>1 DEF LocalUnchanged, ClientInv, KnowledgeSound, TypeOK
    <3>2. op[c] \in {"pickUp", "renew"}
      BY <1>2, <2>2
    <3>3. \A r \in Record : r = seen[d] => Covered(r)'
      BY <1>2, <3>1, <3>2, StoreCovers
    <3> QED
      BY <3>1, <3>3 DEF Covered, Expires
  <2> QED
    BY <2>3, <2>4, <2>5, <2>6 DEF ClientInv, KnowledgeSound
<1>7. ClientInv(c)'
  <2>1. seen'[c] = NoRecord /\ pc'[c] = "idle" /\ c \notin seenFresh' /\ op'[c] = "none"
    BY <1>1 DEF CasApplied, CasAnswerLost, CasStores, Acquired, NotAcquired, Finish, TypeOK
  <2>2. Timely(seen[c])'
    BY <2>1, WorkersAssumption DEF Timely, NoRecord
  <2>3. CASE NotAcquired(c)
    <3>1. c \notin heldFresh'
      BY <1>1, <2>3 DEF CasApplied, CasAnswerLost, Acquired, NotAcquired, TypeOK
    <3> QED
      BY <1>1, <1>2, <2>1, <2>2, <2>3, <3>1, WorkersAssumption
      DEF NotAcquired, ClientInv, KnowledgeSound, Timely, NoRecord, TypeOK
  <2>4. CASE Acquired(c, wanted[c]) /\ op[c] # "release"
    <3>1. /\ wanted[c].worker = WorkerOf[c] /\ wanted[c].picked <= clock[WorkerOf[c]]
          /\ wanted[c] \in Record
      BY <1>1, <1>2, <2>4 DEF WriteJustified, TypeOK
    <3>2. session'[c] = wanted[c] /\ owns'[c] /\ record' = wanted[c]
      BY <1>1, <1>2, <2>4 DEF Acquired, CasStores, TypeOK
    <3>3. Covered(session[c])'
      BY <3>1, <3>2 DEF Covered, Record
    <3>4. wanted[c] # NoRecord
      BY <1>2, <3>1, WorkersAssumption DEF NoRecord
    <3> QED
      BY <1>2, <2>1, <2>2, <3>1, <3>2, <3>3, <3>4 DEF ClientInv, KnowledgeSound, Timely
  <2> QED
    BY <2>3, <2>4 DEF CasApplied, CasAnswerLost
<1> QED
  BY <1>3, <1>4, <1>5, <1>6, <1>7 DEF LeaseInvariant, ClientInv

LEMMA TickKeeps ==
  ASSUME NEW w \in Workers, LeaseInvariant, Tick(w), UNCHANGED registryVars
  PROVE  LeaseInvariant'
<1>1. TypeOK /\ SkewBounded /\ Timely(record) /\ \A d \in Clients : ClientInv(d)
  BY LeaseInvariantParts
<1>2. TypeOK'
  BY <1>1, TypeStep DEF Next
<1>3. /\ clock \in [Workers -> Nat] /\ clock' \in [Workers -> Nat]
      /\ \A v \in Workers : clock'[v] >= clock[v]
  BY <1>1, <1>2 DEF Tick, TypeOK, LeaseTypeOK
<1>4. SkewBounded'
  BY <1>1, <1>3, TimeAssumption DEF SkewBounded, Tick
<1>5. ASSUME NEW r \in Record, Timely(r) PROVE r.worker \in Workers => r.picked <= clock'[r.worker]
  BY <1>3, <1>5 DEF Timely, Record
<1>6. Timely(record)'
  BY <1>1, <1>5 DEF Timely, Tick, TypeOK, LeaseTypeOK
<1>7. ASSUME NEW r \in Record, Covered(r)
      PROVE \/ record.worker = r.worker /\ record.picked >= r.picked
            \/ \E v \in Workers : clock'[v] >= Expires(r)
  <2>1. Expires(r) \in Int
    BY TimeAssumption DEF Expires, Record
  <2> QED
    BY <1>3, <1>7, <2>1 DEF Covered
<1>8. ASSUME NEW d \in Clients PROVE ClientInv(d)'
  <2>1. ClientInv(d) /\ seen[d] \in Record /\ session[d] \in Record /\ WorkerOf[d] \in Workers
    BY <1>1, ClientsAssumption DEF TypeOK
  <2>2. UNCHANGED <<op, pc, seen, wanted, session, owns, seenFresh, heldFresh, record>>
    BY DEF Tick, registryVars
  <2>3. Timely(seen[d])' /\ Timely(session[d])'
    BY <1>5, <2>1, <2>2 DEF ClientInv, KnowledgeSound, Timely
  <2>4. /\ d \in heldFresh => owns[d] /\ Covered(session[d])'
        /\ d \in seenFresh /\ seen[d].worker \in Workers => Covered(seen[d])'
    BY <1>7, <2>1, <2>2 DEF ClientInv, KnowledgeSound, Covered, Expires
  <2>5. KnowledgeSound(d)'
    BY <2>1, <2>2, <2>3, <2>4 DEF ClientInv, KnowledgeSound
  <2>6. pc[d] = "cas" => WriteJustified(d)'
    <3>1. wanted[d].picked \in Int
      BY <1>1 DEF TypeOK, Record
    <3> QED
      BY <1>3, <2>1, <2>2, <3>1 DEF ClientInv, WriteJustified, Unowned, LiveAt, Expires
  <2> QED
    BY <2>1, <2>2, <2>5, <2>6 DEF ClientInv
<1> QED
  BY <1>2, <1>4, <1>6, <1>8 DEF LeaseInvariant, ClientInv

(* The remaining steps move one client through its operation and leave the *)
(* row and the clocks alone.                                               *)
LEMMA LocalKeeps ==
  ASSUME LeaseInvariant, UNCHANGED <<record, clock>>, TypeOK',
         \A d \in Clients : ClientInv(d)'
  PROVE  LeaseInvariant'
  BY DEF LeaseInvariant, ClientInv, SkewBounded, Timely

LEMMA BeginKeeps ==
  ASSUME NEW c \in Clients, LeaseInvariant, PickUp(c) \/ Renew(c) \/ Release(c)
  PROVE  LeaseInvariant'
<1>1. TypeOK /\ (\A d \in Clients : ClientInv(d))
  BY LeaseInvariantParts
<1>2. TypeOK' /\ UNCHANGED <<record, clock>>
  BY <1>1, TypeStep DEF Next, PickUp, Renew, Release, Begin
<1>3. ASSUME NEW d \in Clients, d # c PROVE ClientInv(d)'
  <2>1. LocalUnchanged(d)
    BY <1>1, <1>3 DEF LocalUnchanged, PickUp, Renew, Release, Begin, TypeOK
  <2> QED BY <1>1, <1>2, <2>1, Frame
<1>4. ClientInv(c)'
  <2>1. ClientInv(c)
    BY <1>1
  <2> QED
    BY <1>1, <2>1 DEF PickUp, Renew, Release, Begin, TypeOK, ClientInv, KnowledgeSound,
                      Timely, Covered, Expires
<1> QED
  BY <1>2, <1>3, <1>4, LocalKeeps

LEMMA ReadKeeps ==
  ASSUME NEW c \in Clients, LeaseInvariant, Read(c)
  PROVE  LeaseInvariant'
<1>1. TypeOK /\ Timely(record) /\ (\A d \in Clients : ClientInv(d))
  BY LeaseInvariantParts
<1>2. TypeOK' /\ UNCHANGED <<record, clock>>
  BY <1>1, TypeStep DEF Next, Step, Read
<1>3. ASSUME NEW d \in Clients, d # c PROVE ClientInv(d)'
  <2>1. LocalUnchanged(d)
    BY <1>1, <1>3 DEF LocalUnchanged, Read, TypeOK
  <2> QED BY <1>1, <1>2, <2>1, Frame
<1>4. ClientInv(c)'
  <2>1. ClientInv(c) /\ record.picked \in Int
    BY <1>1 DEF TypeOK, LeaseTypeOK, Record
  <2> QED
    BY <1>1, <2>1 DEF Read, TypeOK, ClientInv, KnowledgeSound, Timely, Covered, Expires
<1> QED
  BY <1>2, <1>3, <1>4, LocalKeeps

LEMMA RetryKeeps ==
  ASSUME NEW c \in Clients, LeaseInvariant, CasRefused(c) \/ StorageFails(c)
  PROVE  LeaseInvariant'
<1>1. TypeOK /\ (\A d \in Clients : ClientInv(d))
  BY LeaseInvariantParts
<1>2. TypeOK' /\ UNCHANGED <<record, clock>> /\ pc[c] # "idle"
  BY <1>1, TypeStep DEF Next, Step, CasRefused, StorageFails, Refused, NotAcquired, Finish
<1>3. CASE Refused(c)
  BY <1>1, <1>2, <1>3, RefusedKeeps, LocalKeeps
<1>4. CASE ~ Refused(c)
  <2>1. ASSUME NEW d \in Clients, d # c PROVE ClientInv(d)'
    <3>1. LocalUnchanged(d)
      BY <1>1, <1>4, <2>1 DEF LocalUnchanged, CasRefused, StorageFails, TypeOK
    <3> QED BY <1>1, <1>2, <3>1, Frame
  <2>2. ClientInv(c)'
    <3>1. ClientInv(c)
      BY <1>1
    <3> QED
      BY <1>1, <1>4, <3>1, WorkersAssumption
      DEF CasRefused, StorageFails, TypeOK, ClientInv, KnowledgeSound, Timely, Covered,
          Expires, NoRecord
  <2> QED
    BY <1>2, <2>1, <2>2, LocalKeeps
<1> QED
  BY <1>3, <1>4

LEMMA CloseKeeps ==
  ASSUME NEW w \in Workers, LeaseInvariant, BeginClose(w) \/ CloseHandle(w)
  PROVE  LeaseInvariant'
<1>1. TypeOK /\ (\A d \in Clients : ClientInv(d))
  BY LeaseInvariantParts
<1>2. TypeOK' /\ UNCHANGED <<record, clock>>
  BY <1>1, TypeStep DEF Next, BeginClose, CloseHandle
<1>3. \A d \in Clients : LocalUnchanged(d)
  BY DEF LocalUnchanged, BeginClose, CloseHandle
<1> QED
  BY <1>1, <1>2, <1>3, Frame, LocalKeeps

LEMMA LeaseStep == LeaseInvariant /\ [Next]_vars => LeaseInvariant'
<1> SUFFICES ASSUME LeaseInvariant, [Next]_vars PROVE LeaseInvariant'
  OBVIOUS
<1>1. CASE Next
  BY <1>1, TickKeeps, BeginKeeps, ReadKeeps, DecideKeeps, CasKeeps, RetryKeeps, CloseKeeps
  DEF Next, Step
<1>2. CASE UNCHANGED vars
  BY <1>2 DEF vars, registryVars, LeaseInvariant, TypeOK, LeaseTypeOK, SkewBounded, Timely,
              KnowledgeSound, WriteJustified, Covered, Expires, LiveAt, Unowned
<1> QED
  BY <1>1, <1>2

LEMMA LeaseInitially == Init => LeaseInvariant
  BY NoRecordType, WorkersAssumption, TimeAssumption
  DEF Init, LeaseInit, LeaseInvariant, TypeOK, LeaseTypeOK, Ops, SkewBounded, Timely,
      KnowledgeSound, NoRecord

(* LeaseInvariant is an invariant of the registry.                         *)
THEOREM LeaseInvariance == Spec => []LeaseInvariant
  BY LeaseInitially, LeaseStep, PTL DEF Spec

-----------------------------------------------------------------------------
(* What follows from it.                                                   *)

(* A lease that is not within the skew of its end has run out on no clock, *)
(* so the row still names its holder: two holders share a worker.          *)
THEOREM Exclusion == Spec => []LeaseExclusion
<1>1. LeaseInvariant => LeaseExclusion
  <2> SUFFICES ASSUME LeaseInvariant, NEW c \in Clients, NEW d \in Clients,
                      HoldsLive(c), HoldsLive(d)
               PROVE  WorkerOf[c] = WorkerOf[d]
    BY DEF LeaseExclusion
  <2>1. ASSUME NEW e \in Clients, HoldsLive(e) PROVE record.worker = WorkerOf[e]
    <3>1. /\ session[e].worker = WorkerOf[e] /\ Covered(session[e])
          /\ WorkerOf[e] \in Workers /\ session[e] \in Record
          /\ clock \in [Workers -> Nat] /\ SkewBounded
      BY <2>1, ClientsAssumption
      DEF HoldsLive, LeaseInvariant, KnowledgeSound, TypeOK, LeaseTypeOK
    <3>2. ASSUME NEW v \in Workers PROVE clock[v] < Expires(session[e])
      BY <2>1, <3>1, <3>2, TimeAssumption DEF HoldsLive, SkewBounded, Expires, Record
    <3> QED
      BY <3>1, <3>2, TimeAssumption DEF Covered, Expires, Record
  <2> QED
    BY <2>1
<1> QED
  BY <1>1, LeaseInvariance, PTL

LEMMA RowChanges ==
  ASSUME LeaseInvariant, [Next]_vars, record' # record
  PROVE  /\ UNCHANGED clock
         /\ \E c \in Clients :
              pc[c] = "cas" /\ record = seen[c] /\ record' = wanted[c]
              /\ op[c] \in {"pickUp", "renew", "release"} /\ WriteJustified(c)
<1>1. PICK c \in Clients : CasApplied(c) \/ CasAnswerLost(c)
  BY DEF vars, Next, Step, Tick, PickUp, Renew, Release, Begin, Read, DecidePickUp,
         DecideRenew, DecideRelease, Observed, Refused, Attempt, CasRefused, StorageFails,
         BeginClose, CloseHandle
<1>2. CasStores(c) /\ UNCHANGED clock
  BY <1>1 DEF CasApplied, CasAnswerLost, Acquired, NotAcquired, Finish
<1> QED
  BY <1>2 DEF CasStores, LeaseInvariant, TypeOK, Ops

(* Only a pickup brings in another owner, and it found the row expired at  *)
(* a time its own clock has reached.                                       *)
THEOREM NoTheftHolds == Spec => NoTheft
<1>1. LeaseInvariant /\ [Next]_vars =>
        [ \A w \in Workers :
            record.worker = w /\ record'.worker \in Workers \ {w}
              => \E v \in Workers : clock[v] >= Expires(record) ]_vars
  <2> SUFFICES ASSUME LeaseInvariant, [Next]_vars, NEW w \in Workers,
                      record.worker = w, record'.worker \in Workers, record'.worker # w
               PROVE  \E v \in Workers : clock[v] >= Expires(record)
    OBVIOUS
  <2>1. PICK c \in Clients :
          /\ pc[c] = "cas" /\ record = seen[c] /\ record' = wanted[c]
          /\ op[c] \in {"pickUp", "renew", "release"} /\ WriteJustified(c)
    BY RowChanges
  <2>2. /\ WorkerOf[c] \in Workers /\ record \in Record /\ wanted[c] \in Record
        /\ clock \in [Workers -> Nat]
    BY ClientsAssumption DEF LeaseInvariant, TypeOK, LeaseTypeOK
  <2>3. op[c] = "pickUp"
    BY <2>1, <2>2, WorkersAssumption DEF WriteJustified, Unowned, Record
  <2>4. clock[WorkerOf[c]] >= Expires(record)
    BY <2>1, <2>2, <2>3, WorkersAssumption, TimeAssumption
    DEF WriteJustified, LiveAt, Expires, Record
  <2> QED
    BY <2>2, <2>4
<1> QED
  BY <1>1, LeaseInvariance, PTL DEF Spec, NoTheft

(* Every step of the registry is a clock tick, a claim, an extension, a    *)
(* relinquishment, or leaves the row and the clocks alone.                 *)
THEOREM Refinement == Spec => ImplementsLease
<1>1. Init => LeaseInit
  BY DEF Init
<1>2. LeaseInvariant /\ [Next]_vars => [LeaseNext]_leaseVars
  <2> SUFFICES ASSUME LeaseInvariant, [Next]_vars PROVE [LeaseNext]_leaseVars
    OBVIOUS
  <2>1. CASE record' # record
    <3>1. PICK c \in Clients :
            /\ pc[c] = "cas" /\ record = seen[c] /\ record' = wanted[c]
            /\ op[c] \in {"pickUp", "renew", "release"} /\ WriteJustified(c)
      BY <2>1, RowChanges
    <3>2. /\ UNCHANGED clock /\ WorkerOf[c] \in Workers /\ record \in Record
          /\ wanted[c] \in Record
      BY <2>1, RowChanges, ClientsAssumption DEF LeaseInvariant, TypeOK, LeaseTypeOK
    <3>3. wanted[c] = [worker |-> wanted[c].worker, picked |-> wanted[c].picked]
      BY <3>2 DEF Record
    <3>4. CASE op[c] = "pickUp"
      BY <3>1, <3>2, <3>3, <3>4 DEF WriteJustified, LeaseNext, Claim
    <3>5. CASE op[c] = "renew"
      BY <3>1, <3>2, <3>3, <3>5 DEF WriteJustified, LeaseNext, Extend
    <3>6. CASE op[c] = "release"
      BY <3>1, <3>2, <3>6 DEF WriteJustified, Unowned, LeaseNext, Relinquish
    <3> QED
      BY <3>1, <3>4, <3>5, <3>6
  <2>2. CASE record' = record /\ clock' # clock
    <3>1. PICK w \in Workers : Tick(w)
      BY <2>2 DEF vars, Next, Step, Tick, PickUp, Renew, Release, Begin, Read, DecidePickUp,
         DecideRenew, DecideRelease, Observed, Refused, Attempt, Acquired, NotAcquired, Finish,
         CasApplied, CasRefused, StorageFails, CasAnswerLost, BeginClose, CloseHandle
    <3> QED
      BY <3>1 DEF LeaseNext
  <2> QED
    BY <2>1, <2>2 DEF leaseVars
<1> QED
  BY <1>1, <1>2, LeaseInvariance, PTL DEF Spec, ImplementsLease, LeaseSpec

-----------------------------------------------------------------------------
(* Closing.                                                                *)

LEMMA BusyFinite == \A w \in Workers : IsFiniteSet(Busy(w)) /\ Cardinality(Busy(w)) \in Nat
  BY ClientsAssumption, FS_Subset, FS_CardinalityType DEF Busy

LEMMA BeginCounts ==
  ASSUME NEW c \in Clients, CloseInvariant, PickUp(c) \/ Renew(c) \/ Release(c)
  PROVE  CloseInvariant'
<1>1. TypeOK'
  BY TypeStep DEF CloseInvariant, Next
<1>2. /\ TypeOK /\ WorkerOf[c] \in Workers /\ c \notin Busy(WorkerOf[c])
      /\ handle[WorkerOf[c]] = "open"
      /\ active' = [active EXCEPT ![WorkerOf[c]] = @ + 1]
      /\ pc' = [pc EXCEPT ![c] = "read"] /\ handle' = handle
  BY ClientsAssumption DEF CloseInvariant, PickUp, Renew, Release, Begin, Busy
<1>3. ASSUME NEW w \in Workers PROVE active'[w] = Cardinality(Busy(w)')
  <2>1. CASE w = WorkerOf[c]
    <3>1. Busy(w)' = Busy(w) \union {c}
      BY <1>2, <2>1 DEF Busy, TypeOK
    <3>2. Cardinality(Busy(w)') = Cardinality(Busy(w)) + 1
      BY <1>2, <2>1, <3>1, BusyFinite, FS_AddElement
    <3> QED
      BY <1>2, <2>1, <3>2 DEF CloseInvariant, TypeOK
  <2>2. CASE w # WorkerOf[c]
    <3>1. Busy(w)' = Busy(w)
      BY <1>2, <2>2 DEF Busy, TypeOK
    <3> QED
      BY <1>2, <2>2, <3>1 DEF CloseInvariant, TypeOK
  <2> QED BY <2>1, <2>2
<1>4. ClosedHandleUnused'
  BY <1>2 DEF CloseInvariant, ClosedHandleUnused, TypeOK
<1> QED
  BY <1>1, <1>3, <1>4 DEF CloseInvariant

LEMMA FinishCounts ==
  ASSUME NEW c \in Clients, CloseInvariant, TypeOK', pc[c] # "idle", Finish(c)
  PROVE  CloseInvariant'
<1>1. /\ TypeOK /\ WorkerOf[c] \in Workers /\ c \in Busy(WorkerOf[c])
      /\ active' = [active EXCEPT ![WorkerOf[c]] = @ - 1]
      /\ pc' = [pc EXCEPT ![c] = "idle"] /\ handle' = handle
  BY ClientsAssumption DEF CloseInvariant, Finish, Busy
<1>2. ASSUME NEW w \in Workers PROVE active'[w] = Cardinality(Busy(w)')
  <2>1. CASE w = WorkerOf[c]
    <3>1. Busy(w)' = Busy(w) \ {c}
      BY <1>1, <2>1 DEF Busy, TypeOK
    <3>2. Cardinality(Busy(w)') = Cardinality(Busy(w)) - 1
      BY <1>1, <2>1, <3>1, BusyFinite, FS_RemoveElement
    <3> QED
      BY <1>1, <2>1, <3>2 DEF CloseInvariant, TypeOK
  <2>2. CASE w # WorkerOf[c]
    <3>1. Busy(w)' = Busy(w)
      BY <1>1, <2>2 DEF Busy, TypeOK
    <3> QED
      BY <1>1, <2>2, <3>1 DEF CloseInvariant, TypeOK
  <2> QED BY <2>1, <2>2
<1>3. ClosedHandleUnused'
  BY <1>1 DEF CloseInvariant, ClosedHandleUnused, TypeOK
<1> QED
  BY <1>2, <1>3 DEF CloseInvariant

(* Inside an operation the client stays admitted.                          *)
LEMMA InsideCounts ==
  ASSUME NEW c \in Clients, NEW p \in {"read", "decide", "cas"}, CloseInvariant, TypeOK',
         pc[c] # "idle", pc' = [pc EXCEPT ![c] = p], UNCHANGED <<active, handle>>
  PROVE  CloseInvariant'
<1>1. TypeOK /\ \A w \in Workers : Busy(w)' = Busy(w)
  BY DEF CloseInvariant, Busy, TypeOK
<1> QED
  BY <1>1 DEF CloseInvariant, ClosedHandleUnused, TypeOK

LEMMA CloseStep == CloseInvariant /\ [Next]_vars => CloseInvariant'
<1> SUFFICES ASSUME CloseInvariant, [Next]_vars PROVE CloseInvariant'
  OBVIOUS
<1>1. TypeOK /\ TypeOK'
  BY TypeStep DEF CloseInvariant
<1>2. CASE UNCHANGED <<pc, active, handle>>
  BY <1>1, <1>2 DEF CloseInvariant, ClosedHandleUnused, Busy
<1>3. ASSUME NEW c \in Clients, PickUp(c) \/ Renew(c) \/ Release(c) PROVE CloseInvariant'
  BY <1>3, BeginCounts
<1>4. ASSUME NEW c \in Clients, Step(c) \/ StorageFails(c) \/ CasAnswerLost(c)
      PROVE CloseInvariant'
  <2>1. pc[c] # "idle"
    BY <1>4 DEF Step, Read, DecidePickUp, DecideRenew, DecideRelease, CasApplied, CasStores,
                CasRefused, StorageFails, CasAnswerLost
  <2>2. \/ Finish(c)
        \/ \E p \in {"read", "decide", "cas"} :
             pc' = [pc EXCEPT ![c] = p] /\ UNCHANGED <<active, handle>>
    BY <1>4 DEF Step, Read, DecidePickUp, DecideRenew, DecideRelease, CasApplied,
                CasRefused, StorageFails, CasAnswerLost, Observed, Acquired, Refused,
                NotAcquired, Attempt
  <2> QED
    BY <1>1, <2>1, <2>2, FinishCounts, InsideCounts
<1>5. ASSUME NEW w \in Workers, BeginClose(w) PROVE CloseInvariant'
  BY <1>1, <1>5 DEF BeginClose, CloseInvariant, ClosedHandleUnused, Busy, TypeOK
<1>6. ASSUME NEW w \in Workers, CloseHandle(w) PROVE CloseInvariant'
  <2>1. Busy(w) = {}
    BY <1>6, BusyFinite, FS_EmptySet DEF CloseHandle, CloseInvariant
  <2> QED
    BY <1>1, <1>6, <2>1, ClientsAssumption
    DEF CloseHandle, CloseInvariant, ClosedHandleUnused, Busy, TypeOK
<1> QED
  BY <1>2, <1>3, <1>4, <1>5, <1>6 DEF Next, Tick, vars, registryVars

(* #active counts exactly the operations between #storage() and #finish(), *)
(* so the handle is closed only when no operation can still use it.        *)
THEOREM ClosedHandleUnusedHolds == Spec => []ClosedHandleUnused
<1>1. Init => CloseInvariant
  <2> SUFFICES ASSUME Init PROVE CloseInvariant
    OBVIOUS
  <2>1. TypeOK
    BY NoRecordType DEF Init, LeaseInit, TypeOK, LeaseTypeOK, Ops
  <2>2. \A w \in Workers : Busy(w) = {}
    BY DEF Init, Busy
  <2>3. Cardinality({}) = 0
    BY FS_EmptySet
  <2> QED
    BY <2>1, <2>2, <2>3 DEF Init, CloseInvariant, ClosedHandleUnused
<1>2. CloseInvariant => ClosedHandleUnused
  BY DEF CloseInvariant
<1> QED
  BY <1>1, <1>2, CloseStep, PTL DEF Spec
=============================================================================
