------------------------ MODULE ShardedWorkRegistry ------------------------
(***************************************************************************)
(* ShardedWorkRegistry: renewable exclusive ownership of one delivery      *)
(* shard, kept in a record that every node reads and compare-and-sets.     *)
(* A client is one caller (a drain) of one node's registry; several        *)
(* clients may share a worker identity.  Each operation is a storage read, *)
(* a local decision made later at the worker's clock, and a storage        *)
(* compare-and-set, retried when another writer got in between.  Storage   *)
(* may fail, also after it has applied the write.                          *)
(***************************************************************************)
EXTENDS ShardLease, FiniteSets

CONSTANTS
  Clients,    \* concurrent callers
  WorkerOf,   \* the worker identity of each client
  Retries,    \* compare-and-set attempts per operation (8 in the code)
  Closers     \* the workers whose registry may be closed

ASSUME ClientsAssumption ==
  /\ IsFiniteSet(Clients) /\ WorkerOf \in [Clients -> Workers]
  /\ Retries \in Nat \ {0}
  /\ Closers \subseteq Workers

VARIABLES
  op,         \* the operation a client is executing
  pc,         \* where in that operation the client is
  seen,       \* the record its last storage read returned
  wanted,     \* the record its compare-and-set writes
  tries,      \* failed compare-and-sets of the current operation
  session,    \* the last session snapshot the client was given
  owns,       \* the client's last operation gave it that session
  handle,     \* per worker: the retained storage handle of its registry
  active,     \* per worker: admitted operations (#active)
  seenFresh,  \* history: clients whose last read no release has followed
  heldFresh   \* history: clients whose session no release has followed

registryVars == <<op, pc, seen, wanted, tries, session, owns, handle, active,
                  seenFresh, heldFresh>>
vars == <<record, clock, registryVars>>

Ops == {"none", "pickUp", "renew", "release"}

TypeOK ==
  /\ LeaseTypeOK
  /\ op \in [Clients -> Ops]
  /\ pc \in [Clients -> {"idle", "read", "decide", "cas"}]
  /\ seen \in [Clients -> Record]
  /\ wanted \in [Clients -> Record]
  /\ tries \in [Clients -> Nat]
  /\ session \in [Clients -> Record]
  /\ owns \in [Clients -> BOOLEAN]
  /\ handle \in [Workers -> {"open", "closing", "closed"}]
  /\ active \in [Workers -> Int]
  /\ seenFresh \subseteq Clients
  /\ heldFresh \subseteq Clients

Init ==
  /\ LeaseInit
  /\ op = [c \in Clients |-> "none"]
  /\ pc = [c \in Clients |-> "idle"]
  /\ seen = [c \in Clients |-> NoRecord]
  /\ wanted = [c \in Clients |-> NoRecord]
  /\ tries = [c \in Clients |-> 0]
  /\ session = [c \in Clients |-> NoRecord]
  /\ owns = [c \in Clients |-> FALSE]
  /\ handle = [w \in Workers |-> "open"]
  /\ active = [w \in Workers |-> 0]
  /\ seenFresh = {}
  /\ heldFresh = {}

-----------------------------------------------------------------------------
(* How an operation starts and ends.                                       *)

\* #storage(): admits the operation unless close() has begun.
Begin(c, kind) ==
  /\ pc[c] = "idle"
  /\ handle[WorkerOf[c]] = "open"
  /\ op' = [op EXCEPT ![c] = kind]
  /\ pc' = [pc EXCEPT ![c] = "read"]
  /\ active' = [active EXCEPT ![WorkerOf[c]] = @ + 1]
  /\ UNCHANGED <<record, clock, seen, wanted, tries, session, owns, handle,
                 seenFresh, heldFresh>>


\* #finish(): every operation leaves through it; its locals are dropped.
Finish(c) ==
  /\ op' = [op EXCEPT ![c] = "none"]
  /\ pc' = [pc EXCEPT ![c] = "idle"]
  /\ seen' = [seen EXCEPT ![c] = NoRecord]
  /\ wanted' = [wanted EXCEPT ![c] = NoRecord]
  /\ tries' = [tries EXCEPT ![c] = 0]
  /\ active' = [active EXCEPT ![WorkerOf[c]] = @ - 1]
  /\ UNCHANGED <<clock, handle>>

\* The operation returns session s to its caller.
Acquired(c, s) ==
  /\ session' = [session EXCEPT ![c] = s]
  /\ owns' = [owns EXCEPT ![c] = TRUE]
  /\ Finish(c)

\* The operation returns undefined or throws; a caller that loses its
\* session still keeps the snapshot it will later release.
NotAcquired(c) ==
  /\ owns' = [owns EXCEPT ![c] = FALSE]
  /\ session' = [session EXCEPT ![c] = IF op[c] = "release" THEN NoRecord ELSE @]
  /\ Finish(c)

\* pickUp() by a caller that owns nothing.
PickUp(c) == session[c] = NoRecord /\ Begin(c, "pickUp")

\* renew() and validateOwnership().
Renew(c) == owns[c] /\ Begin(c, "renew")

\* release(), also of a session the caller has already lost.
Release(c) == session[c] # NoRecord /\ Begin(c, "release")

-----------------------------------------------------------------------------
(* The three steps of an operation.                                        *)

Read(c) ==
  /\ pc[c] = "read"
  /\ seen' = [seen EXCEPT ![c] = record]
  /\ seenFresh' = seenFresh \union {c}
  /\ pc' = [pc EXCEPT ![c] = "decide"]
  /\ UNCHANGED <<record, clock, op, wanted, tries, session, owns, handle,
                 active, heldFresh>>

Attempt(c, r) ==
  /\ wanted' = [wanted EXCEPT ![c] = r]
  /\ pc' = [pc EXCEPT ![c] = "cas"]
  /\ UNCHANGED <<record, clock, op, seen, tries, session, owns, handle,
                 active, seenFresh, heldFresh>>

\* The decision hands out the record that was read, without a write.
Observed(c) ==
  /\ Acquired(c, seen[c])
  /\ heldFresh' = IF c \in seenFresh THEN heldFresh \union {c} ELSE heldFresh \ {c}
  /\ seenFresh' = seenFresh \ {c}
  /\ UNCHANGED record

Refused(c) ==
  /\ NotAcquired(c)
  /\ seenFresh' = seenFresh \ {c}
  /\ heldFresh' = heldFresh \ {c}
  /\ UNCHANGED record

Now(c) == clock[WorkerOf[c]]

\* Mutant: the row keeps the end of the lease instead of its start.
OwnedUntil(c) == [worker |-> WorkerOf[c], picked |-> Now(c) + Lease]

Owned(c) == [worker |-> WorkerOf[c], picked |-> Now(c)]
Unowned(c) == [seen[c] EXCEPT !.worker = None]

SeenLive(c) == LiveAt(seen[c], Now(c))

DecidePickUp(c) ==
  /\ pc[c] = "decide" /\ op[c] = "pickUp"
  /\ \/ SeenLive(c) /\ seen[c].worker = WorkerOf[c] /\ Observed(c)
     \/ SeenLive(c) /\ seen[c].worker # WorkerOf[c] /\ Refused(c)
     \/ ~ SeenLive(c) /\ Attempt(c, Owned(c))

DecideRenew(c) ==
  /\ pc[c] = "decide" /\ op[c] = "renew"
  /\ \/ SeenLive(c) /\ seen[c] = session[c] /\ Attempt(c, Owned(c))
     \/ /\ SeenLive(c) /\ seen[c] # session[c]
        /\ seen[c].worker = session[c].worker
        /\ Observed(c)
     \/ /\ ~ SeenLive(c) \/ seen[c].worker # session[c].worker
        /\ Refused(c)

DecideRelease(c) ==
  /\ pc[c] = "decide" /\ op[c] = "release"
  /\ \/ SeenLive(c) /\ seen[c] = session[c] /\ Attempt(c, Unowned(c))
     \/ ~ (SeenLive(c) /\ seen[c] = session[c]) /\ Refused(c)


\* Mutant: a plain write instead of the compare-and-set.
CasStoresBlindly(c) ==
  /\ pc[c] = "cas"
  /\ record' = wanted[c]
  /\ seenFresh' = IF op[c] = "release" THEN {} ELSE seenFresh \ {c}

\* A compare-and-set takes effect in storage.  A release makes every session
\* and every read made before it stale.
CasStores(c) ==
  /\ pc[c] = "cas"
  /\ record = seen[c]
  /\ record' = wanted[c]
  /\ seenFresh' = IF op[c] = "release" THEN {} ELSE seenFresh \ {c}

CasApplied(c) ==
  /\ CasStores(c)
  /\ \/ op[c] = "release" /\ NotAcquired(c) /\ heldFresh' = {}
     \/ /\ op[c] # "release" /\ Acquired(c, wanted[c])
        /\ heldFresh' = heldFresh \union {c}


\* Mutant: conflicts are retried without counting them.
CasRefusedForever(c) ==
  /\ pc[c] = "cas"
  /\ record # seen[c]
  /\ pc' = [pc EXCEPT ![c] = "read"]
  /\ seen' = [seen EXCEPT ![c] = NoRecord]
  /\ wanted' = [wanted EXCEPT ![c] = NoRecord]
  /\ seenFresh' = seenFresh \ {c}
  /\ UNCHANGED <<record, clock, op, tries, session, owns, handle, active, heldFresh>>

\* Another writer got in: read again, or throw once the attempts are used up.
CasRefused(c) ==
  /\ pc[c] = "cas"
  /\ record # seen[c]
  /\ \/ /\ tries[c] + 1 < Retries
        /\ tries' = [tries EXCEPT ![c] = @ + 1]
        /\ pc' = [pc EXCEPT ![c] = "read"]
        /\ seen' = [seen EXCEPT ![c] = NoRecord]
        /\ wanted' = [wanted EXCEPT ![c] = NoRecord]
        /\ seenFresh' = seenFresh \ {c}
        /\ UNCHANGED <<record, clock, op, session, owns, handle, active,
                       heldFresh>>
     \/ /\ tries[c] + 1 >= Retries
        /\ Refused(c)

\* Storage rejects a read or a write it has not applied.
StorageFails(c) ==
  /\ pc[c] \in {"read", "cas"}
  /\ Refused(c)

\* Storage applies the write, but its answer is an error.
CasAnswerLost(c) ==
  /\ CasStores(c)
  /\ NotAcquired(c)
  /\ heldFresh' = IF op[c] = "release" THEN {} ELSE heldFresh \ {c}

-----------------------------------------------------------------------------
(* close(): refuses new operations, then closes the handle when the        *)
(* admitted ones have drained.                                             *)
BeginClose(w) ==
  /\ w \in Closers
  /\ handle[w] = "open"
  /\ handle' = [handle EXCEPT ![w] = "closing"]
  /\ UNCHANGED <<record, clock, op, pc, seen, wanted, tries, session, owns,
                 active, seenFresh, heldFresh>>


\* Mutant: the handle is closed under the admitted operations.
CloseHandleAtOnce(w) ==
  /\ handle[w] = "closing"
  /\ handle' = [handle EXCEPT ![w] = "closed"]
  /\ UNCHANGED <<record, clock, op, pc, seen, wanted, tries, session, owns,
                 active, seenFresh, heldFresh>>

CloseHandle(w) ==
  /\ handle[w] = "closing"
  /\ active[w] = 0
  /\ handle' = [handle EXCEPT ![w] = "closed"]
  /\ UNCHANGED <<record, clock, op, pc, seen, wanted, tries, session, owns,
                 active, seenFresh, heldFresh>>

Step(c) ==
  \/ Read(c) \/ DecidePickUp(c) \/ DecideRenew(c) \/ DecideRelease(c)
  \/ CasApplied(c) \/ CasRefused(c)

Next ==
  \/ \E w \in Workers : Tick(w) /\ UNCHANGED registryVars
  \/ \E c \in Clients :
       \/ PickUp(c) \/ Renew(c) \/ Release(c)
       \/ Step(c) \/ StorageFails(c) \/ CasAnswerLost(c)
  \/ \E w \in Workers : BeginClose(w) \/ CloseHandle(w)

Spec == Init /\ [][Next]_vars

\* Storage answers every request, and Node runs every ready continuation.
Fairness ==
  /\ \A c \in Clients : WF_vars(Step(c))
  /\ \A w \in Workers : WF_vars(CloseHandle(w))

FairSpec == Spec /\ Fairness

-----------------------------------------------------------------------------
(* Properties.                                                             *)

\* The client may still act on its session: its last operation granted it,
\* no release has revoked it, and its lease is not within the clock skew of
\* its end.
HoldsLive(c) ==
  /\ owns[c] /\ c \in heldFresh
  /\ Expires(session[c]) > clock[WorkerOf[c]] + MaxSkew

(* Two different workers never hold a running lease of the shard at the    *)
(* same time (pickUp, renew and release of ShardedWorkRegistry), whatever  *)
(* they read before the other one wrote.                                   *)
LeaseExclusion ==
  \A c, d \in Clients :
    HoldsLive(c) /\ HoldsLive(d) => WorkerOf[c] = WorkerOf[d]

(* The row never passes from one owner to another, and never loses its     *)
(* owner through someone else's release, before that owner's lease has run *)
(* out on some node's clock.                                               *)
NoTheft ==
  [][ \A w \in Workers :
        record.worker = w /\ record'.worker \in Workers \ {w}
          => \E v \in Workers : clock[v] >= Expires(record) ]_vars

(* close() lets every admitted operation finish: once the retained storage *)
(* handle is closed, no operation of that worker is between its read and   *)
(* its compare-and-set.                                                    *)
ClosedHandleUnused ==
  \A c \in Clients : handle[WorkerOf[c]] = "closed" => pc[c] = "idle"

(* A close() that has begun completes.                                     *)
CloseCompletes == \A w \in Workers : handle[w] = "closing" ~> handle[w] = "closed"

(* The asynchronous registry changes the row only as the abstract lease    *)
(* allows: claims, extensions and relinquishments.                         *)
ImplementsLease == LeaseSpec

-----------------------------------------------------------------------------
(* The inductive invariant behind LeaseExclusion, NoTheft and              *)
(* ImplementsLease.                                                        *)

\* No clock is further ahead of another one than the skew allows.
SkewBounded == \A v, w \in Workers : clock[v] <= clock[w] + MaxSkew

\* A row naming an owner is either still in storage, possibly extended, or
\* has run out on some clock.
Covered(r) ==
  \/ record.worker = r.worker /\ record.picked >= r.picked
  \/ \E v \in Workers : clock[v] >= Expires(r)

\* A worker's name is written only with a time its own clock has reached.
Timely(r) == r.worker \in Workers => r.picked <= clock[r.worker]

\* What a client knows of the row it read and of the session it holds.
KnowledgeSound(c) ==
  /\ Timely(seen[c]) /\ Timely(session[c])
  /\ session[c] # NoRecord => session[c].worker = WorkerOf[c]
  /\ owns[c] => session[c] # NoRecord
  /\ op[c] \in {"renew", "release"} => session[c] # NoRecord
  /\ c \in heldFresh => owns[c] /\ Covered(session[c])
  /\ c \in seenFresh /\ seen[c].worker \in Workers => Covered(seen[c])

\* What a pending compare-and-set writes follows from what it expects.
WriteJustified(c) ==
  LET t == wanted[c].picked IN
  /\ op[c] = "pickUp" =>
       wanted[c].worker = WorkerOf[c] /\ t \in 0 .. clock[WorkerOf[c]] /\ ~ LiveAt(seen[c], t)
  /\ op[c] = "renew" =>
       /\ seen[c].worker = WorkerOf[c] /\ wanted[c].worker = WorkerOf[c]
       /\ t \in 0 .. clock[WorkerOf[c]] /\ seen[c].picked <= t /\ LiveAt(seen[c], t)
  /\ op[c] = "release" =>
       seen[c].worker = WorkerOf[c] /\ wanted[c] = Unowned(c)

LeaseInvariant ==
  /\ TypeOK
  /\ SkewBounded
  /\ Timely(record)
  /\ \A c \in Clients :
       /\ KnowledgeSound(c)
       /\ pc[c] # "idle" => op[c] # "none"
       /\ pc[c] = "cas" => WriteJustified(c)

\* The clients with an admitted operation on worker w's registry.
Busy(w) == {c \in Clients : WorkerOf[c] = w /\ pc[c] # "idle"}

\* The inductive invariant behind ClosedHandleUnused: #active counts the
\* admitted operations, and none is left once the handle is closed.
CloseInvariant ==
  /\ TypeOK
  /\ \A w \in Workers : active[w] = Cardinality(Busy(w))
  /\ ClosedHandleUnused
=============================================================================
