------------------------- MODULE LeasedNodeRegistry -------------------------
(***************************************************************************)
(* LeasedNodeRegistry: the application nodes that a gateway may route to,  *)
(* one leased row per node, in storage that every process shares.  A       *)
(* client is one registration identity (one process start) together with   *)
(* the node it speaks for; several clients may speak for one node, because *)
(* a node identity is reused, and several may call one registry handle.    *)
(* Each operation is a sequence of storage calls with other processes in   *)
(* between; a call may fail, also after it was applied, and the signal of  *)
(* an operation may be aborted at any moment.                              *)
(***************************************************************************)
EXTENDS Integers, FiniteSets

CONSTANTS
  Nodes,      \* node identities, in the order in which storage sorts them
  Clients,    \* registration identities
  NodeOf,     \* the node a client speaks for
  Handles,    \* registry handles
  HandleOf,   \* the handle a client calls
  None,       \* an absent row
  Term,       \* how long a written lease runs
  Skew,       \* how far a client's clock may be from the true time
  Batch,      \* rows of one cleanup pass
  PageSize,   \* rows of one page of a snapshot
  Calls,      \* bound: the kinds of operation each client calls
  MaxTime     \* bound: the last instant explored

ASSUME NodesAssumption == Nodes \subseteq Nat \ {0} /\ IsFiniteSet(Nodes)
ASSUME CallersAssumption == NodeOf \in [Clients -> Nodes] /\ HandleOf \in [Clients -> Handles]
ASSUME LeaseAssumption ==
  /\ Term \in Nat \ {0} /\ Skew \in Nat /\ MaxTime \in Nat
  /\ Batch \in Nat \ {0} /\ PageSize \in Nat \ {0}
  /\ None \notin [by : Clients, expires : Int]

VARIABLES
  time,     \* the true time
  rows,     \* storage: the lease of each node
  op,       \* the operation a client is executing
  answer,   \* how the client's last operation ended
  aborted,  \* clients whose current operation has an aborted signal
  cursor,   \* per handle: #cleanupAfter, 0 when it is unset
  orphans,  \* per handle: deletions of a rejected cleanup still under way
  handle,   \* per handle: open, closing or closed
  snapshot, \* the nodes the client's last read() returned, or None
  lapsed,   \* history: nodes without a live row at some moment of the client's last read()
  ends      \* history: when the lease last stored for the client runs out

registryVars == <<time, rows, op, answer, aborted, cursor, orphans, handle, snapshot, lapsed, ends>>

Lease == [by : Clients, expires : Int]
Row == Lease \union {None}

Op == [kind : {"none", "register", "renew", "remove", "lookup", "cleanup", "snapshot"},
       step : {"none", "read", "write", "page", "sweep"},
       seen : Row, lease : Row, now : Int, left : SUBSET (Nodes \X Lease),
       after : Nat, got : SUBSET Nodes]

CallFrom(kind, step, lease, now, after) ==
  [kind |-> kind, step |-> step, seen |-> None, lease |-> lease, now |-> now,
   left |-> {}, after |-> after, got |-> {}]

Call(kind, step, lease, now) == CallFrom(kind, step, lease, now, 0)

Idle == Call("none", "none", None, 0)

TypeOK ==
  /\ time \in Nat
  /\ rows \in [Nodes -> Row]
  /\ op \in [Clients -> Op]
  /\ answer \in [Clients -> {"none", "true", "false", "failed"}]
  /\ aborted \subseteq Clients
  /\ cursor \in [Handles -> Nat]
  /\ orphans \in [Handles -> SUBSET (Nodes \X Lease)]
  /\ handle \in [Handles -> {"open", "closing", "closed"}]
  /\ snapshot \in [Clients -> (SUBSET Nodes) \union {None}]
  /\ lapsed \in [Clients -> SUBSET Nodes]
  /\ ends \in [Clients -> Int]

RegistryInit ==
  /\ time = 0
  /\ rows = [n \in Nodes |-> None]
  /\ op = [c \in Clients |-> Idle]
  /\ answer = [c \in Clients |-> "none"]
  /\ aborted = {}
  /\ cursor = [h \in Handles |-> 0]
  /\ orphans = [h \in Handles |-> {}]
  /\ handle = [h \in Handles |-> "open"]
  /\ snapshot = [c \in Clients |-> None]
  /\ lapsed = [c \in Clients |-> {}]
  /\ ends = [c \in Clients |-> -1]

-----------------------------------------------------------------------------
(* Calls.                                                                  *)

\* What a client's clock may show.
Clock == (time - Skew .. time + Skew) \intersect Nat

\* A row that a reader of the registry takes for live.
Live(row, now) == row # None /\ row.expires > now

\* start(): the handle is open, and from here on close() joins the call.
Begin(c, call) ==
  /\ op[c].kind = "none"
  /\ handle[HandleOf[c]] = "open"
  /\ op' = [op EXCEPT ![c] = call]
  /\ answer' = [answer EXCEPT ![c] = "none"]
  /\ aborted' = aborted \ {c}
  /\ snapshot' = [snapshot EXCEPT ![c] = None]
  /\ lapsed' = [lapsed EXCEPT ![c] = IF call.kind = "snapshot"
                                     THEN {n \in Nodes : ~ Live(rows[n], call.now)} ELSE {}]
  /\ UNCHANGED <<time, rows, cursor, orphans, handle, ends>>

NewLease(c, now) == [by |-> c, expires |-> now + Term]

Register(c) == \E now \in Clock : Begin(c, Call("register", "write", NewLease(c, now), now))
Renew(c) == \E now \in Clock : Begin(c, Call("renew", "read", NewLease(c, now), now))
Remove(c) == Begin(c, Call("remove", "read", None, 0))
Lookup(c) == \E now \in Clock : Begin(c, Call("lookup", "read", None, now))
Cleanup(c) ==
  \E now \in Clock : Begin(c, CallFrom("cleanup", "page", None, now, cursor[HandleOf[c]]))
Snapshot(c) == \E now \in Clock : Begin(c, Call("snapshot", "page", None, now))

\* The caller aborts the signal of its operation, or its deadline does.
Abort(c) ==
  /\ op[c].kind # "none" /\ c \notin aborted
  /\ aborted' = aborted \union {c}
  /\ UNCHANGED <<time, rows, op, answer, cursor, orphans, handle, snapshot, lapsed, ends>>

-----------------------------------------------------------------------------
(* The storage calls of an operation.                                      *)

Ends(c, result) ==
  /\ op' = [op EXCEPT ![c] = Idle]
  /\ answer' = [answer EXCEPT ![c] = result]

\* An operation that looks at its signal after its last storage call.
EndsUnlessAborted(c, result) == Ends(c, IF c \in aborted THEN "failed" ELSE result)

\* The row of node n becomes r.
Store(n, r) ==
  /\ rows' = [rows EXCEPT ![n] = r]
  /\ lapsed' = [c \in Clients |-> IF op[c].kind = "snapshot" /\ ~ Live(r, op[c].now)
                                  THEN lapsed[c] \union {n} ELSE lapsed[c]]
  /\ ends' = IF r = None THEN ends ELSE [ends EXCEPT ![r.by] = r.expires]

Owns(c) == rows[NodeOf[c]] # None /\ rows[NodeOf[c]].by = c

\* The read of renew(), remove() and lookup().  A lookup is answered for the
\* caller's own identity.
ReadRow(c) ==
  /\ op[c].step = "read"
  /\ \/ c \in aborted /\ Ends(c, "failed")
     \/ /\ c \notin aborted /\ op[c].kind = "lookup"
        /\ Ends(c, IF Owns(c) /\ Live(rows[NodeOf[c]], op[c].now) THEN "true" ELSE "false")
     \/ c \notin aborted /\ op[c].kind # "lookup" /\ ~ Owns(c) /\ Ends(c, "false")
     \/ /\ c \notin aborted /\ op[c].kind # "lookup" /\ Owns(c)
        /\ op' = [op EXCEPT ![c].step = "write", ![c].seen = rows[NodeOf[c]]]
        /\ UNCHANGED answer
  /\ UNCHANGED <<time, rows, aborted, cursor, orphans, handle, snapshot, lapsed, ends>>

\* The compare-and-set of register(), renew() and remove().
Write(c) ==
  /\ op[c].step = "write"
  /\ \/ /\ rows[NodeOf[c]] = op[c].seen
        /\ Store(NodeOf[c], op[c].lease)
        /\ EndsUnlessAborted(c, "true")
     \/ /\ rows[NodeOf[c]] # op[c].seen
        /\ EndsUnlessAborted(c, "false")
        /\ UNCHANGED <<rows, lapsed, ends>>
  /\ UNCHANGED <<time, aborted, cursor, orphans, handle, snapshot>>

\* The compare-and-set is applied and its answer lost.
WriteLost(c) ==
  /\ op[c].step = "write" /\ rows[NodeOf[c]] = op[c].seen
  /\ Store(NodeOf[c], op[c].lease)
  /\ Ends(c, "failed")
  /\ UNCHANGED <<time, aborted, cursor, orphans, handle, snapshot>>

StorageFails(c) ==
  /\ op[c].step \in {"read", "write", "page"}
  /\ Ends(c, "failed")
  /\ UNCHANGED <<time, rows, aborted, cursor, orphans, handle, snapshot, lapsed, ends>>

Listed == {n \in Nodes : rows[n] # None}

\* The first rows behind a position, and the last of them.
Page(after, size) ==
  {n \in Listed : n > after /\ Cardinality({m \in Listed : after < m /\ m <= n}) <= size}
Last(page) == CHOOSE n \in page : \A m \in page : m <= n

\* Mutant: the cursor is never taken back to the first row.
NextCursorStuck(page) == IF page = {} THEN Cardinality(Nodes) ELSE Last(page)

\* A short page ends the pass over the rows.
NextCursor(page) == IF Cardinality(page) < Batch THEN 0 ELSE Last(page)

\* The rows of a page to delete, as they were read.
Expired(page, now) == {<<n, rows[n]>> : n \in {m \in page : rows[m].expires <= now}}

\* cleanup() reads its page; the deletions of what has expired start together.
CleanupPage(c) ==
  LET h == HandleOf[c]
      page == Page(op[c].after, Batch)
      expired == Expired(page, op[c].now)
  IN /\ op[c].kind = "cleanup" /\ op[c].step = "page"
     /\ \/ c \in aborted /\ Ends(c, "failed") /\ UNCHANGED cursor
        \/ /\ c \notin aborted
           /\ cursor' = [cursor EXCEPT ![h] = NextCursor(page)]
           /\ IF expired = {} THEN Ends(c, "true")
              ELSE op' = [op EXCEPT ![c].step = "sweep", ![c].left = expired, ![c].after = 0] /\ UNCHANGED answer
     /\ UNCHANGED <<time, rows, aborted, orphans, handle, snapshot, lapsed, ends>>

\* Mutant: the deletion does not compare the row.
DeletesAny(d) == Store(d[1], None)

\* One conditional deletion reaches storage.
Deletes(d) ==
  IF rows[d[1]] = d[2] THEN Store(d[1], None) ELSE UNCHANGED <<rows, lapsed, ends>>

Sweep(c) ==
  /\ op[c].step = "sweep"
  /\ \E d \in op[c].left :
       /\ Deletes(d)
       /\ IF op[c].left = {d} THEN Ends(c, "true")
          ELSE op' = [op EXCEPT ![c].left = @ \ {d}] /\ UNCHANGED answer
  /\ UNCHANGED <<time, aborted, cursor, orphans, handle, snapshot>>

\* A deletion fails, before or after it was applied: cleanup() rejects at
\* once, and the other deletions go on.
SweepFails(c) ==
  /\ op[c].step = "sweep"
  /\ \E d \in op[c].left :
       /\ Deletes(d) \/ UNCHANGED <<rows, lapsed, ends>>
       /\ orphans' = [orphans EXCEPT ![HandleOf[c]] = @ \union (op[c].left \ {d})]
  /\ Ends(c, "failed")
  /\ UNCHANGED <<time, aborted, cursor, handle, snapshot>>

\* A deletion that outlived its cleanup ends, well or not.
OrphanEnds(h) ==
  /\ \E d \in orphans[h] :
       /\ Deletes(d) \/ UNCHANGED <<rows, lapsed, ends>>
       /\ orphans' = [orphans EXCEPT ![h] = @ \ {d}]
  /\ UNCHANGED <<time, op, answer, aborted, cursor, handle, snapshot>>

\* Mutant: the next page starts behind a row that was not read.
NextAfterSkips(page) == Last(page) + 1

NextAfter(page) == Last(page)

\* One page of read(); a short page is the last one.
SnapshotPage(c) ==
  LET page == Page(op[c].after, PageSize)
      got == op[c].got \union {n \in page : Live(rows[n], op[c].now)}
  IN /\ op[c].kind = "snapshot"
     /\ \/ c \in aborted /\ Ends(c, "failed") /\ UNCHANGED snapshot
        \/ /\ c \notin aborted /\ Cardinality(page) < PageSize
           /\ Ends(c, "true")
           /\ snapshot' = [snapshot EXCEPT ![c] = got]
        \/ /\ c \notin aborted /\ Cardinality(page) >= PageSize
           /\ op' = [op EXCEPT ![c].got = got, ![c].after = NextAfter(page)]
           /\ UNCHANGED <<answer, snapshot>>
     /\ UNCHANGED <<time, rows, aborted, cursor, orphans, handle, lapsed, ends>>

-----------------------------------------------------------------------------
(* Closing a handle.                                                       *)

BeginClose(h) ==
  /\ handle[h] = "open"
  /\ handle' = [handle EXCEPT ![h] = "closing"]
  /\ UNCHANGED <<time, rows, op, answer, aborted, cursor, orphans, snapshot, lapsed, ends>>

\* close() joins the operations; then the storage handle is closed.
CloseHandle(h) ==
  /\ handle[h] = "closing"
  /\ \A c \in Clients : HandleOf[c] = h => op[c].kind = "none"
  /\ handle' = [handle EXCEPT ![h] = "closed"]
  /\ UNCHANGED <<time, rows, op, answer, aborted, cursor, orphans, snapshot, lapsed, ends>>

Tick ==
  /\ time < MaxTime
  /\ time' = time + 1
  /\ UNCHANGED <<rows, op, answer, aborted, cursor, orphans, handle, snapshot, lapsed, ends>>

\* The storage steps of the operation a client is executing.
Continue(c) ==
  ReadRow(c) \/ Write(c) \/ CleanupPage(c) \/ Sweep(c) \/ SnapshotPage(c)

Fails(c) == WriteLost(c) \/ StorageFails(c) \/ SweepFails(c)

\* Callers that call their operations in any order.
CallsAnything(c) ==
  \/ "register" \in Calls[c] /\ Register(c)
  \/ "renew" \in Calls[c] /\ Renew(c)
  \/ "remove" \in Calls[c] /\ Remove(c)
  \/ "lookup" \in Calls[c] /\ Lookup(c)
  \/ "cleanup" \in Calls[c] /\ Cleanup(c)
  \/ "snapshot" \in Calls[c] /\ Snapshot(c)

RegistryNext ==
  \/ \E c \in Clients : CallsAnything(c) \/ Abort(c) \/ Continue(c) \/ Fails(c)
  \/ \E h \in Handles : OrphanEnds(h) \/ BeginClose(h) \/ CloseHandle(h)
  \/ Tick

RegistrySpec == RegistryInit /\ [][RegistryNext]_registryVars

-----------------------------------------------------------------------------
(* Properties.                                                             *)

\* A lease is replaced only by a lease of the same identity, and disappears
\* only when its own identity removes it or some clock shows it expired: a
\* stale process cannot take over or delete a newer registration, and a
\* cleanup that read a row before it was renewed does not delete the renewal
\* (renew, remove, cleanup).
LeaseKept ==
  [][\A n \in Nodes : rows[n] # None /\ rows'[n] # rows[n] =>
       IF rows'[n] # None THEN rows'[n].by = rows[n].by
       ELSE rows[n].expires <= time + Skew \/ op[rows[n].by].kind = "remove"]_registryVars

\* A row comes into being only by the registration of its identity: a renewal
\* that was overtaken by a removal or a cleanup does not bring the row back
\* (renew, register).
NoResurrection ==
  [][\A n \in Nodes : rows[n] = None /\ rows'[n] # None =>
       op[rows'[n].by].kind = "register"]_registryVars

\* A snapshot that was read in several pages holds every node whose row was
\* live, at the reader's clock, all the while: neither the removal nor the
\* arrival of other rows between two pages makes it skip one (readAll).
SnapshotComplete ==
  \A c \in Clients : snapshot[c] # None => Nodes \ lapsed[c] \subseteq snapshot[c]

\* When close() has closed the storage handle, no storage call that was
\* started through it is still under way (close).
CallsJoined ==
  \A h \in Handles : handle[h] = "closed" =>
    orphans[h] = {} /\ \A c \in Clients : HandleOf[c] = h => op[c].kind = "none"
=============================================================================
