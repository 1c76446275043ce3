-------------------------- MODULE DeploymentProofs --------------------------
(***************************************************************************)
(* Proofs about the deployment's registry: LeasedNodeRegistry for any      *)
(* nodes, clients and handles, any clock skew, lease term and page size,   *)
(* then GceRegistrar on top of it, for any number of registrars, crashes,  *)
(* failures and ticks.                                                     *)
(***************************************************************************)
EXTENDS GceRegistrar, FiniteSetTheorems, WellFoundedInduction, TLAPS

USE NodesAssumption, CallersAssumption, LeaseAssumption

-----------------------------------------------------------------------------
(* The registry, whatever its callers do.                                  *)

StorageTyped ==
  /\ time \in Nat
  /\ rows \in [Nodes -> Row]
  /\ op \in [Clients -> Op]
  /\ answer \in [Clients -> {"none", "true", "false", "failed"}]
  /\ cursor \in [Handles -> Nat]
  /\ orphans \in [Handles -> SUBSET (Nodes \X Lease)]
  /\ ends \in [Clients -> Int]

\* A row is that of its identity's node, and its expiry the last one stored.
RowsRemembered ==
  \A n \in Nodes : rows[n] # None =>
    /\ NodeOf[rows[n].by] = n
    /\ ends[rows[n].by] = rows[n].expires /\ rows[n].expires >= 0

\* What the operation o of client c may be about to do to storage: it replaces
\* only a row of its own identity, by a lease of its own identity or nothing,
\* and deletes only what some clock showed expired.
Justified(c, o) ==
  /\ o.kind \in {"register", "renew"} =>
       o.lease # None /\ o.lease.by = c /\ o.lease.expires >= 0
  /\ o.kind = "remove" => o.lease = None
  /\ o.kind = "register" => o.seen = None
  /\ o.step = "read" => o.kind \in {"renew", "remove", "lookup"}
  /\ o.step = "write" => o.kind \in {"register", "renew", "remove"}
  /\ o.step = "sweep" => o.kind = "cleanup"
  /\ o.step = "write" /\ o.kind # "register" => o.seen # None /\ o.seen.by = c
  /\ o.now <= time + Skew
  /\ \A d \in o.left : d[2].expires <= time + Skew

RegistryInv ==
  /\ StorageTyped /\ RowsRemembered
  /\ \A c \in Clients : Justified(c, op[c])
  /\ \A h \in Handles : \A d \in orphans[h] : d[2].expires <= time + Skew

\* What a step of client c may do to the rows.
RowsOf(c) ==
  \A n \in Nodes :
    \/ rows'[n] = rows[n]
    \/ /\ rows[n] # None /\ rows'[n] = None
       /\ rows[n].expires <= time + Skew \/ (op[c].kind = "remove" /\ rows[n].by = c)
    \/ /\ n = NodeOf[c] /\ rows'[n] # None /\ rows'[n].by = c
       /\ IF rows[n] = None THEN op[c].kind = "register" ELSE rows[n].by = c

\* What was stored last changes only for who holds the row then.
EndsOf == \A b \in Clients : ends'[b] = ends[b] \/ (rows'[NodeOf[b]] # None /\ rows'[NodeOf[b]].by = b)

\* A step of client c is none of the others' business.
OnlyOf(c) == \A b \in Clients \ {c} : op'[b] = op[b] /\ answer'[b] = answer[b]

RowsWell(c) ==
  /\ rows' \in [Nodes -> Row] /\ ends' \in [Clients -> Int] /\ RowsRemembered'
  /\ RowsOf(c) /\ EndsOf

Effect(c) == RegistryInv' /\ RowsOf(c) /\ EndsOf /\ OnlyOf(c)

\* Client c goes on with operation o, which ended with result.
Becomes(c, o) ==
  /\ op' = [op EXCEPT ![c] = o] /\ o \in Op /\ Justified(c, o)
  /\ \E result \in {"none", "true", "false", "failed"} : answer' = [answer EXCEPT ![c] = result]

LEMMA IdleJustified ==
  ASSUME StorageTyped, NEW c \in Clients
  PROVE  Idle \in Op /\ Justified(c, Idle)
  BY DEF StorageTyped, Idle, Call, CallFrom, Op, Justified, Row

LEMMA SameRows ==
  ASSUME RegistryInv, UNCHANGED <<rows, ends>>
  PROVE  \A c \in Clients : RowsWell(c)
  BY DEF RegistryInv, StorageTyped, RowsRemembered, RowsWell, RowsOf, EndsOf

\* A client goes on; the rows change as it may change them.
LEMMA GoesOn ==
  ASSUME RegistryInv, NEW c \in Clients, NEW o, Becomes(c, o), UNCHANGED time,
         RowsWell(c), cursor' \in [Handles -> Nat],
         orphans' \in [Handles -> SUBSET (Nodes \X Lease)],
         \A h \in Handles : \A d \in orphans'[h] : d[2].expires <= time + Skew
  PROVE  Effect(c) /\ op'[c] = o
<1>1. op' \in [Clients -> Op] /\ op'[c] = o /\ \A b \in Clients \ {c} : op'[b] = op[b]
  BY DEF RegistryInv, StorageTyped, Becomes
<1>2. /\ answer' \in [Clients -> {"none", "true", "false", "failed"}]
      /\ \A b \in Clients \ {c} : answer'[b] = answer[b]
  BY DEF RegistryInv, StorageTyped, Becomes
<1>3. \A b \in Clients : Justified(b, op[b])'
  BY <1>1 DEF RegistryInv, StorageTyped, Becomes, Justified
<1> QED
  BY <1>1, <1>2, <1>3 DEF RegistryInv, StorageTyped, OnlyOf, RowsWell, Effect

-----------------------------------------------------------------------------
LEMMA BeginKeeps ==
  ASSUME RegistryInv, NEW c \in Clients, NEW call \in Op, Justified(c, call), Begin(c, call)
  PROVE  Effect(c) /\ op'[c] = call
<1>1. Becomes(c, call)
  BY DEF Begin, Becomes
<1> QED
  BY <1>1, SameRows, GoesOn DEF Begin, RegistryInv, StorageTyped

\* The kinds of call, and the client's operation after one.
Calling(c) == Register(c) \/ Renew(c) \/ Remove(c) \/ Lookup(c) \/ Cleanup(c) \/ Snapshot(c)

LEMMA CallKeeps ==
  ASSUME RegistryInv, NEW c \in Clients, Calling(c)
  PROVE  /\ Effect(c) /\ op[c].kind = "none" /\ UNCHANGED <<time, rows, ends>>
         /\ op'[c].kind = "remove" => Remove(c)
<1>1. CASE Register(c)
  <2>1. PICK now \in Clock : Begin(c, Call("register", "write", NewLease(c, now), now))
    BY <1>1 DEF Register
  <2> DEFINE call == Call("register", "write", NewLease(c, now), now)
  <2>2. now \in Nat /\ now <= time + Skew
    BY <2>1 DEF Clock, RegistryInv, StorageTyped
  <2>3. call \in Op /\ Justified(c, call) /\ call.kind = "register"
    BY <2>2 DEF Call, CallFrom, Op, Justified, NewLease, Row, Lease
  <2> QED
    BY <2>1, <2>3, BeginKeeps DEF Begin
<1>2. CASE Renew(c)
  <2>1. PICK now \in Clock : Begin(c, Call("renew", "read", NewLease(c, now), now))
    BY <1>2 DEF Renew
  <2> DEFINE call == Call("renew", "read", NewLease(c, now), now)
  <2>2. now \in Nat /\ now <= time + Skew
    BY <2>1 DEF Clock, RegistryInv, StorageTyped
  <2>3. call \in Op /\ Justified(c, call) /\ call.kind = "renew"
    BY <2>2 DEF Call, CallFrom, Op, Justified, NewLease, Row, Lease
  <2> QED
    BY <2>1, <2>3, BeginKeeps DEF Begin
<1>3. CASE Remove(c)
  <2> DEFINE call == Call("remove", "read", None, 0)
  <2>1. call \in Op /\ Justified(c, call) /\ call.kind = "remove"
    BY DEF Call, CallFrom, Op, Justified, Row, RegistryInv, StorageTyped
  <2> QED
    BY <1>3, <2>1, BeginKeeps DEF Begin, Remove
<1>4. CASE Lookup(c)
  <2>1. PICK now \in Clock : Begin(c, Call("lookup", "read", None, now))
    BY <1>4 DEF Lookup
  <2> DEFINE call == Call("lookup", "read", None, now)
  <2>2. now \in Nat /\ now <= time + Skew
    BY <2>1 DEF Clock, RegistryInv, StorageTyped
  <2>3. call \in Op /\ Justified(c, call) /\ call.kind = "lookup"
    BY <2>2 DEF Call, CallFrom, Op, Justified, Row
  <2> QED
    BY <2>1, <2>3, BeginKeeps DEF Begin
<1>5. CASE Cleanup(c)
  <2>1. PICK now \in Clock : Begin(c, CallFrom("cleanup", "page", None, now, cursor[HandleOf[c]]))
    BY <1>5 DEF Cleanup
  <2> DEFINE call == CallFrom("cleanup", "page", None, now, cursor[HandleOf[c]])
  <2>2. now \in Nat /\ now <= time + Skew /\ cursor[HandleOf[c]] \in Nat
    BY <2>1 DEF Clock, RegistryInv, StorageTyped
  <2>3. call \in Op /\ Justified(c, call) /\ call.kind = "cleanup"
    BY <2>2 DEF Call, CallFrom, Op, Justified, Row
  <2> QED
    BY <2>1, <2>3, BeginKeeps DEF Begin
<1>6. CASE Snapshot(c)
  <2>1. PICK now \in Clock : Begin(c, Call("snapshot", "page", None, now))
    BY <1>6 DEF Snapshot
  <2> DEFINE call == Call("snapshot", "page", None, now)
  <2>2. now \in Nat /\ now <= time + Skew
    BY <2>1 DEF Clock, RegistryInv, StorageTyped
  <2>3. call \in Op /\ Justified(c, call) /\ call.kind = "snapshot"
    BY <2>2 DEF Call, CallFrom, Op, Justified, Row
  <2> QED
    BY <2>1, <2>3, BeginKeeps DEF Begin
<1> QED
  BY <1>1, <1>2, <1>3, <1>4, <1>5, <1>6 DEF Calling

\* What a client is about after a call.
LEMMA CallShape ==
  ASSUME RegistryInv, NEW c \in Clients
  PROVE  /\ Register(c) => op'[c].kind = "register"
         /\ Renew(c) => op'[c].kind = "renew"
         /\ Remove(c) => op'[c].kind = "remove" /\ op'[c].step = "read"
         /\ Lookup(c) => op'[c].kind = "lookup"
         /\ Cleanup(c) => op'[c].kind = "cleanup"
<1>1. ASSUME NEW call, Begin(c, call)
      PROVE  op'[c] = call
  BY <1>1 DEF Begin, RegistryInv, StorageTyped
<1>2. Register(c) => op'[c].kind = "register"
  BY <1>1 DEF Register, Call, CallFrom
<1>3. Renew(c) => op'[c].kind = "renew"
  BY <1>1 DEF Renew, Call, CallFrom
<1>4. Remove(c) => op'[c].kind = "remove" /\ op'[c].step = "read"
  <2>1. Remove(c) => op'[c] = Call("remove", "read", None, 0)
    BY <1>1 DEF Remove
  <2> QED
    BY <2>1 DEF Call, CallFrom
<1>5. Lookup(c) => op'[c].kind = "lookup"
  BY <1>1 DEF Lookup, Call, CallFrom
<1>6. Cleanup(c) => op'[c].kind = "cleanup"
  BY <1>1 DEF Cleanup, CallFrom
<1> QED
  BY <1>2, <1>3, <1>4, <1>5, <1>6

-----------------------------------------------------------------------------
(* The storage steps.                                                      *)

LEMMA EndsBecomes ==
  ASSUME RegistryInv, NEW c \in Clients, NEW result \in {"none", "true", "false", "failed"},
         Ends(c, result)
  PROVE  Becomes(c, Idle)
  BY IdleJustified DEF Ends, Becomes, RegistryInv

LEMMA IdleKind == Idle.kind = "none" /\ Idle.step = "none"
  BY DEF Idle, Call, CallFrom

\* One row changes as the step of c may change it.
LEMMA StoreRows ==
  ASSUME RegistryInv, NEW n \in Nodes, NEW r \in Row, Store(n, r)
  PROVE  /\ rows' \in [Nodes -> Row] /\ rows'[n] = r /\ \A m \in Nodes \ {n} : rows'[m] = rows[m]
         /\ IF r = None THEN ends' = ends
            ELSE /\ ends' \in [Clients -> Int] /\ r.by \in Clients /\ ends'[r.by] = r.expires
                 /\ \A b \in Clients \ {r.by} : ends'[b] = ends[b]
  BY DEF RegistryInv, StorageTyped, Store, Row, Lease

LEMMA DeleteRows ==
  ASSUME RegistryInv, NEW d \in Nodes \X Lease, d[2].expires <= time + Skew,
         Deletes(d) \/ UNCHANGED <<rows, lapsed, ends>>
  PROVE  (\A c \in Clients : RowsWell(c)) /\ \A n \in Nodes : rows'[n] \in {rows[n], None}
<1>1. CASE UNCHANGED <<rows, ends>>
  BY <1>1, SameRows
<1>2. CASE rows[d[1]] = d[2] /\ Store(d[1], None)
  <2>1. d[1] \in Nodes /\ d[2] \in Lease /\ d[2] # None /\ None \in Row
    BY DEF Lease, Row
  <2>2. /\ rows' \in [Nodes -> Row] /\ rows'[d[1]] = None /\ ends' = ends
        /\ \A m \in Nodes \ {d[1]} : rows'[m] = rows[m]
    BY <1>2, <2>1, StoreRows
  <2> QED
    BY <1>2, <2>1, <2>2 DEF RowsOf, RowsWell, EndsOf, RowsRemembered, RegistryInv, StorageTyped
<1> QED
  BY <1>1, <1>2 DEF Deletes

LEMMA ReadRowKeeps ==
  ASSUME RegistryInv, NEW c \in Clients, ReadRow(c)
  PROVE  Effect(c) /\ op'[c].kind \in {"none", op[c].kind}
<1>1. RowsWell(c)
  BY SameRows DEF ReadRow
<1>2. CASE \E result \in {"true", "false", "failed"} : Ends(c, result)
  BY <1>1, <1>2, EndsBecomes, GoesOn, IdleKind DEF ReadRow, RegistryInv, StorageTyped
<1>3. CASE /\ Owns(c) /\ UNCHANGED answer
           /\ op' = [op EXCEPT ![c].step = "write", ![c].seen = rows[NodeOf[c]]]
           /\ op[c].step = "read" /\ op[c].kind # "lookup"
  <2> DEFINE o == [op[c] EXCEPT !.step = "write", !.seen = rows[NodeOf[c]]]
  <2>1. op[c] \in Op /\ Justified(c, op[c]) /\ rows[NodeOf[c]] \in Row
    BY DEF RegistryInv, StorageTyped
  <2>2. o \in Op /\ o.kind = op[c].kind
    BY <2>1 DEF Op
  <2>3. Justified(c, o)
    BY <1>3, <2>1 DEF Op, Justified, Owns
  <2>4. op' = [op EXCEPT ![c] = o]
    BY <1>3, <2>1 DEF Op, RegistryInv, StorageTyped
  <2>5. \E result \in {"none", "true", "false", "failed"} : answer' = [answer EXCEPT ![c] = result]
    BY <1>3 DEF RegistryInv, StorageTyped
  <2>6. Becomes(c, o)
    BY <2>2, <2>3, <2>4, <2>5 DEF Becomes
  <2> QED
    BY <1>1, <2>2, <2>6, GoesOn DEF ReadRow, RegistryInv, StorageTyped
<1> QED
  BY <1>2, <1>3 DEF ReadRow

LEMMA WriteKeeps ==
  ASSUME RegistryInv, NEW c \in Clients, Write(c) \/ WriteLost(c)
  PROVE  Effect(c) /\ op'[c] = Idle
<1>1. /\ op[c] \in Op /\ Justified(c, op[c]) /\ NodeOf[c] \in Nodes
      /\ op[c].lease \in Row /\ op[c].step = "write"
  BY DEF RegistryInv, StorageTyped, Op, Write, WriteLost
<1>2. \E result \in {"true", "false", "failed"} : Ends(c, result)
  BY DEF Write, WriteLost, EndsUnlessAborted
<1>3. Becomes(c, Idle)
  BY <1>2, EndsBecomes
<1>4. RowsWell(c)
  <2>1. CASE rows[NodeOf[c]] = op[c].seen /\ Store(NodeOf[c], op[c].lease)
    <3>1. /\ rows' \in [Nodes -> Row] /\ rows'[NodeOf[c]] = op[c].lease
          /\ \A m \in Nodes \ {NodeOf[c]} : rows'[m] = rows[m]
      BY <2>1, <1>1, StoreRows
    <3>2. CASE op[c].kind = "remove"
      <4>1. rows[NodeOf[c]] # None /\ rows[NodeOf[c]].by = c /\ op[c].lease = None
        BY <3>2, <2>1, <1>1 DEF Justified
      <4>2. ends' = ends
        BY <4>1, <2>1, <1>1, StoreRows
      <4> QED
        BY <1>1, <3>1, <3>2, <4>1, <4>2
        DEF RowsOf, RowsWell, EndsOf, RowsRemembered, RegistryInv, StorageTyped
    <3>3. CASE op[c].kind # "remove"
      <4>1. /\ op[c].lease # None /\ op[c].lease.by = c /\ op[c].lease.expires >= 0
            /\ \/ op[c].kind = "register" /\ rows[NodeOf[c]] = None
               \/ rows[NodeOf[c]] # None /\ rows[NodeOf[c]].by = c
        BY <3>3, <2>1, <1>1 DEF Justified
      <4>2. /\ ends' \in [Clients -> Int] /\ ends'[c] = op[c].lease.expires
            /\ \A b \in Clients \ {c} : ends'[b] = ends[b]
        <5> DEFINE l == op[c].lease
        <5>1. l \in Row /\ NodeOf[c] \in Nodes /\ Store(NodeOf[c], l)
          BY <1>1, <2>1
        <5> HIDE DEF l
        <5>2. IF l = None THEN ends' = ends
              ELSE /\ ends' \in [Clients -> Int] /\ l.by \in Clients /\ ends'[l.by] = l.expires
                   /\ \A b \in Clients \ {l.by} : ends'[b] = ends[b]
          BY <5>1, StoreRows
        <5> QED
          BY <5>2, <4>1 DEF l
      <4>3. RowsRemembered'
        BY <1>1, <3>1, <4>1, <4>2 DEF RowsRemembered, RegistryInv, StorageTyped, Row, Lease
      <4>4. RowsOf(c) /\ EndsOf
        BY <1>1, <3>1, <4>1, <4>2 DEF RowsOf, EndsOf
      <4> QED
        BY <3>1, <4>2, <4>3, <4>4 DEF RowsWell
    <3> QED
      BY <3>2, <3>3
  <2>2. CASE UNCHANGED <<rows, ends>>
    BY <2>2, SameRows
  <2> QED
    BY <2>1, <2>2 DEF Write, WriteLost
<1> QED
  BY <1>3, <1>4, GoesOn DEF Write, WriteLost, RegistryInv, StorageTyped

LEMMA StorageFailsKeeps ==
  ASSUME RegistryInv, NEW c \in Clients, StorageFails(c)
  PROVE  Effect(c) /\ op'[c] = Idle
  BY EndsBecomes, SameRows, GoesOn DEF StorageFails, RegistryInv, StorageTyped

\* A set of natural numbers has a least element.
LEMMA Least ==
  ASSUME NEW S \in SUBSET Nat, S # {}
  PROVE  \E x \in S : \A y \in S : x <= y
<1>1. PICK x \in S : \A y \in S : ~ (<<y, x>> \in OpToRel(<, Nat))
  BY NatLessThanWellFounded, WFMin
<1>2. \A y \in S : x <= y
  <2> SUFFICES ASSUME NEW y \in S PROVE x <= y
    OBVIOUS
  <2>1. ~ (<<y, x>> \in OpToRel(<, Nat))
    BY <1>1
  <2>2. ~ (y < x)
    BY <2>1 DEF OpToRel
  <2> QED
    BY <2>2
<1> QED
  BY <1>2

\* A finite one has a greatest: take a smallest set that has none.
LEMMA Greatest ==
  ASSUME NEW S \in SUBSET Nat, IsFiniteSet(S), S # {}
  PROVE  \E x \in S : \A y \in S : y <= x
<1> DEFINE Bounded(T) == \E x \in T : \A y \in T : y <= x
           Bad == {T \in SUBSET S : T # {} /\ ~ Bounded(T)}
           Sizes == {Cardinality(T) : T \in Bad}
<1> SUFFICES ASSUME ~ Bounded(S)
             PROVE  FALSE
  OBVIOUS
<1>1. \A T \in SUBSET S : IsFiniteSet(T) /\ Cardinality(T) \in Nat
  BY FS_Subset, FS_CardinalityType
<1>2. S \in Bad /\ Sizes \in SUBSET Nat /\ Sizes # {}
  BY <1>1
<1> HIDE DEF Sizes
<1>3. PICK k \in Sizes : \A j \in Sizes : k <= j
  BY <1>2, Least
<1>4. PICK T \in Bad : k = Cardinality(T)
  BY <1>3 DEF Sizes
<1>5. PICK x : x \in T
  OBVIOUS
<1>6. T \ {x} \in SUBSET S /\ Cardinality(T \ {x}) = Cardinality(T) - 1
  BY <1>1, <1>5, FS_RemoveElement
<1>7. T \ {x} \notin Bad
  <2>1. ~ (Cardinality(T) <= Cardinality(T) - 1)
    BY <1>1
  <2> QED
    BY <1>3, <1>4, <1>6, <2>1 DEF Sizes
<1>8. CASE T \ {x} = {}
  BY <1>5, <1>8
<1>9. CASE Bounded(T \ {x})
  <2>1. PICK m \in T \ {x} : \A y \in T \ {x} : y <= m
    BY <1>9
  <2>2. m \in Nat /\ x \in Nat /\ \A y \in T : y \in Nat
    BY <1>5
  <2>3. IF x <= m THEN \A y \in T : y <= m ELSE \A y \in T : y <= x
    BY <2>1, <2>2
  <2> QED
    BY <1>5, <2>1, <2>3
<1> QED
  BY <1>6, <1>7, <1>8, <1>9

\* What a page holds: all rows behind its start up to its last row, and when
\* it is not full all of them.
LEMMA PageHolds ==
  ASSUME NEW after \in Nat, NEW size \in Nat \ {0}
  PROVE  /\ Page(after, size) \in SUBSET Nodes /\ IsFiniteSet(Page(after, size))
         /\ Page(after, size) # {} =>
              /\ Last(Page(after, size)) \in Page(after, size)
              /\ \A n \in Listed : after < n /\ n <= Last(Page(after, size)) => n \in Page(after, size)
         /\ Cardinality(Page(after, size)) < size =>
              \A n \in Listed : after < n => n \in Page(after, size)
<1> DEFINE P == Page(after, size)
           Upto(n) == {m \in Listed : after < m /\ m <= n}
<1>1. Listed \in SUBSET Nat /\ IsFiniteSet(Listed)
  BY FS_Subset DEF Listed
<1>2. \A n : Upto(n) \in SUBSET Listed /\ IsFiniteSet(Upto(n)) /\ Cardinality(Upto(n)) \in Nat
  BY <1>1, FS_Subset, FS_CardinalityType
<1>3. P = {n \in Listed : n > after /\ Cardinality(Upto(n)) <= size}
  BY DEF Page
<1>4. P \in SUBSET Listed /\ P \in SUBSET Nodes /\ IsFiniteSet(P) /\ Cardinality(P) \in Nat
  BY <1>1, <1>3, FS_Subset, FS_CardinalityType DEF Listed
<1> HIDE DEF P
<1>5. ASSUME P # {}
      PROVE  /\ Last(P) \in P
             /\ \A n \in Listed : after < n /\ n <= Last(P) => n \in P
  <2>1. Last(P) \in P
    BY <1>1, <1>4, <1>5, Greatest DEF Last
  <2> SUFFICES ASSUME NEW n \in Listed, after < n, n <= Last(P)
               PROVE  n \in P
    BY <2>1
  <2>2. Last(P) \in Nat /\ n \in Nat /\ Cardinality(Upto(Last(P))) <= size
    BY <1>1, <1>3, <1>4, <2>1
  <2>3. Upto(n) \subseteq Upto(Last(P))
    <3> SUFFICES ASSUME NEW m \in Listed, after < m, m <= n
                 PROVE  m <= Last(P)
      OBVIOUS
    <3> QED
      BY <1>1, <2>2
  <2>4. Cardinality(Upto(n)) <= Cardinality(Upto(Last(P)))
    BY <1>2, <2>3, FS_Subset
  <2>5. Cardinality(Upto(n)) <= size
    BY <1>2, <2>2, <2>4
  <2> QED
    BY <1>3, <2>2, <2>5
<1>6. ASSUME Cardinality(P) < size, NEW k \in Listed, after < k, k \notin P
      PROVE  FALSE
  <2> DEFINE Missing == {n \in Listed : after < n /\ n \notin P}
  <2>1. Missing \in SUBSET Nat /\ Missing # {}
    BY <1>1, <1>6
  <2>2. PICK n \in Missing : \A m \in Missing : n <= m
    BY <2>1, Least
  <2>3. n \in Nat /\ n \notin P
    BY <1>1
  <2>4. Upto(n) \subseteq P \union {n}
    <3> SUFFICES ASSUME NEW m \in Listed, after < m, m <= n, m \notin P
                 PROVE  m = n
      OBVIOUS
    <3>1. n <= m /\ m \in Nat
      BY <1>1, <2>2
    <3> QED
      BY <2>3, <3>1
  <2>5. IsFiniteSet(P \union {n}) /\ Cardinality(P \union {n}) = Cardinality(P) + 1
    BY <1>4, <2>3, FS_AddElement
  <2>6. Cardinality(Upto(n)) <= Cardinality(P) + 1
    BY <2>4, <2>5, FS_Subset
  <2>7. Cardinality(Upto(n)) <= size
    BY <1>2, <1>4, <1>6, <2>6
  <2> QED
    BY <1>3, <2>3, <2>7
<1> QED
  BY <1>4, <1>5, <1>6 DEF P

LEMMA PageTyped ==
  ASSUME RegistryInv, NEW after \in Nat, NEW size \in Nat \ {0}
  PROVE  /\ Page(after, size) \subseteq Nodes
         /\ NextCursor(Page(after, size)) \in Nat
         /\ Cardinality(Page(after, size)) >= size => NextAfter(Page(after, size)) \in Nat
         /\ \A now : Expired(Page(after, size), now) \subseteq Nodes \X Lease
<1>1. Page(after, size) \subseteq Nodes /\ \A n \in Page(after, size) : rows[n] \in Lease
  BY DEF Page, Listed, RegistryInv, StorageTyped, Row
<1>2. Page(after, size) # {} => Last(Page(after, size)) \in Nat
  BY PageHolds
<1>3. Page(after, size) = {} => Cardinality(Page(after, size)) = 0
  BY FS_EmptySet
<1>4. NextCursor(Page(after, size)) \in Nat
  BY <1>2, <1>3 DEF NextCursor
<1>5. Cardinality(Page(after, size)) >= size => NextAfter(Page(after, size)) \in Nat
  BY <1>2, <1>3 DEF NextAfter
<1> QED
  BY <1>1, <1>4, <1>5 DEF Expired

LEMMA CleanupPageKeeps ==
  ASSUME RegistryInv, NEW c \in Clients, CleanupPage(c)
  PROVE  Effect(c) /\ op'[c].kind \in {"none", op[c].kind}
<1> DEFINE page == Page(op[c].after, Batch)
           expired == Expired(page, op[c].now)
<1>1. RowsWell(c) /\ UNCHANGED <<time, orphans>>
  BY SameRows DEF CleanupPage
<1>0. op[c] \in Op /\ op[c].after \in Nat
  BY DEF RegistryInv, StorageTyped, Op
<1>2. cursor' \in [Handles -> Nat]
  BY <1>0, PageTyped DEF CleanupPage, RegistryInv, StorageTyped
<1>3. CASE \E result \in {"true", "failed"} : Ends(c, result)
  BY <1>1, <1>2, <1>3, EndsBecomes, GoesOn, IdleKind DEF RegistryInv, StorageTyped
<1>4. CASE /\ op' = [op EXCEPT ![c].step = "sweep", ![c].left = expired, ![c].after = 0]
           /\ UNCHANGED answer
  <2> DEFINE o == [op[c] EXCEPT !.step = "sweep", !.left = expired, !.after = 0]
  <2>1. op[c] \in Op /\ Justified(c, op[c])
    BY DEF RegistryInv, StorageTyped
  <2>2. expired \subseteq Nodes \X Lease
    BY <1>0, PageTyped
  <2>3. o \in Op /\ o.kind = op[c].kind
    BY <2>1, <2>2 DEF Op
  <2>4. \A d \in expired : d[2].expires <= op[c].now
    BY DEF Expired
  <2>5. op[c].now \in Int /\ op[c].now <= time + Skew /\ time \in Nat
    BY <2>1 DEF Op, Justified, RegistryInv, StorageTyped
  <2>6. \A d \in expired : d[2].expires \in Int
    BY <2>2 DEF Lease
  <2>7. \A d \in expired : d[2].expires <= time + Skew
    BY <2>4, <2>5, <2>6
  <2>8. Justified(c, o)
    BY <2>1, <2>7 DEF Op, Justified, CleanupPage
  <2>9. op' = [op EXCEPT ![c] = o]
    BY <1>4, <2>1 DEF Op, RegistryInv, StorageTyped
  <2>10. \E result \in {"none", "true", "false", "failed"} : answer' = [answer EXCEPT ![c] = result]
    BY <1>4 DEF RegistryInv, StorageTyped
  <2>11. Becomes(c, o)
    BY <2>3, <2>8, <2>9, <2>10 DEF Becomes
  <2> QED
    BY <1>1, <1>2, <2>3, <2>11, GoesOn DEF RegistryInv, StorageTyped
<1> QED
  BY <1>3, <1>4 DEF CleanupPage

LEMMA SweepKeeps ==
  ASSUME RegistryInv, NEW c \in Clients, Sweep(c) \/ SweepFails(c)
  PROVE  Effect(c) /\ op'[c].kind \in {"none", op[c].kind}
<1>1. op[c] \in Op /\ Justified(c, op[c]) /\ HandleOf[c] \in Handles
  BY DEF RegistryInv, StorageTyped
<1>2. PICK d \in op[c].left :
        /\ Deletes(d) \/ UNCHANGED <<rows, lapsed, ends>>
        /\ \/ /\ Ends(c, "true") \/ Ends(c, "failed")
              /\ \/ UNCHANGED orphans
                 \/ orphans' = [orphans EXCEPT ![HandleOf[c]] = @ \union (op[c].left \ {d})]
           \/ /\ op' = [op EXCEPT ![c].left = @ \ {d}]
              /\ UNCHANGED <<answer, orphans>>
  BY DEF Sweep, SweepFails
<1>3. d \in Nodes \X Lease /\ d[2].expires <= time + Skew
  BY <1>1, <1>2 DEF Op, Justified
<1>4. RowsWell(c)
  BY <1>2, <1>3, DeleteRows
<1>5. UNCHANGED <<time, cursor>>
  BY DEF Sweep, SweepFails
<1>6. /\ orphans' \in [Handles -> SUBSET (Nodes \X Lease)]
      /\ \A h \in Handles : \A e \in orphans'[h] : e[2].expires <= time + Skew
  <2>1. op[c].left \subseteq Nodes \X Lease /\ \A e \in op[c].left : e[2].expires <= time + Skew
    BY <1>1 DEF Op, Justified
  <2>2. CASE orphans' = orphans
    BY <2>2 DEF RegistryInv, StorageTyped
  <2>3. CASE orphans' = [orphans EXCEPT ![HandleOf[c]] = @ \union (op[c].left \ {d})]
    BY <2>1, <2>3, <1>1 DEF RegistryInv, StorageTyped
  <2> QED
    BY <1>2, <2>2, <2>3
<1>7. CASE Ends(c, "true") \/ Ends(c, "failed")
  BY <1>4, <1>5, <1>6, <1>7, EndsBecomes, GoesOn, IdleKind DEF RegistryInv, StorageTyped
<1>8. CASE op' = [op EXCEPT ![c].left = @ \ {d}] /\ UNCHANGED answer
  <2> DEFINE o == [op[c] EXCEPT !.left = @ \ {d}]
  <2>1. o \in Op /\ o.kind = op[c].kind
    BY <1>1 DEF Op
  <2>2. Justified(c, o)
    BY <1>1 DEF Op, Justified
  <2>3. op' = [op EXCEPT ![c] = o]
    BY <1>1, <1>8 DEF Op, RegistryInv, StorageTyped
  <2>4. \E result \in {"none", "true", "false", "failed"} : answer' = [answer EXCEPT ![c] = result]
    BY <1>8 DEF RegistryInv, StorageTyped
  <2>5. Becomes(c, o)
    BY <2>1, <2>2, <2>3, <2>4 DEF Becomes
  <2> QED
    BY <1>4, <1>5, <1>6, <2>1, <2>5, GoesOn DEF RegistryInv, StorageTyped
<1> QED
  BY <1>2, <1>7, <1>8

LEMMA SnapshotPageKeeps ==
  ASSUME RegistryInv, NEW c \in Clients, SnapshotPage(c)
  PROVE  Effect(c) /\ op'[c].kind \in {"none", op[c].kind}
<1> DEFINE page == Page(op[c].after, PageSize)
           got == op[c].got \union {n \in page : Live(rows[n], op[c].now)}
<1>1. RowsWell(c) /\ UNCHANGED <<time, cursor, orphans>>
  BY SameRows DEF SnapshotPage
<1>2. CASE \E result \in {"true", "failed"} : Ends(c, result)
  BY <1>1, <1>2, EndsBecomes, GoesOn, IdleKind DEF RegistryInv, StorageTyped
<1>3. CASE /\ op' = [op EXCEPT ![c].got = got, ![c].after = NextAfter(page)]
           /\ Cardinality(page) >= PageSize /\ UNCHANGED answer
  <2> DEFINE o == [op[c] EXCEPT !.got = got, !.after = NextAfter(page)]
  <2>1. op[c] \in Op /\ Justified(c, op[c])
    BY DEF RegistryInv, StorageTyped
  <2>2. o \in Op /\ o.kind = op[c].kind
    <3>1. op[c].after \in Nat /\ op[c].got \subseteq Nodes
      BY <2>1 DEF Op
    <3>2. got \subseteq Nodes /\ NextAfter(page) \in Nat
      BY <1>3, <3>1, PageTyped
    <3> QED
      BY <2>1, <3>2 DEF Op
  <2>3. Justified(c, o)
    BY <2>1 DEF Op, Justified
  <2>4. op' = [op EXCEPT ![c] = o]
    BY <1>3, <2>1 DEF Op, RegistryInv, StorageTyped
  <2>5. \E result \in {"none", "true", "false", "failed"} : answer' = [answer EXCEPT ![c] = result]
    BY <1>3 DEF RegistryInv, StorageTyped
  <2>6. Becomes(c, o)
    BY <2>2, <2>3, <2>4, <2>5 DEF Becomes
  <2> QED
    BY <1>1, <2>2, <2>6, GoesOn DEF RegistryInv, StorageTyped
<1> QED
  BY <1>2, <1>3 DEF SnapshotPage


LEMMA OrphanEndsKeeps ==
  ASSUME RegistryInv, NEW h \in Handles, OrphanEnds(h)
  PROVE  /\ RegistryInv' /\ UNCHANGED <<op, answer>>
         /\ (\E c \in Clients : RowsOf(c)) /\ \A c \in Clients : Effect(c)
         /\ \A n \in Nodes : rows'[n] \in {rows[n], None}
<1>1. PICK d \in orphans[h] :
        /\ Deletes(d) \/ UNCHANGED <<rows, lapsed, ends>>
        /\ orphans' = [orphans EXCEPT ![h] = @ \ {d}]
  BY DEF OrphanEnds
<1>2. d \in Nodes \X Lease /\ d[2].expires <= time + Skew /\ d[2].by \in Clients
  BY DEF RegistryInv, StorageTyped, Lease
<1>3. (\A c \in Clients : RowsWell(c)) /\ \A n \in Nodes : rows'[n] \in {rows[n], None}
  BY <1>1, <1>2, DeleteRows
<1>4. /\ orphans' \in [Handles -> SUBSET (Nodes \X Lease)]
      /\ \A g \in Handles : \A e \in orphans'[g] : e[2].expires <= time + Skew
  BY <1>1 DEF RegistryInv, StorageTyped
<1>5. UNCHANGED <<time, op, answer, cursor>>
  BY DEF OrphanEnds
<1>6. RegistryInv'
  BY <1>2, <1>3, <1>4, <1>5 DEF RegistryInv, StorageTyped, Justified, RowsWell
<1> QED
  BY <1>2, <1>3, <1>5, <1>6 DEF RowsWell, Effect, OnlyOf

LEMMA TickKeeps ==
  ASSUME RegistryInv, Tick
  PROVE  RegistryInv' /\ UNCHANGED <<rows, ends, op, answer>>
<1>1. UNCHANGED <<rows, ends, op, answer, cursor, orphans>> /\ time' = time + 1 /\ time \in Nat
  BY DEF Tick, RegistryInv, StorageTyped
<1>2. ASSUME NEW e \in Int, e <= time + Skew
      PROVE  e <= time' + Skew
  BY <1>1, <1>2
<1>3. \A c \in Clients : Justified(c, op[c])'
  <2> SUFFICES ASSUME NEW c \in Clients
               PROVE  Justified(c, op[c])'
    OBVIOUS
  <2>1. op[c] \in Op /\ Justified(c, op[c])
    BY DEF RegistryInv, StorageTyped
  <2>2. op[c].now \in Int /\ \A d \in op[c].left : d[2].expires \in Int
    BY <2>1 DEF Op, Lease
  <2> QED
    BY <1>1, <1>2, <2>1, <2>2 DEF Justified
<1>4. \A h \in Handles : \A d \in orphans[h] : d[2].expires <= time' + Skew
  <2> SUFFICES ASSUME NEW h \in Handles, NEW d \in orphans[h]
               PROVE  d[2].expires <= time' + Skew
    OBVIOUS
  <2>1. d[2].expires \in Int /\ d[2].expires <= time + Skew
    BY DEF RegistryInv, StorageTyped, Lease
  <2> QED
    BY <1>2, <2>1
<1>5. RowsRemembered'
  BY <1>1 DEF RegistryInv, RowsRemembered
<1> QED
  BY <1>1, <1>3, <1>4, <1>5 DEF RegistryInv, StorageTyped

LEMMA OtherwiseKeeps ==
  ASSUME RegistryInv, UNCHANGED <<time, rows, ends, op, answer, cursor, orphans>>
  PROVE  RegistryInv'
<1>1. StorageTyped'
  BY DEF RegistryInv, StorageTyped
<1>2. RowsRemembered' /\ \A c \in Clients : Justified(c, op[c])'
  BY DEF RegistryInv, RowsRemembered, Justified
<1> QED
  BY <1>1, <1>2 DEF RegistryInv

LEMMA AbortKeeps ==
  ASSUME RegistryInv, NEW c \in Clients, Abort(c)
  PROVE  RegistryInv' /\ UNCHANGED <<rows, ends, op, answer>>
  BY OtherwiseKeeps DEF Abort

\* What a client's operation may do, step by step.
LEMMA OperationKeeps ==
  ASSUME RegistryInv, NEW c \in Clients, Continue(c) \/ Fails(c) \/ Abort(c)
  PROVE  Effect(c) /\ op'[c].kind \in {"none", op[c].kind}
<1>1. CASE Abort(c)
  BY <1>1, AbortKeeps, SameRows DEF RowsWell, OnlyOf, Effect
<1>2. CASE Continue(c)
  BY <1>2, ReadRowKeeps, WriteKeeps, CleanupPageKeeps, SweepKeeps, SnapshotPageKeeps, IdleKind
     DEF Continue
<1>3. CASE Fails(c)
  BY <1>3, WriteKeeps, StorageFailsKeeps, SweepKeeps, IdleKind DEF Fails
<1> QED
  BY <1>1, <1>2, <1>3

-----------------------------------------------------------------------------
LEMMA RegistryStep ==
  ASSUME RegistryInv, [RegistryNext]_registryVars
  PROVE  RegistryInv' /\ (rows' = rows \/ \E c \in Clients : RowsOf(c))
<1>1. ASSUME NEW c \in Clients, CallsAnything(c)
      PROVE  RegistryInv' /\ rows' = rows
  BY <1>1, CallKeeps DEF CallsAnything, Calling, Effect
<1>2. ASSUME NEW c \in Clients, Abort(c) \/ Continue(c) \/ Fails(c)
      PROVE  RegistryInv' /\ RowsOf(c)
  BY <1>2, OperationKeeps DEF Effect
<1>3. ASSUME NEW h \in Handles, OrphanEnds(h)
      PROVE  RegistryInv' /\ (rows' = rows \/ \E c \in Clients : RowsOf(c))
  BY <1>3, OrphanEndsKeeps
<1>4. ASSUME NEW h \in Handles, BeginClose(h) \/ CloseHandle(h)
      PROVE  RegistryInv' /\ rows' = rows
  BY <1>4, OtherwiseKeeps DEF BeginClose, CloseHandle
<1>5. CASE Tick
  BY <1>5, TickKeeps
<1>6. CASE UNCHANGED registryVars
  BY <1>6, OtherwiseKeeps DEF registryVars
<1> QED
  BY <1>1, <1>2, <1>3, <1>4, <1>5, <1>6 DEF RegistryNext

LEMMA RegistryStart == RegistryInit => RegistryInv
<1> SUFFICES ASSUME RegistryInit
             PROVE  RegistryInv
  OBVIOUS
<1>1. StorageTyped
  <2>1. Idle \in Op
    BY DEF Idle, Call, CallFrom, Op, Row
  <2> QED
    BY <2>1 DEF StorageTyped, RegistryInit, Row
<1> QED
  BY <1>1, IdleJustified DEF RegistryInv, RegistryInit, RowsRemembered

\* Every reachable state satisfies the invariant: in particular a renewal or a
\* removal that is about to write compares with a row of its own identity, and
\* no row that a sweep may delete is live (renew, remove, cleanup).
THEOREM RegistryInvariant == RegistrySpec => []RegistryInv
<1>1. RegistryInv /\ [RegistryNext]_registryVars => RegistryInv'
  BY RegistryStep
<1> QED
  BY <1>1, RegistryStart, PTL DEF RegistrySpec

\* A lease is replaced only by its own identity, and disappears only when its
\* identity removes it or it has expired, for any number of processes, any
\* skew of their clocks and any order of their storage calls (renew, remove,
\* cleanup).
THEOREM LeasesAreKept == RegistrySpec => LeaseKept
<1>1. ASSUME RegistryInv, [RegistryNext]_registryVars
      PROVE  [\A n \in Nodes : rows[n] # None /\ rows'[n] # rows[n] =>
                IF rows'[n] # None THEN rows'[n].by = rows[n].by
                ELSE rows[n].expires <= time + Skew \/ op[rows[n].by].kind = "remove"]_registryVars
  <2> SUFFICES ASSUME NEW n \in Nodes, rows[n] # None, rows'[n] # rows[n]
               PROVE  IF rows'[n] # None THEN rows'[n].by = rows[n].by
                      ELSE rows[n].expires <= time + Skew \/ op[rows[n].by].kind = "remove"
    OBVIOUS
  <2>1. PICK c \in Clients : RowsOf(c)
    BY <1>1, RegistryStep
  <2> QED
    BY <2>1 DEF RowsOf
<1> QED
  BY <1>1, RegistryInvariant, PTL DEF RegistrySpec, LeaseKept

\* Only a registration makes a row: neither a renewal that was overtaken nor a
\* removal or cleanup brings one back (renew, register).
THEOREM NoLeaseResurrects == RegistrySpec => NoResurrection
<1>1. ASSUME RegistryInv, [RegistryNext]_registryVars
      PROVE  [\A n \in Nodes : rows[n] = None /\ rows'[n] # None =>
                op[rows'[n].by].kind = "register"]_registryVars
  <2> SUFFICES ASSUME NEW n \in Nodes, rows[n] = None, rows'[n] # None
               PROVE  op[rows'[n].by].kind = "register"
    OBVIOUS
  <2>1. PICK c \in Clients : RowsOf(c)
    BY <1>1, RegistryStep
  <2> QED
    BY <2>1 DEF RowsOf
<1> QED
  BY <1>1, RegistryInvariant, PTL DEF RegistrySpec, NoResurrection

-----------------------------------------------------------------------------
(* What a snapshot returns.                                                *)

\* While client c reads: every node that never lapsed is live, and is among
\* those read if its row is at or before the reader's position.
Reading(c) ==
  \A n \in Nodes \ lapsed[c] :
    Live(rows[n], op[c].now) /\ (n <= op[c].after => n \in op[c].got)

SnapshotInv ==
  /\ snapshot \in [Clients -> (SUBSET Nodes) \union {None}]
  /\ lapsed \in [Clients -> SUBSET Nodes]
  /\ SnapshotComplete
  /\ \A c \in Clients : op[c].kind = "snapshot" => Reading(c)

\* A step that changes rows notes what lapsed for every reader.
Watched ==
  /\ lapsed' \in [Clients -> SUBSET Nodes]
  /\ \A b \in Clients :
       /\ lapsed[b] \subseteq lapsed'[b]
       /\ op[b].kind = "snapshot" =>
            \A n \in Nodes : \/ rows'[n] = rows[n] \/ n \in lapsed'[b]
                             \/ Live(rows'[n], op[b].now)

LEMMA StoreWatched ==
  ASSUME RegistryInv, SnapshotInv, NEW n \in Nodes, NEW r, Store(n, r)
  PROVE  Watched
  BY DEF RegistryInv, StorageTyped, SnapshotInv, Store, Watched

LEMMA DeletesWatched ==
  ASSUME RegistryInv, SnapshotInv, NEW d \in Nodes \X Lease,
         Deletes(d) \/ UNCHANGED <<rows, lapsed, ends>>
  PROVE  Watched
<1>1. CASE UNCHANGED <<rows, lapsed>>
  BY <1>1 DEF SnapshotInv, Watched
<1>2. CASE Store(d[1], None)
  BY <1>2, StoreWatched
<1> QED
  BY <1>1, <1>2 DEF Deletes

\* A step that moves no reader on keeps what the readers have.
LEMMA ReadersWait ==
  ASSUME RegistryInv, SnapshotInv, Watched, UNCHANGED snapshot,
         \A b \in Clients : op'[b].kind = "snapshot" => op'[b] = op[b]
  PROVE  SnapshotInv'
<1>1. SnapshotComplete'
  BY DEF SnapshotInv, Watched, SnapshotComplete
<1>2. \A b \in Clients : op'[b].kind = "snapshot" => Reading(b)'
  BY DEF SnapshotInv, Watched, Reading
<1> QED
  BY <1>1, <1>2 DEF SnapshotInv, Watched

LEMMA BeginSnapshotInv ==
  ASSUME RegistryInv, SnapshotInv, NEW c \in Clients, CallsAnything(c)
  PROVE  SnapshotInv'
<1>1. PICK call : /\ Begin(c, call)
                  /\ call.kind = "snapshot" => \E now \in Nat : call = Call("snapshot", "page", None, now)
  <2>1. \A kind, step, lease, now, after : CallFrom(kind, step, lease, now, after).kind = kind
    BY DEF CallFrom
  <2>2. \A kind, step, lease, now : Call(kind, step, lease, now).kind = kind
    BY DEF Call, CallFrom
  <2>3. Snapshot(c) => \E now \in Nat : Begin(c, Call("snapshot", "page", None, now))
    BY DEF Snapshot, Clock
  <2>4. Remove(c) \/ Lookup(c) \/ Cleanup(c) => \E call : Begin(c, call) /\ call.kind # "snapshot"
    BY <2>1, <2>2 DEF Remove, Lookup, Cleanup
  <2>5. Register(c) \/ Renew(c) => \E call : Begin(c, call) /\ call.kind # "snapshot"
    BY <2>2 DEF Register, Renew
  <2> QED
    BY <2>3, <2>4, <2>5 DEF CallsAnything
<1>2. /\ op'[c] = call /\ \A b \in Clients \ {c} : op'[b] = op[b]
      /\ snapshot' \in [Clients -> (SUBSET Nodes) \union {None}]
      /\ snapshot'[c] = None /\ \A b \in Clients \ {c} : snapshot'[b] = snapshot[b]
      /\ lapsed' \in [Clients -> SUBSET Nodes] /\ \A b \in Clients \ {c} : lapsed'[b] = lapsed[b]
      /\ call.kind = "snapshot" => lapsed'[c] = {n \in Nodes : ~ Live(rows[n], call.now)}
      /\ rows' = rows
  <2>1. /\ op \in [Clients -> Op] /\ snapshot \in [Clients -> (SUBSET Nodes) \union {None}]
        /\ lapsed \in [Clients -> SUBSET Nodes]
    BY DEF RegistryInv, StorageTyped, SnapshotInv
  <2> DEFINE L == IF call.kind = "snapshot" THEN {n \in Nodes : ~ Live(rows[n], call.now)} ELSE {}
  <2>2. /\ op' = [op EXCEPT ![c] = call] /\ snapshot' = [snapshot EXCEPT ![c] = None]
        /\ lapsed' = [lapsed EXCEPT ![c] = L] /\ rows' = rows
    BY <1>1 DEF Begin
  <2>3. L \in SUBSET Nodes /\ (call.kind = "snapshot" => L = {n \in Nodes : ~ Live(rows[n], call.now)})
    OBVIOUS
  <2> HIDE DEF L
  <2> QED
    BY <2>1, <2>2, <2>3
<1>3. SnapshotComplete'
  BY <1>2 DEF SnapshotInv, SnapshotComplete
<1>4. ASSUME call.kind = "snapshot"
      PROVE  Reading(c)'
  <2>1. call.after = 0
    BY <1>1, <1>4 DEF Call, CallFrom
  <2>2. \A n \in Nodes : n \in Nat /\ ~ (n <= 0)
    OBVIOUS
  <2> QED
    BY <1>2, <1>4, <2>1, <2>2 DEF Reading
<1>5. \A b \in Clients : op'[b].kind = "snapshot" => Reading(b)'
  BY <1>2, <1>4 DEF SnapshotInv, Reading
<1> QED
  BY <1>2, <1>3, <1>5 DEF SnapshotInv

LEMMA SnapshotPageSnapshotInv ==
  ASSUME RegistryInv, SnapshotInv, NEW c \in Clients, SnapshotPage(c)
  PROVE  SnapshotInv'
<1> DEFINE page == Page(op[c].after, PageSize)
           got == op[c].got \union {n \in page : Live(rows[n], op[c].now)}
<1>1. /\ op[c] \in Op /\ op[c].kind = "snapshot" /\ Reading(c) /\ op[c].after \in Nat
      /\ op[c].got \subseteq Nodes /\ UNCHANGED <<rows, lapsed>>
  BY DEF RegistryInv, StorageTyped, SnapshotInv, SnapshotPage, Op
<1>2. /\ page \in SUBSET Nodes /\ got \in SUBSET Nodes /\ page \subseteq Listed
      /\ page # {} => /\ Last(page) \in page
                      /\ \A n \in Listed : op[c].after < n /\ n <= Last(page) => n \in page
      /\ Cardinality(page) < PageSize => \A n \in Listed : op[c].after < n => n \in page
  BY <1>1, PageHolds DEF Page
<1>3. Cardinality({}) = 0
  BY FS_EmptySet
<1> HIDE DEF page
<1>4. \A n \in Nodes \ lapsed[c] : n \in Listed /\ Live(rows[n], op[c].now)
  BY <1>1 DEF Reading, Live, Listed
<1>5. \A n \in Nodes : n \in Nat /\ (n <= op[c].after \/ op[c].after < n)
  <2> SUFFICES ASSUME NEW n \in Nodes
               PROVE  n \in Nat /\ (n <= op[c].after \/ op[c].after < n)
    OBVIOUS
  <2> QED
    BY ONLY <1>1, NodesAssumption, n \in Nodes
<1>6. CASE Ends(c, "failed") /\ UNCHANGED snapshot
  <2>1. Watched
    BY <1>1 DEF SnapshotInv, Watched
  <2>2. \A b \in Clients : op'[b].kind = "snapshot" => op'[b] = op[b]
    BY <1>6, IdleKind DEF Ends, RegistryInv, StorageTyped
  <2> QED
    BY <1>6, <2>1, <2>2, ReadersWait
<1>7. CASE /\ Cardinality(page) < PageSize /\ Ends(c, "true")
           /\ snapshot' = [snapshot EXCEPT ![c] = got]
  <2>1. Nodes \ lapsed[c] \subseteq got
    BY <1>1, <1>2, <1>4, <1>5, <1>7 DEF Reading
  <2>2. SnapshotComplete'
    BY <1>1, <1>7, <2>1 DEF SnapshotInv, SnapshotComplete
  <2>3. \A b \in Clients : op'[b].kind = "snapshot" => op'[b] = op[b]
    BY <1>7, IdleKind DEF Ends, RegistryInv, StorageTyped
  <2>4. snapshot' \in [Clients -> (SUBSET Nodes) \union {None}]
    BY <1>2, <1>7 DEF SnapshotInv
  <2> QED
    BY <1>1, <2>2, <2>3, <2>4 DEF SnapshotInv, Reading
<1>8. CASE /\ Cardinality(page) >= PageSize
           /\ op' = [op EXCEPT ![c].got = got, ![c].after = NextAfter(page)] /\ UNCHANGED snapshot
  <2>1. page # {} /\ Last(page) \in Nat
    BY <1>2, <1>3, <1>8
  <2>2. /\ op'[c].got = got /\ op'[c].after = Last(page) /\ op'[c].now = op[c].now
        /\ \A b \in Clients \ {c} : op'[b] = op[b]
    BY <1>1, <1>8 DEF NextAfter, RegistryInv, StorageTyped, Op
  <2>3. Reading(c)'
    BY <1>1, <1>2, <1>4, <1>5, <2>1, <2>2 DEF Reading
  <2>4. \A b \in Clients : op'[b].kind = "snapshot" => Reading(b)'
    BY <1>1, <2>2, <2>3 DEF SnapshotInv, Reading
  <2>5. SnapshotComplete'
    BY <1>1, <1>8 DEF SnapshotInv, SnapshotComplete
  <2> QED
    BY <1>1, <1>8, <2>4, <2>5 DEF SnapshotInv
<1> QED
  BY <1>6, <1>7, <1>8 DEF SnapshotPage, page

\* Of the other storage steps none is a reader's, but they all note what lapses.
LEMMA OthersSnapshotInv ==
  ASSUME RegistryInv, SnapshotInv, NEW c \in Clients,
         ReadRow(c) \/ Write(c) \/ CleanupPage(c) \/ Sweep(c) \/ Fails(c) \/ Abort(c)
  PROVE  SnapshotInv'
<1>1. /\ op[c] \in Op /\ Justified(c, op[c]) /\ NodeOf[c] \in Nodes
      /\ op[c].left \subseteq Nodes \X Lease
  BY DEF RegistryInv, StorageTyped, Op
<1>2. UNCHANGED snapshot
  BY DEF ReadRow, Write, CleanupPage, Sweep, Fails, WriteLost, StorageFails, SweepFails, Abort
<1>3. \A b \in Clients : op'[b].kind = "snapshot" => op'[b] = op[b]
  <2>1. CASE \E result : Ends(c, result)
    BY <2>1, IdleKind DEF Ends, RegistryInv, StorageTyped
  <2>2. CASE UNCHANGED op
    BY <2>2
  <2>3. CASE op[c].kind # "snapshot" /\ op'[c].kind = op[c].kind /\ \A b \in Clients \ {c} : op'[b] = op[b]
    BY <2>3
  <2>4. CASE ReadRow(c) /\ op' = [op EXCEPT ![c].step = "write", ![c].seen = rows[NodeOf[c]]]
    BY <1>1, <2>3, <2>4 DEF ReadRow, Justified, RegistryInv, StorageTyped, Op
  <2>5. CASE CleanupPage(c)
    <3>1. CASE \E left : op' = [op EXCEPT ![c].step = "sweep", ![c].left = left, ![c].after = 0]
      BY <1>1, <2>3, <2>5, <3>1 DEF CleanupPage, RegistryInv, StorageTyped, Op
    <3> QED
      BY <2>1, <2>5, <3>1 DEF CleanupPage
  <2>6. CASE Sweep(c) /\ \E d : op' = [op EXCEPT ![c].left = @ \ {d}]
    BY <1>1, <2>3, <2>6 DEF Sweep, Justified, RegistryInv, StorageTyped, Op
  <2> QED
    BY <2>1, <2>2, <2>4, <2>5, <2>6
    DEF ReadRow, Write, EndsUnlessAborted, Sweep, Fails, WriteLost, StorageFails, SweepFails, Abort
<1>4. Watched
  <2>1. CASE UNCHANGED <<rows, lapsed>>
    BY <2>1 DEF SnapshotInv, Watched
  <2>2. CASE Write(c) \/ WriteLost(c)
    BY <1>1, <2>1, <2>2, StoreWatched DEF Write, WriteLost
  <2>3. CASE Sweep(c) \/ SweepFails(c)
    BY <1>1, <2>3, DeletesWatched DEF Sweep, SweepFails
  <2> QED
    BY <2>1, <2>2, <2>3 DEF ReadRow, CleanupPage, Fails, StorageFails, Abort
<1> QED
  BY <1>2, <1>3, <1>4, ReadersWait

LEMMA SnapshotStep ==
  ASSUME RegistryInv, SnapshotInv, [RegistryNext]_registryVars
  PROVE  SnapshotInv'
<1>1. ASSUME NEW c \in Clients, CallsAnything(c) \/ Abort(c) \/ Continue(c) \/ Fails(c)
      PROVE  SnapshotInv'
  BY <1>1, BeginSnapshotInv, SnapshotPageSnapshotInv, OthersSnapshotInv DEF Continue
<1>2. ASSUME NEW h \in Handles, OrphanEnds(h)
      PROVE  SnapshotInv'
  <2>1. orphans[h] \subseteq Nodes \X Lease
    BY DEF RegistryInv, StorageTyped
  <2> QED
    BY <1>2, <2>1, DeletesWatched, ReadersWait DEF OrphanEnds
<1>3. CASE UNCHANGED <<rows, op, snapshot, lapsed>>
  <2>1. Watched
    BY <1>3 DEF SnapshotInv, Watched
  <2> QED
    BY <1>3, <2>1, ReadersWait
<1> QED
  BY <1>1, <1>2, <1>3 DEF RegistryNext, BeginClose, CloseHandle, Tick, registryVars

LEMMA SnapshotStart == RegistryInit => SnapshotInv
<1> SUFFICES ASSUME RegistryInit
             PROVE  SnapshotInv
  OBVIOUS
<1>1. \A c \in Clients : op[c].kind = "none" /\ snapshot[c] = None
  BY IdleKind DEF RegistryInit
<1>2. SnapshotComplete
  BY <1>1 DEF SnapshotComplete
<1>3. /\ snapshot \in [Clients -> (SUBSET Nodes) \union {None}]
      /\ lapsed \in [Clients -> SUBSET Nodes]
  BY DEF RegistryInit
<1> QED
  BY <1>1, <1>2, <1>3 DEF SnapshotInv

\* A snapshot misses no node that was live all the while, for any number of
\* nodes, any page size and any writes of other processes between two pages
\* (readAll).
THEOREM SnapshotsAreComplete == RegistrySpec => []SnapshotComplete
<1>1. SnapshotInv => SnapshotComplete
  BY DEF SnapshotInv
<1>2. RegistryInv /\ SnapshotInv /\ [RegistryNext]_registryVars => SnapshotInv'
  BY SnapshotStep
<1> QED
  BY <1>1, <1>2, SnapshotStart, RegistryInvariant, PTL DEF RegistrySpec

\* Storage, operations and handles keep their types throughout, a page and the
\* position that cleanup and snapshot go on from included (NextCursor, readAll).
THEOREM RegistryTyped == RegistrySpec => []TypeOK
<1> DEFINE HandlesTyped ==
             aborted \subseteq Clients /\ handle \in [Handles -> {"open", "closing", "closed"}]
<1>1. RegistryInit => HandlesTyped
  BY DEF RegistryInit
<1>2. HandlesTyped /\ [RegistryNext]_registryVars => HandlesTyped'
  <2> SUFFICES ASSUME HandlesTyped, [RegistryNext]_registryVars
               PROVE  HandlesTyped'
    OBVIOUS
  <2>1. ASSUME NEW c \in Clients, CallsAnything(c)
        PROVE  HandlesTyped'
    BY <2>1 DEF CallsAnything, Register, Renew, Remove, Lookup, Cleanup, Snapshot, Begin
  <2>2. ASSUME NEW c \in Clients, Abort(c) \/ Continue(c) \/ Fails(c)
        PROVE  HandlesTyped'
    BY <2>2 DEF Abort, Continue, Fails, ReadRow, Write, CleanupPage, Sweep, SnapshotPage,
                WriteLost, StorageFails, SweepFails
  <2>3. ASSUME NEW h \in Handles, OrphanEnds(h) \/ BeginClose(h) \/ CloseHandle(h)
        PROVE  HandlesTyped'
    BY <2>3 DEF OrphanEnds, BeginClose, CloseHandle
  <2>4. CASE UNCHANGED <<aborted, handle>>
    BY <2>4
  <2> QED
    BY <2>1, <2>2, <2>3, <2>4 DEF RegistryNext, Tick, registryVars
<1>3. RegistryInv /\ SnapshotInv /\ HandlesTyped => TypeOK
  BY DEF RegistryInv, StorageTyped, SnapshotInv, TypeOK
<1>4. RegistryInv /\ SnapshotInv /\ [RegistryNext]_registryVars => SnapshotInv'
  BY SnapshotStep
<1> HIDE DEF HandlesTyped
<1> QED
  BY <1>1, <1>2, <1>3, <1>4, SnapshotStart, RegistryInvariant, PTL DEF RegistrySpec

-----------------------------------------------------------------------------
(* The registrars.                                                         *)

USE RegistrarAssumption

\* The registrar's row, or the expiry of the one it stored last.
Held(c) == Owns(c) \/ ends[c] \in 0 .. time + Skew

RegistrarTyped ==
  /\ phase \in [Clients -> Phases]
  /\ confirmed \subseteq Clients /\ resolved \subseteq Clients /\ fenced \subseteq Clients

\* The operation under way is the one of the phase, and a registrar that does
\* not know its node has none and no row.
PhaseFits(c) ==
  /\ \/ op[c].kind \in {"none", phase[c]}
     \/ op[c].kind = "register" /\ phase[c] = "startRegister"
  /\ phase[c] = "remove" => c \in fenced
  /\ c \notin resolved =>
       /\ phase[c] \in {"new", "startResolve", "waiting", "resolve", "closed", "crashed"}
       /\ ~ Owns(c)

\* The last operation of a registrar leaves no row unless it fails.
RowGoes(c) ==
  /\ phase[c] = "remove" /\ op[c].kind = "none" /\ answer[c] # "failed" => ~ Owns(c)
  /\ phase[c] = "remove" /\ op[c].step = "write" => rows[NodeOf[c]] = op[c].seen \/ ~ Owns(c)
  /\ phase[c] = "closed" /\ answer[c] # "failed" => ~ Owns(c)

\* What the registrar was told is true, while it lives.
ToldRight(c) ==
  c \notin fenced =>
    /\ c \in confirmed => Held(c)
    /\ /\ phase[c] \in {"startRegister", "renew", "register", "lookup"}
       /\ op[c].kind = "none" /\ answer[c] = "true"
       => Held(c)

RegistrarFits(c) == PhaseFits(c) /\ RowGoes(c) /\ ToldRight(c)

GceInv == RegistryInv /\ RegistrarTyped /\ \A c \in Clients : RegistrarFits(c)

-----------------------------------------------------------------------------
(* What a step of one registrar leaves to the others.                      *)

LEMMA NotTaken ==
  ASSUME RegistryInv, NEW c \in Clients, NEW b \in Clients, Effect(c),
         b # c \/ op[c].kind = "none", Owns(b)'
  PROVE  Owns(b) /\ (b # c => rows'[NodeOf[b]] = rows[NodeOf[b]])
<1>1. NodeOf[b] \in Nodes
  OBVIOUS
<1>2. RowsOf(c) /\ rows'[NodeOf[b]] # None /\ rows'[NodeOf[b]].by = b
  BY DEF Effect, Owns
<1> QED
  BY <1>1, <1>2 DEF RowsOf, Owns

LEMMA HeldKept ==
  ASSUME RegistryInv, NEW c \in Clients, NEW b \in Clients, Effect(c), UNCHANGED time,
         b # c \/ op[c].kind # "remove", Held(b)
  PROVE  Held(b)'
<1> SUFFICES ASSUME ~ Owns(b)'
             PROVE  ends'[b] \in 0 .. time + Skew
  BY DEF Held
<1>1. ends'[b] = ends[b]
  BY DEF Effect, EndsOf, Owns
<1>2. CASE Owns(b)
  <2>0. NodeOf[b] \in Nodes /\ rows[NodeOf[b]] # None /\ rows[NodeOf[b]].by = b
    BY <1>2 DEF Owns
  <2>1. /\ NodeOf[b] \in Nodes /\ rows[NodeOf[b]] \in Lease /\ rows[NodeOf[b]].by = b
        /\ ends[b] = rows[NodeOf[b]].expires /\ rows[NodeOf[b]].expires >= 0
    <3>1. rows[NodeOf[b]] \in Lease
      BY <2>0 DEF RegistryInv, StorageTyped, Row
    <3>2. ends[b] = rows[NodeOf[b]].expires /\ rows[NodeOf[b]].expires >= 0
      BY <2>0 DEF RegistryInv, RowsRemembered
    <3> QED BY <2>0, <3>1, <3>2
  <2>2. rows[NodeOf[b]].expires <= time + Skew
    BY <1>2, <2>1 DEF Effect, RowsOf, Owns
  <2>3. ends[b] \in Int /\ time \in Nat
    BY DEF RegistryInv, StorageTyped
  <2> QED
    BY <1>1, <2>1, <2>2, <2>3
<1> QED
  BY <1>1, <1>2 DEF Held

\* The other registrars keep their part of the invariant.
LEMMA OthersFit ==
  ASSUME GceInv, NEW c \in Clients, NEW b \in Clients \ {c}, Effect(c), UNCHANGED time,
         phase'[b] = phase[b], b \in confirmed' <=> b \in confirmed,
         b \in resolved' <=> b \in resolved, b \in fenced' <=> b \in fenced
  PROVE  RegistrarFits(b)'
<1>1. op'[b] = op[b] /\ answer'[b] = answer[b] /\ RegistryInv
  BY DEF Effect, OnlyOf, GceInv
<1>2. Owns(b)' => Owns(b) /\ rows'[NodeOf[b]] = rows[NodeOf[b]]
  BY <1>1, NotTaken
<1>3. Held(b) => Held(b)'
  BY <1>1, HeldKept
<1>4. PhaseFits(b)'
  BY <1>1, <1>2 DEF PhaseFits, GceInv, RegistrarFits
<1>5. RowGoes(b)'
  BY <1>1, <1>2 DEF RowGoes, GceInv, RegistrarFits
<1>6. ToldRight(b)'
  BY <1>1, <1>3 DEF ToldRight, GceInv, RegistrarFits
<1> QED
  BY <1>4, <1>5, <1>6 DEF RegistrarFits

-----------------------------------------------------------------------------
(* Starting an operation, or none.                                         *)

LEMMA StutterEffect ==
  ASSUME RegistryInv, NEW c \in Clients, UNCHANGED registryVars
  PROVE  Effect(c)
  BY OtherwiseKeeps, SameRows DEF registryVars, Effect, RowsWell, OnlyOf

\* From its place with no operation under way, c goes to phase p.
Launched(c) ==
  /\ Effect(c) /\ UNCHANGED <<time, rows, ends>>
  /\ \E p \in Phases :
       /\ phase' = [phase EXCEPT ![c] = p]
       /\ \/ p \in {"waiting", "startResolve", "resolve"} /\ op'[c].kind = "none"
          \/ p = "closed" /\ op'[c].kind = "none" /\ c \notin resolved'
          \/ /\ p = "remove" /\ c \in fenced' \intersect resolved'
             /\ op'[c].kind = "remove" /\ op'[c].step = "read"
          \/ p \in {"renew", "lookup", "register", "cleanup"} /\ op'[c].kind = p /\ c \in resolved'
          \/ p = "startRegister" /\ op'[c].kind = "register" /\ c \in resolved'

LEMMA LaunchedKeeps ==
  ASSUME GceInv, NEW c \in Clients, Launched(c),
         resolved \subseteq resolved', resolved' \subseteq resolved \union {c},
         fenced \subseteq fenced', fenced' \subseteq fenced \union {c},
         confirmed' \ {c} = confirmed \ {c}, confirmed' \subseteq Clients,
         c \in confirmed' \ fenced' => Held(c)
  PROVE  GceInv'
<1>1. RegistryInv' /\ RegistrarTyped'
  BY DEF GceInv, RegistrarTyped, Launched, Effect
<1>2. ASSUME NEW b \in Clients \ {c}
      PROVE  RegistrarFits(b)'
  BY <1>2, OthersFit DEF Launched, GceInv, RegistrarTyped
<1>3. Owns(c)' = Owns(c) /\ Held(c)' = Held(c)
  BY DEF Launched, Owns, Held
<1>4. PICK p \in Phases :
        /\ phase'[c] = p
        /\ \/ p \in {"waiting", "startResolve", "resolve"} /\ op'[c].kind = "none"
           \/ p = "closed" /\ op'[c].kind = "none" /\ c \notin resolved'
           \/ /\ p = "remove" /\ c \in fenced' \intersect resolved'
             /\ op'[c].kind = "remove" /\ op'[c].step = "read"
           \/ p \in {"renew", "lookup", "register", "cleanup"} /\ op'[c].kind = p /\ c \in resolved'
           \/ p = "startRegister" /\ op'[c].kind = "register" /\ c \in resolved'
  BY DEF Launched, GceInv, RegistrarTyped
<1>5. c \notin resolved' => ~ Owns(c)
  BY DEF GceInv, RegistrarFits, PhaseFits
<1>6. PhaseFits(c)'
  BY <1>3, <1>4, <1>5 DEF PhaseFits
<1>7. RowGoes(c)'
  BY <1>3, <1>4, <1>5 DEF RowGoes
<1>8. ToldRight(c)'
  BY <1>3, <1>4 DEF ToldRight
<1> QED
  BY <1>1, <1>2, <1>6, <1>7, <1>8 DEF GceInv, RegistrarFits

LEMMA CallLaunched ==
  ASSUME GceInv, NEW c \in Clients, Calling(c)
  PROVE  Effect(c) /\ UNCHANGED <<time, rows, ends>>
  BY CallKeeps DEF GceInv

LEMMA RemoveLaunched ==
  ASSUME GceInv, NEW c \in Clients, c \in fenced' \intersect resolved', Goes(c, "remove"), Remove(c)
  PROVE  Launched(c)
  BY CallLaunched, CallShape DEF Launched, Goes, Phases, Calling, GceInv

LEMMA RestLaunched ==
  ASSUME GceInv, NEW c \in Clients, NEW p \in {"waiting", "startResolve", "resolve", "closed"},
         Goes(c, p), UNCHANGED registryVars, op[c].kind = "none", p = "closed" => c \notin resolved'
  PROVE  Launched(c)
  BY StutterEffect DEF Launched, Goes, Phases, registryVars, GceInv

LEMMA WithdrawLaunched ==
  ASSUME GceInv, NEW c \in Clients, Withdraw(c), c \in fenced', resolved' = resolved,
         op[c].kind = "none"
  PROVE  Launched(c)
  BY RemoveLaunched, RestLaunched DEF Withdraw

LEMMA EndWorkLaunched ==
  ASSUME GceInv, NEW c \in Clients, EndWork(c), fenced' = fenced, resolved' = resolved,
         op[c].kind = "none"
  PROVE  Launched(c)
  BY WithdrawLaunched, RestLaunched DEF EndWork

LEMMA ConfirmOrRenewLaunched ==
  ASSUME GceInv, NEW c \in Clients, ConfirmOrRenew(c), fenced' = fenced, c \in resolved',
         c \notin fenced \/ resolved' = resolved, op[c].kind = "none"
  PROVE  Launched(c)
<1>1. CASE c \in fenced
  BY <1>1, EndWorkLaunched DEF ConfirmOrRenew, Proceed
<1>2. CASE Goes(c, "renew") /\ Renew(c)
  BY <1>2, CallLaunched, CallShape DEF Launched, Goes, Phases, Calling, GceInv
<1>3. CASE Goes(c, "lookup") /\ Lookup(c)
  BY <1>3, CallLaunched, CallShape DEF Launched, Goes, Phases, Calling, GceInv
<1> QED
  BY <1>1, <1>2, <1>3 DEF ConfirmOrRenew, Proceed

-----------------------------------------------------------------------------
(* The operation under way goes on.                                        *)

\* A read that was not the last step of its operation.
LEMMA ReadRowShape ==
  ASSUME RegistryInv, NEW c \in Clients, op[c].kind # "lookup", Owns(c), c \notin aborted, ReadRow(c)
  PROVE  /\ op'[c].kind = op[c].kind /\ op[c].kind # "none"
         /\ op'[c].step = "write" /\ op'[c].seen = rows[NodeOf[c]] /\ UNCHANGED <<rows, answer>>
<1>1. op[c] \in Op /\ Justified(c, op[c])
  BY DEF RegistryInv, StorageTyped
<1>2. op' = [op EXCEPT ![c].step = "write", ![c].seen = rows[NodeOf[c]]]
  BY DEF ReadRow
<1>3. op'[c] = [op[c] EXCEPT !.step = "write", !.seen = rows[NodeOf[c]]]
  BY <1>1, <1>2 DEF Op, RegistryInv, StorageTyped
<1> QED
  BY <1>1, <1>3 DEF Op, ReadRow, Justified

\* An operation that was answered "true" stored its row or found it.
LEMMA TrueAnswers ==
  ASSUME RegistryInv, NEW c \in Clients, op[c].kind \in {"register", "renew", "lookup"},
         Continue(c) \/ Fails(c), op'[c].kind = "none", answer'[c] = "true"
  PROVE  Owns(c)'
<1>1. /\ op[c] \in Op /\ Justified(c, op[c]) /\ NodeOf[c] \in Nodes
      /\ c \in DOMAIN answer /\ op[c].lease \in Row
  BY DEF RegistryInv, StorageTyped, Op
<1>2. ASSUME NEW result, Ends(c, result)
      PROVE  result = "true"
  BY <1>1, <1>2 DEF Ends
<1>3. CASE ReadRow(c)
  <2>1. op[c].kind = "lookup" /\ Owns(c)
    BY <1>2, <1>3, ReadRowShape DEF ReadRow
  <2> QED
    BY <1>3, <2>1 DEF ReadRow, Owns
<1>4. CASE Write(c)
  <2>1. Store(NodeOf[c], op[c].lease) /\ op[c].lease # None /\ op[c].lease.by = c
    BY <1>1, <1>2, <1>4 DEF Write, EndsUnlessAborted, Justified
  <2> QED
    BY <1>1, <2>1, StoreRows DEF Owns
<1>5. CASE CleanupPage(c) \/ SnapshotPage(c) \/ Sweep(c) \/ SweepFails(c)
  BY <1>1, <1>5 DEF CleanupPage, SnapshotPage, Sweep, SweepFails, Justified
<1>6. CASE WriteLost(c) \/ StorageFails(c)
  BY <1>2, <1>6 DEF WriteLost, StorageFails
<1> QED
  BY <1>3, <1>4, <1>5, <1>6 DEF Continue, Fails

\* A removal that does not fail leaves the registrar without a row.
LEMMA RemovalGoes ==
  ASSUME RegistryInv, NEW c \in Clients, op[c].kind = "remove",
         op[c].step = "write" => rows[NodeOf[c]] = op[c].seen \/ ~ Owns(c),
         Continue(c) \/ Fails(c) \/ Abort(c)
  PROVE  /\ op'[c].kind = "none" /\ answer'[c] # "failed" => ~ Owns(c)'
         /\ op'[c].step = "write" => rows'[NodeOf[c]] = op'[c].seen \/ ~ Owns(c)'
<1>1. /\ op[c] \in Op /\ Justified(c, op[c]) /\ NodeOf[c] \in Nodes
      /\ c \in DOMAIN answer /\ op[c].lease = None /\ None \in Row
  BY DEF RegistryInv, StorageTyped, Op, Justified, Row
<1>2. ASSUME NEW result, Ends(c, result)
      PROVE  answer'[c] = result /\ op'[c] = Idle /\ op'[c].step # "write"
  BY <1>1, <1>2, IdleKind DEF Ends, RegistryInv, StorageTyped
<1>3. CASE ReadRow(c)
  <2>1. CASE Ends(c, "failed")
    BY <1>2, <2>1
  <2>2. CASE ~ Owns(c) /\ Ends(c, "false")
    BY <1>2, <1>3, <2>2 DEF ReadRow, Owns
  <2>3. CASE c \notin aborted /\ Owns(c)
    BY <1>3, <2>3, ReadRowShape
  <2> QED
    BY <1>3, <2>1, <2>2, <2>3 DEF ReadRow
<1>4. CASE Write(c)
  <2>1. CASE rows[NodeOf[c]] = op[c].seen /\ Store(NodeOf[c], op[c].lease) /\ EndsUnlessAborted(c, "true")
    BY <1>1, <1>2, <2>1, StoreRows DEF Owns, EndsUnlessAborted
  <2>2. CASE /\ rows[NodeOf[c]] # op[c].seen /\ EndsUnlessAborted(c, "false")
             /\ UNCHANGED <<rows, lapsed, ends>>
    BY <1>2, <1>4, <2>2 DEF Owns, Write, EndsUnlessAborted
  <2> QED
    BY <1>4, <2>1, <2>2 DEF Write
<1>5. CASE CleanupPage(c) \/ SnapshotPage(c) \/ Sweep(c) \/ SweepFails(c)
  BY <1>1, <1>5 DEF CleanupPage, SnapshotPage, Sweep, SweepFails, Justified
<1>6. CASE WriteLost(c) \/ StorageFails(c)
  BY <1>2, <1>6 DEF WriteLost, StorageFails
<1>7. CASE Abort(c)
  BY <1>7, AbortKeeps DEF Owns
<1> QED
  BY <1>3, <1>4, <1>5, <1>6, <1>7 DEF Continue, Fails

\* A step of the operation of a registrar.
LEMMA OperationFits ==
  ASSUME GceInv, NEW c \in Clients, Continue(c) \/ Fails(c) \/ Abort(c), UNCHANGED time,
         UNCHANGED <<phase, confirmed, resolved>>, fenced \subseteq fenced',
         fenced' \subseteq fenced \union {c}
  PROVE  GceInv'
<1>1. RegistryInv /\ Effect(c) /\ op'[c].kind \in {"none", op[c].kind}
  BY OperationKeeps DEF GceInv
<1>2. RegistryInv' /\ RegistrarTyped'
  BY <1>1 DEF GceInv, RegistrarTyped, Effect
<1>3. ASSUME NEW b \in Clients \ {c}
      PROVE  RegistrarFits(b)'
  BY <1>1, <1>3, OthersFit DEF GceInv, RegistrarTyped
<1>4. PhaseFits(c) /\ RowGoes(c) /\ ToldRight(c)
  BY DEF GceInv, RegistrarFits
<1>5. PhaseFits(c)'
  <2>1. c \notin resolved => op[c].kind = "none"
    BY <1>1, <1>4 DEF PhaseFits, RegistryInv, StorageTyped, Op
  <2>2. c \notin resolved => ~ Owns(c)'
    BY <1>1, <1>4, <2>1, NotTaken DEF PhaseFits
  <2> QED
    BY <1>1, <1>4, <2>2 DEF PhaseFits
<1>6. RowGoes(c)'
  <2>1. CASE phase[c] = "remove"
    <3>1. CASE op[c].kind = "remove"
      BY <1>1, <1>4, <2>1, <3>1, RemovalGoes DEF RowGoes
    <3>2. CASE op[c].kind # "remove"
      <4>1. op[c].kind = "none"
        BY <1>4, <2>1, <3>2 DEF PhaseFits
      <4>2. Justified(c, op[c])
        BY <1>1 DEF RegistryInv
      <4>3. StorageFails(c)
        BY <4>1, <4>2 DEF Continue, Fails, ReadRow, Write, CleanupPage, Sweep, SnapshotPage,
                          WriteLost, SweepFails, Abort, Justified
      <4>4. op'[c] = Idle /\ answer'[c] = "failed"
        BY <4>3, <1>1 DEF StorageFails, Ends, RegistryInv, StorageTyped
      <4> QED
        BY <2>1, <4>4, IdleKind DEF RowGoes
    <3> QED
      BY <3>1, <3>2
  <2>2. CASE phase[c] = "closed"
    <3>1. op[c].kind = "none"
      BY <1>1, <1>4, <2>2 DEF PhaseFits, RegistryInv, StorageTyped, Op
    <3>2. Justified(c, op[c])
      BY <1>1 DEF RegistryInv
    <3>3. StorageFails(c)
      BY <3>1, <3>2 DEF Continue, Fails, ReadRow, Write, CleanupPage, Sweep, SnapshotPage,
                        WriteLost, SweepFails, Abort, Justified
    <3>4. answer'[c] = "failed"
      BY <3>3, <1>1 DEF StorageFails, Ends, RegistryInv, StorageTyped
    <3> QED
      BY <2>2, <3>4 DEF RowGoes
  <2> QED
    BY <2>1, <2>2 DEF RowGoes
<1>7. ToldRight(c)'
  <2> SUFFICES ASSUME c \notin fenced
               PROVE  ToldRight(c)'
    BY DEF ToldRight
  <2>1. op[c].kind # "remove"
    BY <1>1, <1>4 DEF PhaseFits, RegistryInv, StorageTyped, Op
  <2>2. Held(c) => Held(c)'
    BY <1>1, <2>1, HeldKept
  <2>3. ASSUME phase[c] \in {"startRegister", "renew", "register", "lookup"},
               op'[c].kind = "none", answer'[c] = "true"
        PROVE  Held(c)'
    <3>1. CASE op[c].kind \in {"register", "renew", "lookup"}
      <4>1. CASE Abort(c)
        BY <3>1, <4>1, <2>3, AbortKeeps, <1>1
      <4>2. CASE Continue(c) \/ Fails(c)
        BY <1>1, <2>3, <3>1, <4>2, TrueAnswers DEF Held
      <4> QED
        BY <4>1, <4>2
    <3>2. CASE op[c].kind = "none"
      <4>1. Justified(c, op[c])
        BY <1>1 DEF RegistryInv
      <4>2. StorageFails(c)
        BY <3>2, <4>1 DEF Continue, Fails, ReadRow, Write, CleanupPage, Sweep, SnapshotPage,
                          WriteLost, SweepFails, Abort, Justified
      <4>3. answer'[c] = "failed"
        BY <4>2, <1>1 DEF StorageFails, Ends, RegistryInv, StorageTyped
      <4> QED
        BY <2>3, <4>3
    <3> QED
      BY <1>1, <1>4, <2>3, <3>1, <3>2 DEF PhaseFits, RegistryInv, StorageTyped, Op
  <2> QED
    BY <1>4, <2>2, <2>3 DEF ToldRight
<1> QED
  BY <1>2, <1>3, <1>5, <1>6, <1>7 DEF GceInv, RegistrarFits

-----------------------------------------------------------------------------
(* The steps of a registrar, one by one.                                   *)

LEMMA Told ==
  ASSUME GceInv, NEW c \in Clients, c \notin fenced,
         phase[c] \in {"startRegister", "renew", "register", "lookup"}, op[c].kind = "none"
  PROVE  answer[c] = "true" => Held(c)
  BY DEF GceInv, RegistrarFits, ToldRight

LEMMA Believed ==
  ASSUME GceInv, NEW c \in confirmed \ fenced
  PROVE  Held(c)
  BY DEF GceInv, RegistrarTyped, RegistrarFits, ToldRight

LEMMA Quiet ==
  ASSUME GceInv, NEW c \in Clients, phase[c] \in {"new", "startResolve", "waiting", "resolve"}
  PROVE  op[c].kind = "none"
  BY DEF GceInv, RegistryInv, StorageTyped, Op, RegistrarFits, PhaseFits

LEMMA Resolved ==
  ASSUME GceInv, NEW c \in Clients, phase[c] \in {"startRegister", "renew", "register", "lookup", "cleanup", "remove"}
  PROVE  c \in resolved
  BY DEF GceInv, RegistrarFits, PhaseFits

LEMMA CallStarts ==
  ASSUME GceInv, NEW c \in Clients, c \in resolved',
         \/ Goes(c, "register") /\ Register(c)
         \/ Goes(c, "startRegister") /\ Register(c)
         \/ Goes(c, "cleanup") /\ Cleanup(c)
  PROVE  Launched(c)
<1>1. CASE Goes(c, "register") /\ Register(c)
  BY <1>1, CallLaunched, CallShape DEF Launched, Goes, Phases, Calling, GceInv
<1>2. CASE Goes(c, "startRegister") /\ Register(c)
  BY <1>2, CallLaunched, CallShape DEF Launched, Goes, Phases, Calling, GceInv
<1>3. CASE Goes(c, "cleanup") /\ Cleanup(c)
  BY <1>3, CallLaunched, CallShape DEF Launched, Goes, Phases, Calling, GceInv
<1> QED
  BY <1>1, <1>2, <1>3

LEMMA StepFits ==
  ASSUME GceInv, NEW c \in Clients, Step(c)
  PROVE  GceInv'
<1> USE DEF RegistrarTyped
<1>1. RegistrarTyped /\ RegistryInv
  BY DEF GceInv
<1>2. CASE Start(c)
  <2>1. UNCHANGED <<confirmed, resolved, fenced>> /\ phase[c] = "new"
    BY <1>2 DEF Start
  <2>2. Launched(c)
    BY <1>2, <2>1, Quiet, CallStarts, RestLaunched DEF Start
  <2> QED
    BY <1>1, <2>1, <2>2, LaunchedKeeps, Believed
<1>3. CASE MetadataAnswers(c)
  <2>1. /\ UNCHANGED <<confirmed, fenced>> /\ resolved' = resolved \union {c}
        /\ phase[c] \in {"startResolve", "resolve"} /\ op[c].kind = "none"
    BY <1>3, Quiet DEF MetadataAnswers
  <2>2. Launched(c)
    <3>1. CASE c \in fenced
      BY <1>3, <2>1, <3>1, RemoveLaunched DEF MetadataAnswers
    <3>2. CASE c \notin fenced /\ phase[c] = "resolve"
      BY <1>3, <2>1, <3>2, ConfirmOrRenewLaunched DEF MetadataAnswers
    <3>3. CASE c \notin fenced /\ phase[c] # "resolve"
      BY <1>3, <2>1, <3>3, CallStarts DEF MetadataAnswers, Proceed
    <3> QED
      BY <3>1, <3>2, <3>3
  <2> QED
    BY <1>1, <2>1, <2>2, LaunchedKeeps, Believed
<1>4. CASE MetadataFails(c)
  <2>1. UNCHANGED <<confirmed, resolved, fenced>> /\ op[c].kind = "none" /\ EndWork(c)
    BY <1>4, Quiet DEF MetadataFails
  <2> QED
    BY <1>1, <2>1, EndWorkLaunched, LaunchedKeeps, Believed
<1>5. CASE Started(c)
  <2>1. UNCHANGED <<resolved, fenced>> /\ op[c].kind = "none" /\ EndWork(c)
    BY <1>5 DEF Started
  <2>2. /\ confirmed' \ {c} = confirmed \ {c} /\ confirmed' \subseteq Clients
        /\ c \in confirmed' \ fenced' => Held(c)
    BY <1>1, <1>5, <2>1, Told DEF Started, Confirms
  <2> QED
    BY <1>1, <2>1, <2>2, EndWorkLaunched, LaunchedKeeps
<1>6. CASE TimerFires(c)
  <2>1. UNCHANGED <<confirmed, resolved, fenced>> /\ op[c].kind = "none"
    BY <1>6, Quiet DEF TimerFires
  <2>2. Launched(c)
    BY <1>6, <2>1, ConfirmOrRenewLaunched, RestLaunched DEF TimerFires
  <2> QED
    BY <1>1, <2>1, <2>2, LaunchedKeeps, Believed
<1>7. CASE Renewed(c)
  <2>1. UNCHANGED <<resolved, fenced>> /\ op[c].kind = "none" /\ c \in resolved
    BY <1>7, Resolved DEF Renewed
  <2>2. Launched(c)
    BY <1>7, <2>1, EndWorkLaunched, CallStarts DEF Renewed, Proceed
  <2>3. /\ confirmed' \ {c} = confirmed \ {c} /\ confirmed' \subseteq Clients
        /\ c \in confirmed' \ fenced' => Held(c)
    BY <1>1, <1>7, <2>1, Told, Believed DEF Renewed, Confirms
  <2> QED
    BY <1>1, <2>1, <2>2, <2>3, LaunchedKeeps
<1>8. CASE LookedUp(c)
  <2>1. UNCHANGED <<resolved, fenced>> /\ op[c].kind = "none" /\ c \in resolved
    BY <1>8, Resolved DEF LookedUp
  <2>2. Launched(c)
    BY <1>8, <2>1, EndWorkLaunched, CallStarts DEF LookedUp, Proceed
  <2>3. /\ confirmed' \ {c} = confirmed \ {c} /\ confirmed' \subseteq Clients
        /\ c \in confirmed' \ fenced' => Held(c)
    BY <1>1, <1>8, <2>1, Told, Believed DEF LookedUp, Confirms
  <2> QED
    BY <1>1, <2>1, <2>2, <2>3, LaunchedKeeps
<1>9. CASE CleanedUp(c)
  <2>1. UNCHANGED <<confirmed, resolved, fenced>> /\ op[c].kind = "none" /\ EndWork(c)
    BY <1>9 DEF CleanedUp
  <2> QED
    BY <1>1, <2>1, EndWorkLaunched, LaunchedKeeps, Believed
<1>10. CASE Removed(c)
  <2>1. /\ UNCHANGED <<confirmed, resolved, fenced, time>> /\ UNCHANGED registryVars
        /\ phase[c] = "remove" /\ op[c].kind = "none" /\ phase' = [phase EXCEPT ![c] = "closed"]
    BY <1>10 DEF Removed, Goes, registryVars
  <2>2. Effect(c) /\ UNCHANGED <<op, rows, answer, ends>>
    BY <1>1, <2>1, StutterEffect DEF registryVars
  <2>3. ASSUME NEW b \in Clients \ {c}
        PROVE  RegistrarFits(b)'
    BY <1>1, <2>1, <2>2, <2>3, OthersFit
  <2>4. PhaseFits(c) /\ RowGoes(c) /\ ToldRight(c) /\ c \in resolved
    BY <2>1, Resolved DEF GceInv, RegistrarFits
  <2>5. RegistrarFits(c)'
    BY <1>1, <2>1, <2>2, <2>4 DEF RegistrarFits, PhaseFits, RowGoes, ToldRight, Owns, Held
  <2> QED
    BY <1>1, <2>1, <2>2, <2>3, <2>5 DEF GceInv, Effect, Phases
<1>11. CASE StorageStep(c) \/ Fault(c)
  <2>1. /\ Continue(c) \/ Fails(c) \/ Abort(c)
        /\ UNCHANGED <<phase, confirmed, resolved, fenced>>
    BY <1>11 DEF StorageStep, Fault, registrarVars
  <2>2. UNCHANGED time
    BY <2>1 DEF Continue, Fails, Abort, ReadRow, Write, CleanupPage, Sweep, SnapshotPage,
                WriteLost, StorageFails, SweepFails
  <2> QED
    BY <2>1, <2>2, OperationFits
<1>12. CASE Close(c)
  <2>1. /\ UNCHANGED <<confirmed, resolved>> /\ fenced' = fenced \union {c} /\ c \notin fenced
    BY <1>12 DEF Close
  <2>2. CASE phase[c] \in {"new", "waiting"}
    BY <1>1, <1>12, <2>1, <2>2, Quiet, WithdrawLaunched, LaunchedKeeps, Believed DEF Close
  <2>3. CASE UNCHANGED phase /\ Abort(c)
    <3>1. UNCHANGED time
      BY <2>3 DEF Abort
    <3> QED
      BY <2>1, <2>3, <3>1, OperationFits
  <2>4. CASE UNCHANGED phase /\ UNCHANGED registryVars
    <3>1. RegistryInv' /\ UNCHANGED <<time, op, rows, answer, ends>>
      BY <1>1, <2>4, OtherwiseKeeps DEF registryVars
    <3>2. \A b \in Clients : RegistrarFits(b)'
      BY <2>1, <2>4, <3>1 DEF GceInv, RegistrarFits, PhaseFits, RowGoes, ToldRight, Owns, Held
    <3> QED
      BY <1>1, <2>1, <2>4, <3>1, <3>2 DEF GceInv
  <2> QED
    BY <1>12, <2>2, <2>3, <2>4 DEF Close
<1>13. CASE Crash(c)
  <2>1. /\ UNCHANGED <<time, rows, answer, ends, cursor, confirmed, resolved, fenced>>
        /\ op' = [op EXCEPT ![c] = Idle] /\ phase' = [phase EXCEPT ![c] = "crashed"]
        /\ orphans' = [orphans EXCEPT ![HandleOf[c]] = {}]
    BY <1>13 DEF Crash, Goes
  <2>2. Idle \in Op /\ Justified(c, Idle)
    BY <1>1, IdleJustified DEF RegistryInv
  <2>3. op' \in [Clients -> Op] /\ \A b \in Clients : op'[b] = IF b = c THEN Idle ELSE op[b]
    BY <1>1, <2>1, <2>2 DEF RegistryInv, StorageTyped
  <2>4. StorageTyped' /\ RowsRemembered'
    BY <1>1, <2>1, <2>3 DEF RegistryInv, StorageTyped, RowsRemembered
  <2>5. \A b \in Clients : Justified(b, op[b])'
    BY <1>1, <2>1, <2>2, <2>3 DEF RegistryInv, Justified
  <2>6. RegistryInv'
    BY <1>1, <2>1, <2>4, <2>5 DEF RegistryInv, StorageTyped
  <2>7. \A b \in Clients \ {c} : RegistrarFits(b)'
    BY <1>1, <2>1, <2>3 DEF GceInv, RegistrarFits, PhaseFits, RowGoes, ToldRight, Owns, Held
  <2>8. RegistrarFits(c)'
    BY <1>1, <2>1, <2>3, IdleKind DEF GceInv, RegistrarFits, PhaseFits, RowGoes, ToldRight, Owns, Held
  <2> QED
    BY <1>1, <2>1, <2>6, <2>7, <2>8 DEF GceInv, Phases
<1>14. CASE Orphan(c)
  <2>1. /\ Effect(c) /\ UNCHANGED <<op, answer>>
        /\ \A n \in Nodes : rows'[n] \in {rows[n], None}
    BY <1>1, <1>14, OrphanEndsKeeps DEF Orphan
  <2>2. UNCHANGED <<time, phase, confirmed, resolved, fenced>>
    BY <1>14 DEF Orphan, OrphanEnds, registrarVars
  <2>3. \A b \in Clients \ {c} : RegistrarFits(b)'
    BY <1>1, <2>1, <2>2, OthersFit
  <2>4. Owns(c)' => Owns(c) /\ rows'[NodeOf[c]] = rows[NodeOf[c]]
    BY <2>1 DEF Owns
  <2>5. PhaseFits(c) /\ RowGoes(c) /\ ToldRight(c)
    BY DEF GceInv, RegistrarFits
  <2>6. PhaseFits(c)' /\ RowGoes(c)'
    BY <2>1, <2>2, <2>4, <2>5 DEF PhaseFits, RowGoes
  <2>7. ToldRight(c)'
    <3> SUFFICES ASSUME c \notin fenced
                 PROVE  ToldRight(c)'
      BY <2>2 DEF ToldRight
    <3>1. op[c].kind # "remove"
      BY <1>1, <2>5 DEF PhaseFits, RegistryInv, StorageTyped, Op
    <3>2. Held(c) => Held(c)'
      BY <1>1, <2>1, <2>2, <3>1, HeldKept
    <3> QED
      BY <2>1, <2>2, <2>5, <3>2 DEF ToldRight
  <2> QED
    BY <1>1, <2>1, <2>2, <2>3, <2>6, <2>7 DEF GceInv, RegistrarFits, Effect
<1> QED
  BY <1>2, <1>3, <1>4, <1>5, <1>6, <1>7, <1>8, <1>9, <1>10, <1>11, <1>12, <1>13, <1>14
     DEF Step, Advance

LEMMA ClocksFit ==
  ASSUME GceInv, Clocks
  PROVE  GceInv'
<1>1. /\ RegistryInv' /\ UNCHANGED <<rows, ends, op, answer, phase, confirmed, resolved, fenced>>
      /\ time' = time + 1 /\ time \in Nat
  BY TickKeeps DEF Clocks, Tick, registrarVars, GceInv, RegistryInv, StorageTyped
<1>2. ASSUME NEW c \in Clients, Held(c)
      PROVE  Held(c)'
  BY <1>1, <1>2 DEF Held, Owns, GceInv, RegistryInv, StorageTyped
<1>3. \A c \in Clients : RegistrarFits(c)'
  BY <1>1, <1>2 DEF GceInv, RegistrarFits, PhaseFits, RowGoes, ToldRight, Owns
<1> QED
  BY <1>1, <1>3 DEF GceInv, RegistrarTyped

LEMMA GceStep ==
  ASSUME GceInv, [Next]_vars
  PROVE  GceInv'
<1>1. CASE UNCHANGED vars
  <2>1. UNCHANGED <<phase, confirmed, resolved, fenced>> /\ UNCHANGED registryVars
    BY <1>1 DEF vars, registrarVars
  <2>2. RegistryInv'
    BY <2>1, OtherwiseKeeps DEF GceInv, registryVars
  <2>3. \A c \in Clients : RegistrarFits(c)'
    BY <2>1 DEF GceInv, RegistrarFits, PhaseFits, RowGoes, ToldRight, Owns, Held, registryVars
  <2> QED
    BY <2>1, <2>2, <2>3 DEF GceInv, RegistrarTyped
<1> QED
  BY <1>1, StepFits, ClocksFit DEF Next

LEMMA GceStart == Init => GceInv
<1> SUFFICES ASSUME Init
             PROVE  GceInv
  OBVIOUS
<1>1. RegistryInv
  BY RegistryStart DEF Init
<1>2. \A c \in Clients : RegistrarFits(c)
  BY IdleKind DEF Init, RegistryInit, RegistrarFits, PhaseFits, RowGoes, ToldRight, Owns
<1> QED
  BY <1>1, <1>2 DEF GceInv, RegistrarTyped, Init, Phases

THEOREM GceInvariant == Spec => []GceInv
<1>1. GceInv /\ [Next]_vars => GceInv'
  BY GceStep
<1> QED
  BY <1>1, GceStart, PTL DEF Spec

-----------------------------------------------------------------------------
\* However a registrar is closed - during its first registration, a renewal,
\* a metadata read, after lost answers - a close() whose removal did not fail
\* leaves no row of it in storage (close).
THEOREM ClosedIsWithdrawn == Spec => []ClosedLeavesNoRow
<1>1. GceInv => ClosedLeavesNoRow
  BY DEF GceInv, RegistrarFits, RowGoes, ClosedLeavesNoRow
<1> QED
  BY <1>1, GceInvariant, PTL

\* A registrar that believes it is registered is, unless its lease has run out
\* on some clock (#confirmed).
THEOREM ConfirmationIsTrue == Spec => []ConfirmedIsListed
<1>1. GceInv => ConfirmedIsListed
  BY DEF GceInv, RegistrarFits, ToldRight, Held, ConfirmedIsListed, RegistrarTyped
<1> QED
  BY <1>1, GceInvariant, PTL

LEMMA ClosedStays ==
  ASSUME GceInv, [Next]_vars, NEW c \in Clients, phase[c] = "closed"
  PROVE  phase'[c] = "closed"
<1>1. CASE UNCHANGED phase
  BY <1>1
<1>2. ASSUME NEW b \in Clients, NEW p, Goes(b, p), b # c
      PROVE  phase'[c] = "closed"
  BY <1>2 DEF Goes, GceInv, RegistrarTyped
<1>3. ASSUME NEW b \in Clients, EndWork(b) \/ Withdraw(b), b # c
      PROVE  phase'[c] = "closed"
  BY <1>2, <1>3 DEF EndWork, Withdraw
<1>4. ASSUME NEW b \in Clients, ConfirmOrRenew(b), b # c
      PROVE  phase'[c] = "closed"
  BY <1>2, <1>3, <1>4 DEF ConfirmOrRenew, Proceed
<1>5. ASSUME NEW b \in Clients, Step(b)
      PROVE  phase'[c] = "closed"
  <2>1. CASE Start(b)
    BY <1>2, <2>1 DEF Start
  <2>2. CASE MetadataAnswers(b)
    BY <1>2, <1>3, <1>4, <2>2 DEF MetadataAnswers, Proceed
  <2>3. CASE MetadataFails(b) \/ Started(b) \/ CleanedUp(b)
    BY <1>3, <2>3 DEF MetadataFails, Started, CleanedUp
  <2>4. CASE TimerFires(b)
    BY <1>2, <1>4, <2>4 DEF TimerFires
  <2>5. CASE Renewed(b) \/ LookedUp(b)
    BY <1>2, <1>3, <2>5 DEF Renewed, LookedUp, Proceed
  <2>6. CASE Removed(b) \/ Crash(b)
    BY <1>2, <2>6 DEF Removed, Crash
  <2>7. CASE StorageStep(b) \/ Fault(b) \/ Orphan(b)
    BY <1>1, <2>7 DEF StorageStep, Fault, Orphan, registrarVars
  <2>8. CASE Close(b)
    BY <1>1, <1>3, <2>8 DEF Close
  <2> QED
    BY <1>5, <2>1, <2>2, <2>3, <2>4, <2>5, <2>6, <2>7, <2>8 DEF Step, Advance
<1> QED
  BY <1>1, <1>5 DEF Next, Clocks, vars, registrarVars

\* After close() has ended no operation of the registrar is under way, and none
\* starts: neither a timer nor a late answer revives it (close).
THEOREM ClosedIsSilent == Spec => DeadIsSilent
<1>1. ASSUME GceInv, [Next]_vars
      PROVE  [\A c \in Clients : phase[c] = "closed" => op[c].kind = "none" /\ op'[c].kind = "none"]_vars
  <2>1. GceInv'
    BY <1>1, GceStep
  <2>2. ASSUME NEW c \in Clients, phase[c] = "closed"
        PROVE  op[c].kind = "none"
    BY <1>1, <2>2 DEF GceInv, RegistryInv, StorageTyped, Op, RegistrarFits, PhaseFits
  <2>3. ASSUME NEW c \in Clients, phase'[c] = "closed"
        PROVE  op'[c].kind = "none"
    BY <2>1, <2>3 DEF GceInv, RegistryInv, StorageTyped, Op, RegistrarFits, PhaseFits
  <2> QED
    BY <1>1, <2>2, <2>3, ClosedStays
<1> QED
  BY <1>1, GceInvariant, PTL DEF Spec, DeadIsSilent
=============================================================================
