------------------------ MODULE RemoteDeliveryProofs ------------------------
(***************************************************************************)
(* Proofs about RemoteDelivery for every set of workers and rows, every    *)
(* number of faults and acknowledgement attempts.                          *)
(***************************************************************************)
EXTENDS RemoteDelivery, FiniteSetTheorems, WellFoundedInduction, TLAPS

\* Min of the community modules on sets of natural numbers.
LEMMA MinOfNaturals ==
  ASSUME NEW S \in SUBSET Nat, S # {}
  PROVE  Min(S) \in S /\ \A x \in S : Min(S) <= x
<1>1. IsWellFoundedOn(OpToRel(<, Nat), Nat)
  BY NatLessThanWellFounded
<1>2. PICK x \in S : \A y \in S : ~ (<<y, x>> \in OpToRel(<, Nat))
  BY <1>1, WFMin
<1>3. \A y \in S : x <= y
  <2> SUFFICES ASSUME NEW y \in S PROVE x <= y
    OBVIOUS
  <2>1. ~ (<<y, x>> \in OpToRel(<, Nat))
    BY <1>2
  <2>2. ~ (y < x)
    BY <2>1 DEF OpToRel
  <2> QED
    BY <2>2
<1> QED
  BY <1>3 DEF Min

\* A function's values on a finite set are finitely many.
LEMMA Values ==
  ASSUME NEW S, IsFiniteSet(S), NEW T, NEW f \in [S -> T], \A t \in T : \E x \in S : f[x] = t
  PROVE  IsFiniteSet(T) /\ Cardinality(T) <= Cardinality(S)
<1>1. f \in Surjection(S, T)
  BY DEF Surjection
<1> QED
  BY <1>1, FS_Surjection

\* There is always a pickup time that no session and no answer uses.
LEMMA FreshNow == Now \in Stamps /\ Now \notin StampsInUse
<1> DEFINE Asked == {v \in Workers : answer[v].kind \in {"picked", "held"}}
           A == {drain[w].session : w \in Workers}
           B == {answer[w].when : w \in Asked}
           f == [w \in Workers |-> drain[w].session]
           g == [w \in Asked |-> answer[w].when]
<1>1. IsFiniteSet(Workers) /\ Cardinality(Workers) \in Nat
  BY RemoteAssumption, FS_CardinalityType
<1>2. IsFiniteSet(A) /\ Cardinality(A) <= Cardinality(Workers)
  <2>1. f \in [Workers -> A] /\ \A t \in A : \E w \in Workers : f[w] = t
    OBVIOUS
  <2> HIDE DEF A, f
  <2> QED
    BY <1>1, <2>1, Values
<1>3. IsFiniteSet(Asked) /\ Cardinality(Asked) <= Cardinality(Workers)
  BY <1>1, FS_Subset
<1>4. IsFiniteSet(B) /\ Cardinality(B) <= Cardinality(Asked)
  <2>1. g \in [Asked -> B] /\ \A t \in B : \E w \in Asked : g[w] = t
    OBVIOUS
  <2> HIDE DEF Asked, B, g
  <2> QED
    BY <1>3, <2>1, Values
<1>5. IsFiniteSet({Current.when}) /\ Cardinality({Current.when}) = 1
  BY FS_Singleton
<1>6. /\ Cardinality(A) \in Nat /\ Cardinality(B) \in Nat /\ Cardinality(Asked) \in Nat
  BY <1>2, <1>3, <1>4, FS_CardinalityType
<1>7. StampsInUse = ({Current.when} \union A) \union B
  BY DEF StampsInUse
<1> HIDE DEF A, B, Asked
<1>8. IsFiniteSet({Current.when} \union A)
      /\ Cardinality({Current.when} \union A) <= 1 + Cardinality(A)
  <2>1. IsFiniteSet({Current.when} \cap A)
    BY <1>2, FS_Subset
  <2>2. Cardinality({Current.when} \cap A) \in Nat
    BY <2>1, FS_CardinalityType
  <2>3. /\ IsFiniteSet({Current.when} \union A)
        /\ Cardinality({Current.when} \union A) =
             Cardinality({Current.when}) + Cardinality(A) - Cardinality({Current.when} \cap A)
    BY <1>2, <1>5, FS_Union
  <2> QED
    BY <1>5, <1>6, <2>2, <2>3
<1>9. IsFiniteSet(StampsInUse) /\ Cardinality(StampsInUse) <= 1 + 2 * Cardinality(Workers)
  <2>0. IsFiniteSet(({Current.when} \union A) \cap B)
    BY <1>8, FS_Subset
  <2>1. Cardinality(({Current.when} \union A) \cap B) \in Nat
    BY <2>0, FS_CardinalityType
  <2>2. Cardinality({Current.when} \union A) \in Nat
    BY <1>8, FS_CardinalityType
  <2>3. /\ IsFiniteSet(({Current.when} \union A) \union B)
        /\ Cardinality(({Current.when} \union A) \union B) =
             Cardinality({Current.when} \union A) + Cardinality(B)
               - Cardinality(({Current.when} \union A) \cap B)
    BY <1>4, <1>8, FS_Union
  <2> QED
    BY <1>1, <1>2, <1>3, <1>4, <1>6, <1>7, <1>8, <2>1, <2>2, <2>3
<1>10. Cardinality(Stamps) = 2 * Cardinality(Workers) + 2
  BY <1>1, FS_Interval DEF Stamps
<1>11. Stamps \ StampsInUse # {}
  <2> SUFFICES ASSUME Stamps \subseteq StampsInUse PROVE FALSE
    OBVIOUS
  <2>1. Cardinality(Stamps) <= Cardinality(StampsInUse)
    BY <1>9, FS_Subset
  <2>2. Cardinality(StampsInUse) \in Nat
    BY <1>9, FS_CardinalityType
  <2> QED
    BY <1>1, <1>9, <1>10, <2>1, <2>2
<1>12. Stamps \ StampsInUse \in SUBSET Nat
  BY <1>1 DEF Stamps
<1> QED
  BY <1>11, <1>12, MinOfNaturals DEF Now

-----------------------------------------------------------------------------
(* The invariant of one drain.                                             *)

Row == Statuses \union {"absent"}

Drains == [pc : {"idle", "dead"} \union Calls, known : BOOLEAN, session : Stamps \union {NoStamp},
           page : [Rows -> Row], cursor : Nat, attempt : Nat, blocked : BOOLEAN,
           progress : BOOLEAN, done : [Rows -> {0, 1}]]

\* Where a drain has no session yet, may read on, is at a row, commits it.
Resting    == {"idle", "picking", "dead"}
Ending     == {"returning", "releasing"}
Working    == Calls \ ({"picking"} \union Ending)
AtRow      == {"checking", "removing", "fencing", "finding", "writing"}
Committing == {"fencing", "finding", "writing"}

\* A row that was dispatched has left the inbox's pending rows, or its target
\* is blocked for the rest of the drain.
Handled(d, r) == d.done[r] = 1 => d.blocked \/ messages[r] # "TO_DELIVER"

Later(d, r) == r > d.cursor /\ d.page[r] = "TO_DELIVER" /\ d.done[r] = 1 => d.blocked

\* The drain d has a session and knows only what was received.
Informed(d) ==
  /\ d \in Drains /\ d.session \in Stamps
  /\ \A r \in Rows : d.page[r] = "TO_DELIVER" \/ d.done[r] = 1 => r \in received

\* The drain d may look for its next row, or clean up, or end the page.
ReadyForNext(d)  == Informed(d) /\ \A r \in Rows : Handled(d, r) /\ Later(d, r)
ReadyToClean(d)  == Informed(d) /\ \A r \in Rows : Handled(d, r)

DrainInv(d) ==
  /\ d \in Drains
  /\ d.pc \in Resting => d.session = NoStamp /\ d.done = NoCounts
  /\ d.pc \notin Resting => Informed(d)
  /\ d.pc \in AtRow \union {"expunging"} => d.cursor \in Rows
  /\ d.pc \in Working =>
       \A r \in Rows : (d.pc \in Committing => r # d.cursor) => Handled(d, r)
  /\ d.pc \in AtRow => \A r \in Rows : Later(d, r)
  /\ d.pc = "checking" => d.page[d.cursor] = "TO_DELIVER" /\ d.done[d.cursor] = 0
  /\ d.pc \in Committing => d.cursor \in received

\* What a step of a drain may make of its session and of its dispatches.
Keeps(d, e) ==
  \/ e.session = NoStamp /\ e.done = NoCounts
  \/ e.session = d.session /\ e.done = d.done

LEMMA RowsAreNumbers == Rows \in SUBSET Nat /\ IsFiniteSet(Rows) /\ Cardinality(Rows) \in Nat
<1>1. IsFiniteSet(Rows) /\ Cardinality(Rows) \in Nat
  BY StateAssumption, FS_CardinalityType
<1>2. Rows = 1 .. Cardinality(Rows)
  BY RemoteAssumption
<1>3. 1 .. Cardinality(Rows) \in SUBSET Nat
  BY <1>1
<1> QED
  BY <1>1, <1>2, <1>3

LEMMA IdleDrainInv ==
  /\ DrainInv(IdleDrain) /\ IdleDrain \in Drains
  /\ IdleDrain.session = NoStamp /\ IdleDrain.done = NoCounts
<1>1. /\ IdleDrain \in Drains /\ IdleDrain.pc = "idle"
      /\ IdleDrain.session = NoStamp /\ IdleDrain.done = NoCounts
  BY DEF IdleDrain, Drains, NoRows, NoCounts, Row, Statuses
<1> QED
  BY <1>1 DEF DrainInv, Resting, AtRow, Working, Calls, Picks, Removes, Releases, Committing

LEMMA RestingInv ==
  ASSUME NEW pc \in Resting
  PROVE  DrainInv([IdleDrain EXCEPT !.pc = pc])
<1> DEFINE e == [IdleDrain EXCEPT !.pc = pc]
<1>1. e \in Drains /\ e.pc = pc /\ e.session = NoStamp /\ e.done = NoCounts
  BY IdleDrainInv DEF Drains, Resting, Calls, Picks
<1> HIDE DEF e
<1>2. DrainInv(e)
  BY <1>1 DEF DrainInv, Resting, AtRow, Working, Calls, Picks, Removes, Releases, Committing
<1> QED
  BY <1>2 DEF e

LEMMA FinishKeeps ==
  ASSUME NEW d, Informed(d)
  PROVE  DrainInv(Finish(d)) /\ Keeps(d, Finish(d))
<1>1. CASE d.known
  <2> DEFINE e == [d EXCEPT !.pc = "releasing", !.known = FALSE]
  <2>1. e \in Drains /\ e.pc = "releasing" /\ e.session = d.session /\ e.page = d.page
        /\ e.done = d.done
    BY DEF Informed, Drains, Calls, Releases
  <2>2. Finish(d) = e
    BY <1>1 DEF Finish
  <2>3. Informed(e)
    BY <2>1 DEF Informed
  <2> HIDE DEF e
  <2> QED
    BY <2>1, <2>2, <2>3 DEF DrainInv, Keeps, Resting, AtRow, Working, Committing, Ending
<1>2. CASE ~ d.known
  BY <1>2, IdleDrainInv DEF Finish, Keeps
<1> QED
  BY <1>1, <1>2

LEMMA EndPageKeeps ==
  ASSUME NEW d, ReadyToClean(d)
  PROVE  DrainInv(EndPage(d)) /\ Keeps(d, EndPage(d))
<1>1. CASE d.progress
  <2> DEFINE e == [d EXCEPT !.pc = "reading", !.progress = FALSE, !.page = NoRows, !.cursor = 0]
  <2>1. e \in Drains /\ e.pc = "reading" /\ e.session = d.session /\ e.page = NoRows
        /\ e.done = d.done /\ e.blocked = d.blocked
    BY DEF ReadyToClean, Informed, Drains, Calls, NoRows, Row
  <2>2. EndPage(d) = e
    BY <1>1 DEF EndPage
  <2>3. Informed(e)
    BY <2>1 DEF ReadyToClean, Informed, NoRows
  <2>4. \A r \in Rows : Handled(e, r)
    BY <2>1 DEF ReadyToClean, Handled
  <2> HIDE DEF e
  <2> QED
    BY <2>1, <2>2, <2>3, <2>4 DEF DrainInv, Keeps, Resting, AtRow, Working, Committing, Ending
<1>2. CASE ~ d.progress
  BY <1>2, FinishKeeps DEF EndPage, ReadyToClean
<1> QED
  BY <1>1, <1>2

\* The cleanup of a page stands at an expired row, or behind the page.
LEMMA GuardingKeeps ==
  ASSUME NEW d, ReadyToClean(d), NEW n \in Nat
  PROVE  LET e == Validate([d EXCEPT !.cursor = n], "guarding") IN
         DrainInv(e) /\ Keeps(d, e)
<1> DEFINE e == [[d EXCEPT !.cursor = n] EXCEPT !.pc = "guarding"]
<1>1. CASE d.known
  <2>1. e \in Drains /\ e.pc = "guarding" /\ e.session = d.session /\ e.page = d.page
        /\ e.done = d.done /\ e.blocked = d.blocked
    BY DEF ReadyToClean, Informed, Drains, Calls, Picks
  <2>2. Validate([d EXCEPT !.cursor = n], "guarding") = e
    BY <1>1 DEF Validate, ReadyToClean, Informed, Drains
  <2>3. Informed(e)
    BY <2>1 DEF ReadyToClean, Informed
  <2>4. \A r \in Rows : Handled(e, r)
    BY <2>1 DEF ReadyToClean, Handled
  <2> HIDE DEF e
  <2> QED
    BY <2>1, <2>2, <2>3, <2>4 DEF DrainInv, Keeps, Resting, AtRow, Working, Committing, Ending
<1>2. CASE ~ d.known
  <2>1. Validate([d EXCEPT !.cursor = n], "guarding") = IdleDrain
    BY <1>2 DEF Validate, ReadyToClean, Informed, Drains
  <2> QED
    BY <2>1, IdleDrainInv DEF Keeps
<1> QED
  BY <1>1, <1>2

LEMMA CleanupPageKeeps ==
  ASSUME NEW d, ReadyToClean(d)
  PROVE  DrainInv(CleanupPage(d)) /\ Keeps(d, CleanupPage(d))
<1> DEFINE e == [d EXCEPT !.cursor = 0]
           S == ExpiredRows(e) \union {Cardinality(Rows) + 1}
<1>1. S \in SUBSET Nat /\ S # {}
  BY RowsAreNumbers DEF ExpiredRows
<1>2. Min(S) \in Nat
  BY <1>1, MinOfNaturals
<1>3. [e EXCEPT !.cursor = Min(S)] = [d EXCEPT !.cursor = Min(S)]
  BY DEF ReadyToClean, Informed, Drains
<1>4. CleanupPage(d) = Validate([e EXCEPT !.cursor = Min(S)], "guarding")
  BY DEF CleanupPage
<1> HIDE DEF S, e
<1> QED
  BY <1>2, <1>3, <1>4, GuardingKeeps

LEMMA NextRowKeeps ==
  ASSUME NEW d, ReadyForNext(d)
  PROVE  DrainInv(NextRow(d)) /\ Keeps(d, NextRow(d))
<1>1. CASE ToProcess(d) = {}
  BY <1>1, CleanupPageKeeps DEF NextRow, ReadyForNext, ReadyToClean
<1>2. CASE ToProcess(d) # {}
  <2> DEFINE n == Min(ToProcess(d))
             e == [[d EXCEPT !.cursor = n] EXCEPT !.pc = "checking"]
  <2>1. n \in ToProcess(d)
    BY <1>2, RowsAreNumbers, MinOfNaturals DEF ToProcess
  <2>2. n \in Rows /\ n \in Nat /\ n > d.cursor /\ d.page[n] = "TO_DELIVER" /\ ~ d.blocked
    BY <2>1, RowsAreNumbers DEF ToProcess
  <2>3. NextRow(d) = Validate([d EXCEPT !.cursor = n], "checking")
    BY <1>2 DEF NextRow
  <2> HIDE DEF n
  <2>4. CASE d.known
    <3>1. /\ e \in Drains /\ e.pc = "checking" /\ e.session = d.session /\ e.page = d.page
          /\ e.done = d.done /\ e.blocked = d.blocked /\ e.cursor = n
      BY <2>2 DEF ReadyForNext, Informed, Drains, Calls, Picks
    <3>2. NextRow(d) = e
      BY <2>3, <2>4 DEF Validate, ReadyForNext, Informed, Drains
    <3>3. Informed(e)
      BY <3>1 DEF ReadyForNext, Informed
    <3>4. \A r \in Rows : Handled(e, r)
      BY <3>1 DEF ReadyForNext, Handled
    <3>5. \A r \in Rows : Later(e, r)
      <4> SUFFICES ASSUME NEW r \in Rows PROVE Later(e, r)
        OBVIOUS
      <4>1. Later(d, r)
        BY DEF ReadyForNext
      <4>2. r \in Nat /\ d.cursor \in Nat
        BY RowsAreNumbers DEF ReadyForNext, Informed, Drains
      <4> QED
        BY <2>2, <3>1, <4>1, <4>2 DEF Later
    <3>6. d.done[n] = 0
      BY <2>2 DEF ReadyForNext, Later, Informed, Drains
    <3> HIDE DEF e
    <3> QED
      BY <2>2, <3>1, <3>2, <3>3, <3>4, <3>5, <3>6
      DEF DrainInv, Keeps, Resting, AtRow, Working, Committing, Ending
  <2>5. CASE ~ d.known
    <3>1. NextRow(d) = IdleDrain
      BY <2>3, <2>5 DEF Validate, ReadyForNext, Informed, Drains
    <3> QED
      BY <3>1, IdleDrainInv DEF Keeps
  <2> QED
    BY <2>4, <2>5
<1> QED
  BY <1>1, <1>2

\* A drain that was told it has lost its session.
LEMMA LostKeeps ==
  ASSUME NEW d, Informed(d), NEW a, a.kind \in {"picked", "held", "error"}
  PROVE  DrainInv(Lost(a, d)) /\ Keeps(d, Lost(a, d))
<1>1. CASE a.kind = "picked"
  <2> DEFINE e == [d EXCEPT !.pc = "returning"]
  <2>1. e \in Drains /\ e.pc = "returning" /\ e.session = d.session /\ e.page = d.page
        /\ e.done = d.done
    BY DEF Informed, Drains, Calls, Releases
  <2>2. Lost(a, d) = e
    BY <1>1 DEF Lost
  <2>3. Informed(e)
    BY <2>1 DEF Informed
  <2> HIDE DEF e
  <2> QED
    BY <2>1, <2>2, <2>3 DEF DrainInv, Keeps, Resting, AtRow, Working, Committing, Ending
<1>2. CASE a.kind = "held"
  BY <1>2, IdleDrainInv DEF Lost, Keeps
<1>3. CASE a.kind = "error"
  BY <1>3, FinishKeeps DEF Lost
<1> QED
  BY <1>1, <1>2, <1>3

\* A drain at a row it has dispatched, whose acknowledgement has failed.
AtCommitted(d) ==
  /\ Informed(d) /\ d.pc \in Committing /\ d.cursor \in Rows /\ d.cursor \in received
  /\ \A r \in Rows : (r # d.cursor => Handled(d, r)) /\ Later(d, r)

LEMMA AcknowledgeAgainKeeps ==
  ASSUME NEW d, AtCommitted(d)
  PROVE  DrainInv(AcknowledgeAgain(d)) /\ Keeps(d, AcknowledgeAgain(d))
<1>1. CASE d.attempt + 1 < MaxAttempts
  <2> DEFINE f == [d EXCEPT !.attempt = @ + 1]
             e == [f EXCEPT !.pc = "fencing"]
  <2>0. /\ f \in Drains /\ f.session = d.session /\ f.page = d.page /\ f.known = d.known
        /\ f.done = d.done /\ f.blocked = d.blocked /\ f.cursor = d.cursor
    BY DEF AtCommitted, Informed, Drains
  <2>00. AcknowledgeAgain(d) = Validate(f, "fencing")
    BY <1>1 DEF AcknowledgeAgain
  <2> HIDE DEF f
  <2>1. CASE d.known
    <3>1. /\ e \in Drains /\ e.pc = "fencing" /\ e.session = d.session /\ e.page = d.page
          /\ e.done = d.done /\ e.blocked = d.blocked /\ e.cursor = d.cursor
      BY <2>0 DEF Drains, Calls, Picks
    <3>2. AcknowledgeAgain(d) = e
      BY <2>0, <2>00, <2>1 DEF Validate
    <3>3. Informed(e)
      BY <3>1 DEF AtCommitted, Informed
    <3>4. \A r \in Rows : (r # e.cursor => Handled(e, r)) /\ Later(e, r)
      BY <3>1 DEF AtCommitted, Handled, Later
    <3> HIDE DEF e
    <3> QED
      BY <3>1, <3>2, <3>3, <3>4
      DEF AtCommitted, DrainInv, Keeps, Resting, AtRow, Working, Committing, Ending
  <2>2. CASE ~ d.known
    <3>1. AcknowledgeAgain(d) = IdleDrain
      BY <2>0, <2>00, <2>2 DEF Validate
    <3> QED
      BY <3>1, IdleDrainInv DEF Keeps
  <2> QED
    BY <2>1, <2>2
<1>2. CASE ~ (d.attempt + 1 < MaxAttempts)
  <2> DEFINE e == [d EXCEPT !.attempt = 0, !.blocked = TRUE]
  <2>1. /\ e \in Drains /\ e.session = d.session /\ e.page = d.page
        /\ e.done = d.done /\ e.blocked = TRUE
    BY DEF AtCommitted, Informed, Drains
  <2>2. ReadyForNext(e)
    BY <2>1 DEF AtCommitted, ReadyForNext, Informed, Handled, Later
  <2>3. AcknowledgeAgain(d) = NextRow(e)
    BY <1>2 DEF AcknowledgeAgain
  <2> HIDE DEF e
  <2> QED
    BY <2>1, <2>2, <2>3, NextRowKeeps DEF Keeps
<1> QED
  BY <1>1, <1>2

LEMMA AcknowledgedKeeps ==
  ASSUME NEW d, AtCommitted(d), messages[d.cursor] # "TO_DELIVER"
  PROVE  DrainInv(Acknowledged(d)) /\ Keeps(d, Acknowledged(d))
<1> DEFINE e == [d EXCEPT !.attempt = 0, !.progress = TRUE]
<1>1. /\ e \in Drains /\ e.session = d.session /\ e.page = d.page /\ e.cursor = d.cursor
      /\ e.done = d.done /\ e.blocked = d.blocked
  BY DEF AtCommitted, Informed, Drains
<1>2. ReadyForNext(e)
  BY <1>1 DEF AtCommitted, ReadyForNext, Informed, Handled, Later
<1>3. Acknowledged(d) = NextRow(e)
  BY DEF Acknowledged
<1> HIDE DEF e
<1> QED
  BY <1>1, <1>2, <1>3, NextRowKeeps DEF Keeps

-----------------------------------------------------------------------------
(* The inductive invariant.                                                *)

SessionsTyped ==
  /\ DOMAIN shards \subseteq Shards
  /\ \A s \in DOMAIN shards : shards[s] \in [worker : Workers \union {Nobody}, when : Stamps]

Unanswered(a) == a = NoAnswer \/ a = Failed

SessionAnswer(a) ==
  /\ a.kind \in {"picked", "held"}
  /\ a.kind = "picked" => a.when \in Stamps

PageAnswer(d, a) ==
  /\ a.kind = "page" /\ a.rows \in [Rows -> Row]
  /\ \A r \in Rows : a.rows[r] = "TO_DELIVER" =>
       r \in received /\ (d.done[r] = 1 => d.blocked)

\* What the answer a can be that the drain d waits for or has.
AnswerInv(d, a) ==
  Unanswered(a) \/
  /\ d.pc \in Picks => SessionAnswer(a)
  /\ d.pc = "reading" => PageAnswer(d, a)
  /\ d.pc = "finding" => a.kind = "row" /\ a.status \in Row
  /\ d.pc = "finding" /\ a.status = "DELIVERED" => messages[d.cursor] # "TO_DELIVER"
  /\ d.pc = "writing" => messages[d.cursor] # "TO_DELIVER"

RowsInv ==
  /\ messages \in [Rows -> Row]
  /\ \A r \in Rows : messages[r] = "TO_DELIVER" => r \in received

DrainsInv ==
  /\ DOMAIN drain = Workers /\ DOMAIN answer = Workers
  /\ \A w \in Workers : DrainInv(drain[w]) /\ AnswerInv(drain[w], answer[w])

RemoteInv ==
  /\ SessionsTyped /\ RowsInv /\ DrainsInv
  /\ late \subseteq [op : Calls, worker : Workers, row : Nat]

\* A received row never becomes pending again.
Monotone ==
  /\ received \subseteq received'
  /\ \A r \in Rows : messages'[r] = "TO_DELIVER" /\ r \in received => messages[r] = "TO_DELIVER"

LEMMA DrainStable ==
  ASSUME NEW w \in Workers, DrainInv(drain[w]), Monotone, drain'[w] = drain[w]
  PROVE  DrainInv(drain[w])'
<1> DEFINE d == drain[w]
<1>1. \A r \in Rows : d.done[r] = 1 => r \in received
  BY DEF DrainInv, Informed, Resting, NoCounts
<1>2. \A r \in Rows : Handled(d, r) => Handled(d, r)'
  BY <1>1 DEF Handled, Monotone
<1>3. \A r \in Rows : Later(d, r) => Later(d, r)'
  BY DEF Later
<1>4. Informed(d) => Informed(d)'
  BY DEF Informed, Monotone
<1> QED
  BY <1>2, <1>3, <1>4 DEF DrainInv, Monotone

LEMMA AnswerStable ==
  ASSUME NEW w \in Workers, DrainInv(drain[w]), AnswerInv(drain[w], answer[w]), Monotone,
         drain'[w] = drain[w], answer'[w] = answer[w]
  PROVE  AnswerInv(drain[w], answer[w])'
<1> DEFINE d == drain[w]
<1>1. d.pc \in Committing => d.cursor \in received /\ d.cursor \in Rows
  BY DEF DrainInv, Committing, AtRow
<1>2. PageAnswer(d, answer[w]) => PageAnswer(d, answer[w])'
  BY DEF PageAnswer, Monotone
<1> QED
  BY <1>1, <1>2 DEF AnswerInv, Monotone, Committing

\* A step of the drain of w alone.
LEMMA ContinueInv ==
  ASSUME RemoteInv, NEW w \in Workers, NEW e, Continue(w, e), DrainInv(e)
  PROVE  RemoteInv'
<1>1. Monotone
  BY DEF Continue, Monotone, stateVars
<1>2. SessionsTyped' /\ RowsInv' /\ late' \subseteq [op : Calls, worker : Workers, row : Nat]
  BY DEF Continue, RemoteInv, SessionsTyped, RowsInv, stateVars
<1>3. DOMAIN drain' = Workers /\ DOMAIN answer' = Workers
  BY DEF Continue, RemoteInv, DrainsInv
<1>4. drain'[w] = e /\ answer'[w] = NoAnswer
  BY DEF Continue, RemoteInv, DrainsInv
<1>5. DrainInv(drain[w])'
  BY <1>4 DEF DrainInv, Informed, Handled, Later, Continue, stateVars
<1>6. AnswerInv(drain[w], answer[w])'
  BY <1>4 DEF AnswerInv, Unanswered
<1>7. ASSUME NEW v \in Workers, v # w
      PROVE  (DrainInv(drain[v]) /\ AnswerInv(drain[v], answer[v]))'
  <2>1. drain'[v] = drain[v] /\ answer'[v] = answer[v]
    BY <1>7 DEF Continue, RemoteInv, DrainsInv
  <2> QED
    BY <1>1, <2>1, DrainStable, AnswerStable DEF RemoteInv, DrainsInv
<1> QED
  BY <1>2, <1>3, <1>5, <1>6, <1>7 DEF RemoteInv, DrainsInv

-----------------------------------------------------------------------------
(* Steps of ShardOwnership.                                                *)

Owner     == <<Current.worker, Current.when>>
Session   == [w \in Workers |-> drain[w].session]
Confirmed == [w \in Workers |-> Confirming(w)]
DoneBy    == [w \in Workers |-> drain[w].done]

Refines == [Ownership!OwnershipNext]_(Ownership!ownershipVars)

LEMMA RefinesIfKept ==
  ASSUME Owner' = Owner, Session' = Session, Confirmed' = Confirmed, DoneBy' = DoneBy
  PROVE  Refines
BY DEF Refines, Ownership!ownershipVars, Owner, Session, Confirmed, DoneBy

LEMMA RefinesIfLeft ==
  ASSUME NEW w \in Workers, Owner' = Owner,
         Session' = [Session EXCEPT ![w] = NoStamp],
         Confirmed' = [Confirmed EXCEPT ![w] = FALSE],
         DoneBy' = [DoneBy EXCEPT ![w] = NoCounts]
  PROVE  Refines
<1>1. Ownership!Leave(w)
  BY DEF Ownership!Leave, Ownership!Nothing, NoCounts, Owner, Session, Confirmed, DoneBy
<1> QED
  BY <1>1 DEF Refines, Ownership!OwnershipNext

LEMMA RefinesIfForgotten ==
  ASSUME NEW w \in Workers, Owner' = Owner, Session' = Session,
         Confirmed' = [Confirmed EXCEPT ![w] = FALSE], DoneBy' = DoneBy
  PROVE  Refines
<1>1. Ownership!Forget(w)
  BY DEF Ownership!Forget, Owner, Session, Confirmed, DoneBy
<1> QED
  BY <1>1 DEF Refines, Ownership!OwnershipNext

LEMMA RefinesIfConfirmed ==
  ASSUME NEW w \in Workers, Owner' = Owner, Session' = Session, DoneBy' = DoneBy,
         Session[w] # NoStamp, Owner = <<w, Session[w]>>,
         Confirmed' = [Confirmed EXCEPT ![w] = TRUE]
  PROVE  Refines
<1>1. Ownership!Confirm(w)
  BY DEF Ownership!Confirm, Owner, Session, Confirmed, DoneBy
<1> QED
  BY <1>1 DEF Refines, Ownership!OwnershipNext

LEMMA RefinesIfHeld ==
  ASSUME NEW w \in Workers, NEW t \in Stamps, Owner' = Owner, Session[w] = NoStamp,
         Session' = [Session EXCEPT ![w] = t], Confirmed' = Confirmed, DoneBy' = DoneBy
  PROVE  Refines
<1>1. Ownership!Hold(w, t)
  BY DEF Ownership!Hold, Owner, Session, Confirmed, DoneBy
<1> QED
  BY <1>1 DEF Refines, Ownership!OwnershipNext

LEMMA RefinesIfDispatched ==
  ASSUME NEW w \in Workers, NEW r \in Rows, Owner' = Owner, Session' = Session,
         Confirmed[w], DoneBy[w][r] = 0,
         DoneBy' = [DoneBy EXCEPT ![w][r] = 1],
         Confirmed' = [Confirmed EXCEPT ![w] = FALSE]
  PROVE  Refines
<1>1. Ownership!Dispatch(w, r)
  BY DEF Ownership!Dispatch, Owner, Session, Confirmed, DoneBy
<1> QED
  BY <1>1 DEF Refines, Ownership!OwnershipNext

LEMMA RefinesIfGranted ==
  ASSUME NEW w \in Workers, NEW t \in Stamps, \A v \in Workers : Session[v] # t,
         Owner' = <<w, t>>, Session' = Session, Confirmed' = Confirmed, DoneBy' = DoneBy
  PROVE  Refines
<1>1. Ownership!Grant(w, t)
  BY DEF Ownership!Grant, Owner, Session, Confirmed, DoneBy
<1> QED
  BY <1>1 DEF Refines, Ownership!OwnershipNext

LEMMA RefinesIfEnded ==
  ASSUME Owner' = <<Nobody, NoStamp>>,
         Session' = Session, Confirmed' = Confirmed, DoneBy' = DoneBy
  PROVE  Refines
<1>1. Ownership!End
  BY DEF Ownership!End, Ownership!Free, Owner, Session, Confirmed, DoneBy
<1> QED
  BY <1>1 DEF Refines, Ownership!OwnershipNext

-----------------------------------------------------------------------------
(* Steps of one drain.                                                     *)

\* What Continue(w, e) changes.
LEMMA ContinueEffect ==
  ASSUME RemoteInv, NEW w \in Workers, NEW e, Continue(w, e)
  PROVE  /\ Owner' = Owner
         /\ Session' = [Session EXCEPT ![w] = e.session]
         /\ DoneBy' = [DoneBy EXCEPT ![w] = e.done]
         /\ Confirmed' = [Confirmed EXCEPT ![w] = FALSE]
<1>1. Current' = Current
  BY DEF Continue, stateVars, Current, Picked
<1>2. /\ drain'[w] = e /\ answer'[w] = NoAnswer
      /\ \A v \in Workers \ {w} : drain'[v] = drain[v] /\ answer'[v] = answer[v]
  BY DEF Continue, RemoteInv, DrainsInv
<1>3. Confirming(w)' = FALSE
  BY <1>2 DEF Confirming, Owns, NoAnswer
<1>4. \A v \in Workers \ {w} : Confirming(v)' = Confirming(v)
  BY <1>2 DEF Confirming, Owns
<1>5. Session' = [Session EXCEPT ![w] = e.session] /\ DoneBy' = [DoneBy EXCEPT ![w] = e.done]
  BY <1>2 DEF Session, DoneBy
<1>6. Confirmed' = [Confirmed EXCEPT ![w] = FALSE]
  BY <1>3, <1>4 DEF Confirmed
<1> QED
  BY <1>1, <1>5, <1>6 DEF Owner

\* A step that dispatches nothing, and starts to work under no session.
LEMMA ContinueKeeps ==
  ASSUME RemoteInv, NEW w \in Workers, NEW e, Continue(w, e), DrainInv(e), Keeps(drain[w], e)
  PROVE  RemoteInv' /\ Refines
<1>1. RemoteInv'
  BY ContinueInv
<1>2. /\ Owner' = Owner
      /\ Session' = [Session EXCEPT ![w] = e.session]
      /\ DoneBy' = [DoneBy EXCEPT ![w] = e.done]
      /\ Confirmed' = [Confirmed EXCEPT ![w] = FALSE]
  BY ContinueEffect
<1>3. CASE e.session = NoStamp /\ e.done = NoCounts
  <2>1. /\ Owner' = Owner
        /\ Session' = [Session EXCEPT ![w] = NoStamp]
        /\ Confirmed' = [Confirmed EXCEPT ![w] = FALSE]
        /\ DoneBy' = [DoneBy EXCEPT ![w] = NoCounts]
    BY <1>2, <1>3
  <2> QED
    BY <1>1, <2>1, RefinesIfLeft
<1>4. CASE e.session = drain[w].session /\ e.done = drain[w].done
  <2>1. e.session = Session[w] /\ e.done = DoneBy[w]
    BY <1>4 DEF Session, DoneBy
  <2>2. Session' = Session
    <3>1. Session' = [Session EXCEPT ![w] = Session[w]]
      BY <1>2, <2>1
    <3>2. [Session EXCEPT ![w] = Session[w]] = Session
      BY DEF Session
    <3> QED
      BY <3>1, <3>2
  <2>3. DoneBy' = DoneBy
    <3>1. DoneBy' = [DoneBy EXCEPT ![w] = DoneBy[w]]
      BY <1>2, <2>1
    <3>2. [DoneBy EXCEPT ![w] = DoneBy[w]] = DoneBy
      BY DEF DoneBy
    <3> QED
      BY <3>1, <3>2
  <2>4. Owner' = Owner /\ Confirmed' = [Confirmed EXCEPT ![w] = FALSE]
    BY <1>2
  <2> QED
    BY <1>1, <2>2, <2>3, <2>4, RefinesIfForgotten
<1> QED
  BY <1>1, <1>3, <1>4 DEF Keeps

LEMMA BeginStep ==
  ASSUME RemoteInv, NEW w \in Workers, Begin(w)
  PROVE  RemoteInv' /\ Refines
<1> DEFINE e == [IdleDrain EXCEPT !.pc = "picking"]
<1>1. DrainInv(e)
  BY RestingInv DEF Resting
<1>2. e.session = NoStamp /\ e.done = NoCounts
  BY IdleDrainInv DEF Drains
<1>3. Continue(w, e)
  BY DEF Begin
<1> HIDE DEF e
<1> QED
  BY <1>1, <1>2, <1>3, ContinueKeeps DEF Keeps

LEMMA PickedUpStep ==
  ASSUME RemoteInv, NEW w \in Workers, PickedUp(w)
  PROVE  RemoteInv' /\ Refines
<1>0. drain[w].pc = "picking" /\ answer[w] # NoAnswer
  BY DEF PickedUp, Answered
<1>1. drain[w].session = NoStamp /\ drain[w].done = NoCounts
  BY <1>0 DEF RemoteInv, DrainsInv, DrainInv, Resting
<1>2. CASE answer[w].kind = "picked"
  <2> DEFINE t == answer[w].when
             e == [IdleDrain EXCEPT !.pc = "reading", !.known = TRUE, !.session = t]
  <2>1. t \in Stamps
    BY <1>0, <1>2 DEF RemoteInv, DrainsInv, AnswerInv, Unanswered, NoAnswer, Failed, SessionAnswer, Picks
  <2>2. Continue(w, e)
    BY <1>2 DEF PickedUp
  <2> HIDE DEF t
  <2>3. /\ e \in Drains /\ e.pc = "reading" /\ e.session = t /\ e.done = NoCounts
        /\ e.page = NoRows
    <3>1. IdleDrain.page = NoRows /\ IdleDrain.done = NoCounts
      BY DEF IdleDrain
    <3> QED
      BY <2>1, <3>1, IdleDrainInv DEF Drains, Calls
  <2>4. Informed(e) /\ \A r \in Rows : Handled(e, r)
    BY <2>1, <2>3 DEF Informed, Handled, NoCounts, NoRows
  <2> HIDE DEF e
  <2>5. DrainInv(e)
    BY <2>3, <2>4 DEF DrainInv, Resting, AtRow, Working, Calls, Ending, Picks, Releases, Committing
  <2>6. RemoteInv'
    BY <2>2, <2>5, ContinueInv
  <2>7. Session[w] = NoStamp /\ DoneBy[w] = NoCounts /\ ~ Confirmed[w]
    BY <1>0, <1>1 DEF Session, DoneBy, Confirmed, Confirming
  <2>8. Session' = [Session EXCEPT ![w] = t] /\ DoneBy' = DoneBy /\ Confirmed' = Confirmed
    <3>1. DoneBy' = [DoneBy EXCEPT ![w] = DoneBy[w]]
      BY <2>2, <2>3, <2>7, ContinueEffect
    <3>2. Confirmed' = [Confirmed EXCEPT ![w] = Confirmed[w]]
      <4>1. Confirmed[w] = FALSE
        BY <2>7 DEF Confirmed, Confirming, Owns
      <4> QED
        BY <2>2, <4>1, ContinueEffect
    <3>3. Session' = [Session EXCEPT ![w] = t]
      BY <2>2, <2>3, ContinueEffect
    <3> QED
      BY <3>1, <3>2, <3>3 DEF DoneBy, Confirmed
  <2>9. Owner' = Owner
    BY <2>2, ContinueEffect
  <2> QED
    BY <2>1, <2>6, <2>7, <2>8, <2>9, RefinesIfHeld
<1>3. CASE answer[w].kind # "picked"
  <2>1. Continue(w, IdleDrain)
    BY <1>3 DEF PickedUp
  <2> QED
    BY <2>1, IdleDrainInv, ContinueKeeps DEF Keeps
<1> QED
  BY <1>2, <1>3

LEMMA PageReadStep ==
  ASSUME RemoteInv, NEW w \in Workers, PageRead(w)
  PROVE  RemoteInv' /\ Refines
<1> DEFINE d == drain[w]
           a == answer[w]
<1>0. d.pc = "reading" /\ a # NoAnswer
  BY DEF PageRead, Answered
<1>1. DrainInv(d) /\ AnswerInv(d, a)
  BY DEF RemoteInv, DrainsInv
<1>2. Informed(d) /\ \A r \in Rows : Handled(d, r)
  BY <1>0, <1>1 DEF DrainInv, Resting, Working, Calls, Ending, Picks, Committing
<1>3. CASE a = Failed \/ a.rows = NoRows
  <2>1. Continue(w, Finish(d))
    BY <1>3 DEF PageRead
  <2> QED
    BY <1>2, <2>1, FinishKeeps, ContinueKeeps
<1>4. CASE a # Failed /\ a.rows # NoRows
  <2> DEFINE e == [d EXCEPT !.page = a.rows]
  <2>1. PageAnswer(d, a)
    BY <1>0, <1>1, <1>4 DEF AnswerInv, Unanswered
  <2>2. /\ e \in Drains /\ e.session = d.session /\ e.done = d.done /\ e.page = a.rows
        /\ e.blocked = d.blocked /\ e.cursor = d.cursor
    BY <1>2, <2>1 DEF Informed, Drains, PageAnswer
  <2>3. ReadyForNext(e)
    BY <1>2, <2>1, <2>2 DEF ReadyForNext, Informed, Handled, Later, PageAnswer
  <2>4. Continue(w, NextRow(e))
    BY <1>4 DEF PageRead
  <2> HIDE DEF e
  <2>5. Keeps(d, NextRow(e))
    BY <2>2, <2>3, NextRowKeeps DEF Keeps
  <2> QED
    BY <2>3, <2>4, <2>5, NextRowKeeps, ContinueKeeps
<1> QED
  BY <1>3, <1>4

\* What a drain waiting for an answer about its session knows, and receives.
LEMMA SessionAnswered ==
  ASSUME RemoteInv, NEW w \in Workers, drain[w].pc \in Picks \ {"picking"}, answer[w] # NoAnswer
  PROVE  Informed(drain[w]) /\ answer[w].kind \in {"picked", "held", "error"}
<1>1. DrainInv(drain[w]) /\ AnswerInv(drain[w], answer[w])
  BY DEF RemoteInv, DrainsInv
<1>2. Informed(drain[w])
  BY <1>1 DEF DrainInv, Resting, Picks
<1>3. answer[w].kind \in {"picked", "held", "error"}
  BY <1>1 DEF AnswerInv, Unanswered, Failed, SessionAnswer
<1> QED
  BY <1>2, <1>3

LEMMA CheckedStep ==
  ASSUME RemoteInv, NEW w \in Workers, Checked(w)
  PROVE  RemoteInv' /\ Refines
<1> DEFINE d == drain[w]
           a == answer[w]
<1>0. d.pc = "checking" /\ a # NoAnswer
  BY DEF Checked, Answered
<1>1. DrainInv(d)
  BY DEF RemoteInv, DrainsInv
<1>2. Informed(d) /\ a.kind \in {"picked", "held", "error"}
  BY <1>0, SessionAnswered DEF Picks
<1>3. /\ d.cursor \in Rows /\ d.cursor \in Nat /\ d.page[d.cursor] = "TO_DELIVER"
      /\ d.done[d.cursor] = 0 /\ d.done \in [Rows -> {0, 1}]
      /\ \A r \in Rows : Handled(d, r) /\ Later(d, r)
  BY <1>0, <1>1, RowsAreNumbers DEF DrainInv, AtRow, Working, Calls, Picks, Ending, Committing, Drains
<1>4. CASE ~ Owns(w, d, a)
  <2>1. Continue(w, Lost(a, d))
    BY <1>4 DEF Checked
  <2> QED
    BY <1>2, <2>1, LostKeeps, ContinueKeeps
<1>5. CASE Owns(w, d, a) /\ Duplicate(w, d)
  <2> DEFINE e == [d EXCEPT !.pc = "removing"]
  <2>1. Continue(w, e)
    BY <1>5 DEF Checked
  <2>2. /\ e \in Drains /\ e.pc = "removing" /\ e.session = d.session /\ e.page = d.page
        /\ e.done = d.done /\ e.blocked = d.blocked /\ e.cursor = d.cursor
    BY <1>2 DEF Informed, Drains, Calls, Removes
  <2>3. Informed(e) /\ \A r \in Rows : Handled(e, r) /\ Later(e, r)
    BY <1>2, <1>3, <2>2 DEF Informed, Handled, Later
  <2> HIDE DEF e
  <2>4. DrainInv(e) /\ Keeps(d, e)
    BY <1>3, <2>2, <2>3 DEF DrainInv, Keeps, Resting, AtRow, Working, Committing, Ending
  <2> QED
    BY <2>1, <2>4, ContinueKeeps
<1>6. CASE Owns(w, d, a) /\ ~ Duplicate(w, d)
  <2> DEFINE c == d.cursor
             f == [d EXCEPT !.done[c] = @ + 1]
             e == [f EXCEPT !.pc = "fencing"]
  <2>1. Continue(w, Validate(f, "fencing"))
    BY <1>6 DEF Checked
  <2>2. /\ f \in Drains /\ f.session = d.session /\ f.page = d.page /\ f.known = d.known
        /\ f.done = [d.done EXCEPT ![c] = 1] /\ f.blocked = d.blocked /\ f.cursor = c
    BY <1>2, <1>3 DEF Informed, Drains
  <2> HIDE DEF f
  <2>3. CASE ~ d.known
    <3>1. Continue(w, IdleDrain)
      BY <2>1, <2>2, <2>3 DEF Validate
    <3> QED
      BY <3>1, IdleDrainInv, ContinueKeeps DEF Keeps
  <2>4. CASE d.known
    <3>1. Continue(w, e)
      BY <2>1, <2>2, <2>4 DEF Validate
    <3>2. /\ e \in Drains /\ e.pc = "fencing" /\ e.session = d.session /\ e.page = d.page
          /\ e.done = [d.done EXCEPT ![c] = 1] /\ e.blocked = d.blocked /\ e.cursor = c
      BY <2>2 DEF Drains, Calls, Picks
    <3>3. c \in received
      BY <1>2, <1>3 DEF Informed
    <3> HIDE DEF e
    <3>4. Informed(e)
      <4>1. \A r \in Rows : e.page[r] = "TO_DELIVER" \/ e.done[r] = 1 => r \in received
        BY <1>2, <1>3, <3>2, <3>3 DEF Informed
      <4> QED
        BY <1>2, <3>2, <4>1 DEF Informed
    <3>5. \A r \in Rows : (r # c => Handled(e, r)) /\ Later(e, r)
      <4> SUFFICES ASSUME NEW r \in Rows PROVE (r # c => Handled(e, r)) /\ Later(e, r)
        OBVIOUS
      <4>1. Handled(d, r) /\ Later(d, r) /\ r \in Nat
        BY <1>3, RowsAreNumbers
      <4>2. r # c => e.done[r] = d.done[r]
        BY <1>3, <3>2
      <4> QED
        BY <1>3, <3>2, <4>1, <4>2 DEF Handled, Later
    <3>6. DrainInv(e)
      BY <1>3, <3>2, <3>3, <3>4, <3>5
      DEF DrainInv, Resting, AtRow, Working, Committing, Ending
    <3>7. RemoteInv'
      BY <3>1, <3>6, ContinueInv
    <3>8. Owner' = Owner /\ Confirmed' = [Confirmed EXCEPT ![w] = FALSE]
      BY <3>1, ContinueEffect
    <3>9. Session' = Session
      <4>1. Session' = [Session EXCEPT ![w] = Session[w]]
        <5>1. e.session = Session[w]
          BY <3>2 DEF Session
        <5> QED
          BY <3>1, <5>1, ContinueEffect
      <4> QED
        BY <4>1 DEF Session
    <3>10. DoneBy' = [DoneBy EXCEPT ![w][c] = 1] /\ DoneBy[w][c] = 0
      <4>1. DoneBy[w] = d.done
        BY DEF DoneBy
      <4>2. DoneBy' = [DoneBy EXCEPT ![w] = [DoneBy[w] EXCEPT ![c] = 1]]
        BY <3>1, <3>2, <4>1, ContinueEffect
      <4> QED
        BY <1>3, <4>1, <4>2
    <3>11. Confirmed[w]
      BY <1>0, <1>6 DEF Confirmed, Confirming, Picks
    <3> QED
      BY <1>3, <3>7, <3>8, <3>9, <3>10, <3>11, RefinesIfDispatched
  <2> QED
    BY <2>3, <2>4
<1> QED
  BY <1>4, <1>5, <1>6

LEMMA DuplicateRemovedStep ==
  ASSUME RemoteInv, NEW w \in Workers, DuplicateRemoved(w)
  PROVE  RemoteInv' /\ Refines
<1> DEFINE d == drain[w]
           e == [d EXCEPT !.blocked = @ \/ answer[w] = Failed]
<1>0. d.pc = "removing"
  BY DEF DuplicateRemoved, Answered
<1>1. DrainInv(d)
  BY DEF RemoteInv, DrainsInv
<1>2. Informed(d) /\ \A r \in Rows : Handled(d, r) /\ Later(d, r)
  BY <1>0, <1>1
  DEF DrainInv, Resting, AtRow, Working, Calls, Picks, Removes, Ending, Committing
<1>3. /\ e \in Drains /\ e.session = d.session /\ e.page = d.page /\ e.done = d.done
      /\ e.cursor = d.cursor /\ (d.blocked => e.blocked)
  BY <1>2 DEF Informed, Drains
<1>4. Continue(w, NextRow(e))
  BY DEF DuplicateRemoved
<1> HIDE DEF e
<1>5. ReadyForNext(e)
  BY <1>2, <1>3 DEF ReadyForNext, Informed, Handled, Later
<1>6. DrainInv(NextRow(e)) /\ Keeps(d, NextRow(e))
  BY <1>3, <1>5, NextRowKeeps DEF Keeps
<1> QED
  BY <1>4, <1>6, ContinueKeeps

\* A drain that commits its row.
LEMMA CommittingRow ==
  ASSUME RemoteInv, NEW w \in Workers, drain[w].pc \in Committing
  PROVE  AtCommitted(drain[w])
<1>1. DrainInv(drain[w])
  BY DEF RemoteInv, DrainsInv
<1> QED
  BY <1>1
  DEF AtCommitted, DrainInv, Resting, AtRow, Working, Calls, Picks, Ending, Committing, Releases

LEMMA CommittingKeeps ==
  ASSUME NEW d, AtCommitted(d), NEW pc \in Committing
  PROVE  LET e == [d EXCEPT !.pc = pc] IN DrainInv(e) /\ Keeps(d, e)
<1> DEFINE e == [d EXCEPT !.pc = pc]
<1>1. /\ e \in Drains /\ e.pc = pc /\ e.session = d.session /\ e.page = d.page
      /\ e.done = d.done /\ e.blocked = d.blocked /\ e.cursor = d.cursor
  BY DEF AtCommitted, Informed, Drains, Calls, Picks, Committing
<1>2. Informed(e) /\ \A r \in Rows : (r # e.cursor => Handled(e, r)) /\ Later(e, r)
  BY <1>1 DEF AtCommitted, Informed, Handled, Later
<1> HIDE DEF e
<1>3. DrainInv(e) /\ Keeps(d, e)
  BY <1>1, <1>2
  DEF AtCommitted, DrainInv, Keeps, Resting, AtRow, Working, Committing, Ending
<1> QED
  BY <1>3 DEF e

LEMMA FencedStep ==
  ASSUME RemoteInv, NEW w \in Workers, Fenced(w)
  PROVE  RemoteInv' /\ Refines
<1> DEFINE d == drain[w]
           a == answer[w]
<1>0. d.pc = "fencing" /\ a # NoAnswer
  BY DEF Fenced, Answered
<1>1. AtCommitted(d)
  BY <1>0, CommittingRow DEF Committing
<1>2. Informed(d) /\ a.kind \in {"picked", "held", "error"}
  BY <1>0, SessionAnswered DEF Picks
<1>3. CASE Owns(w, d, a)
  <2>1. Continue(w, [d EXCEPT !.pc = "finding"])
    BY <1>3 DEF Fenced
  <2> QED
    BY <1>1, <2>1, CommittingKeeps, ContinueKeeps DEF Committing
<1>4. CASE ~ Owns(w, d, a)
  <2>1. Continue(w, Lost(a, d))
    BY <1>4 DEF Fenced
  <2> QED
    BY <1>2, <2>1, LostKeeps, ContinueKeeps
<1> QED
  BY <1>3, <1>4

LEMMA FoundStep ==
  ASSUME RemoteInv, NEW w \in Workers, Found(w)
  PROVE  RemoteInv' /\ Refines
<1> DEFINE d == drain[w]
           a == answer[w]
           status == IF a = Failed THEN "absent" ELSE a.status
<1>0. d.pc = "finding" /\ a # NoAnswer
  BY DEF Found, Answered
<1>1. AtCommitted(d)
  BY <1>0, CommittingRow DEF Committing
<1>2. CASE status = "TO_DELIVER" /\ Continue(w, [d EXCEPT !.pc = "writing"])
  BY <1>1, <1>2, CommittingKeeps, ContinueKeeps DEF Committing
<1>3. CASE status = "DELIVERED" /\ Continue(w, Acknowledged(d))
  <2>1. a # Failed /\ a.status = "DELIVERED"
    BY <1>3
  <2>2. messages[d.cursor] # "TO_DELIVER"
    BY <1>0, <2>1 DEF RemoteInv, DrainsInv, AnswerInv, Unanswered
  <2> QED
    BY <1>1, <1>3, <2>2, AcknowledgedKeeps, ContinueKeeps
<1>4. CASE status = "absent" /\ Continue(w, AcknowledgeAgain(d))
  BY <1>1, <1>4, AcknowledgeAgainKeeps, ContinueKeeps
<1> QED
  BY <1>2, <1>3, <1>4 DEF Found

LEMMA WrittenStep ==
  ASSUME RemoteInv, NEW w \in Workers, Written(w)
  PROVE  RemoteInv' /\ Refines
<1> DEFINE d == drain[w]
           a == answer[w]
<1>0. d.pc = "writing" /\ a # NoAnswer
  BY DEF Written, Answered
<1>1. AtCommitted(d)
  BY <1>0, CommittingRow DEF Committing
<1>2. CASE a = Failed
  <2>1. Continue(w, AcknowledgeAgain(d))
    BY <1>2 DEF Written
  <2> QED
    BY <1>1, <2>1, AcknowledgeAgainKeeps, ContinueKeeps
<1>3. CASE a # Failed
  <2>1. Continue(w, Acknowledged(d))
    BY <1>3 DEF Written
  <2>2. messages[d.cursor] # "TO_DELIVER"
    BY <1>0, <1>3 DEF RemoteInv, DrainsInv, AnswerInv, Unanswered
  <2> QED
    BY <1>1, <2>1, <2>2, AcknowledgedKeeps, ContinueKeeps
<1> QED
  BY <1>2, <1>3

\* A drain that cleans its page up.
LEMMA CleaningPage ==
  ASSUME RemoteInv, NEW w \in Workers, drain[w].pc \in {"guarding", "expunging"}
  PROVE  ReadyToClean(drain[w])
<1>1. DrainInv(drain[w])
  BY DEF RemoteInv, DrainsInv
<1> QED
  BY <1>1
  DEF ReadyToClean, DrainInv, Resting, Working, Calls, Picks, Removes, Ending, Committing

LEMMA GuardedStep ==
  ASSUME RemoteInv, NEW w \in Workers, Guarded(w)
  PROVE  RemoteInv' /\ Refines
<1> DEFINE d == drain[w]
           a == answer[w]
<1>0. d.pc = "guarding" /\ a # NoAnswer
  BY DEF Guarded, Answered
<1>1. ReadyToClean(d)
  BY <1>0, CleaningPage
<1>2. Informed(d) /\ a.kind \in {"picked", "held", "error"}
  BY <1>0, SessionAnswered DEF Picks
<1>3. CASE ~ Owns(w, d, a)
  <2>1. Continue(w, Lost(a, d))
    BY <1>3 DEF Guarded
  <2> QED
    BY <1>2, <2>1, LostKeeps, ContinueKeeps
<1>4. CASE Owns(w, d, a) /\ d.cursor \in Rows
  <2> DEFINE e == [d EXCEPT !.pc = "expunging"]
  <2>1. Continue(w, e)
    BY <1>4 DEF Guarded
  <2>2. /\ e \in Drains /\ e.pc = "expunging" /\ e.session = d.session /\ e.page = d.page
        /\ e.done = d.done /\ e.blocked = d.blocked /\ e.cursor = d.cursor
    BY <1>2 DEF Informed, Drains, Calls, Removes
  <2>3. Informed(e) /\ \A r \in Rows : Handled(e, r)
    BY <1>1, <2>2 DEF ReadyToClean, Informed, Handled
  <2> HIDE DEF e
  <2>4. DrainInv(e) /\ Keeps(d, e)
    BY <1>4, <2>2, <2>3 DEF DrainInv, Keeps, Resting, AtRow, Working, Committing, Ending
  <2> QED
    BY <2>1, <2>4, ContinueKeeps
<1>5. CASE Owns(w, d, a) /\ d.cursor \notin Rows
  <2>1. Continue(w, EndPage(d))
    BY <1>5 DEF Guarded
  <2> QED
    BY <1>1, <2>1, EndPageKeeps, ContinueKeeps
<1> QED
  BY <1>3, <1>4, <1>5

LEMMA ExpungedStep ==
  ASSUME RemoteInv, NEW w \in Workers, Expunged(w)
  PROVE  RemoteInv' /\ Refines
<1> DEFINE d == drain[w]
           a == answer[w]
<1>0. d.pc = "expunging"
  BY DEF Expunged, Answered
<1>1. ReadyToClean(d)
  BY <1>0, CleaningPage
<1>2. CASE a = Failed
  <2>1. Continue(w, Finish(d))
    BY <1>2 DEF Expunged
  <2> QED
    BY <1>1, <2>1, FinishKeeps, ContinueKeeps DEF ReadyToClean
<1>3. CASE a # Failed /\ ExpiredRows(d) = {}
  <2>1. Continue(w, EndPage(d))
    BY <1>3 DEF Expunged
  <2> QED
    BY <1>1, <2>1, EndPageKeeps, ContinueKeeps
<1>4. CASE a # Failed /\ ExpiredRows(d) # {}
  <2> DEFINE n == Min(ExpiredRows(d))
  <2>1. Continue(w, Validate([d EXCEPT !.cursor = n], "guarding"))
    BY <1>4 DEF Expunged
  <2>2. n \in Nat
    BY <1>4, RowsAreNumbers, MinOfNaturals DEF ExpiredRows
  <2> HIDE DEF n
  <2> QED
    BY <1>1, <2>1, <2>2, GuardingKeeps, ContinueKeeps
<1> QED
  BY <1>2, <1>3, <1>4

LEMMA ReleasedStep ==
  ASSUME RemoteInv, NEW w \in Workers, Released(w)
  PROVE  RemoteInv' /\ Refines
<1>1. Continue(w, IdleDrain)
  BY DEF Released
<1> QED
  BY <1>1, IdleDrainInv, ContinueKeeps DEF Keeps

LEMMA DrainStep ==
  ASSUME RemoteInv, NEW w \in Workers, Begin(w) \/ Step(w)
  PROVE  RemoteInv' /\ Refines
BY BeginStep, PickedUpStep, PageReadStep, CheckedStep, DuplicateRemovedStep, FencedStep,
   FoundStep, WrittenStep, GuardedStep, ExpungedStep, ReleasedStep DEF Step

-----------------------------------------------------------------------------
(* Mutations on the server.                                                *)

\* What a mutation may make of the shard's session.
Granted(w) == Owner' = <<w, Now>>
Ended      == Owner' = <<Nobody, NoStamp>>

\* Every mutation keeps this: sessions and rows as they must be, and no
\* received row pending again.
Sound == SessionsTyped' /\ RowsInv' /\ Monotone

LEMMA PickEffect ==
  ASSUME RemoteInv, NEW w \in Workers, ExecutePick(w), received' = received
  PROVE  /\ Sound
         /\ messages' = messages
         /\ \/ PickOutcome(Shard, w, age, FALSE, FALSE) = "picked" /\ Granted(w)
            \/ PickOutcome(Shard, w, age, FALSE, FALSE) # "picked" /\ Owner' = Owner
<1> USE DEF RemoteInv
<1>1. CASE PickOutcome(Shard, w, age, FALSE, FALSE) = "picked"
  <2>1. SetSession(Shard, w, Now)
    BY <1>1 DEF ExecutePick
  <2>2. Now \in Stamps
    BY FreshNow
  <2>3. /\ DOMAIN shards' = DOMAIN shards \union {Shard}
        /\ shards'[Shard] = [worker |-> w, when |-> Now]
        /\ \A t \in DOMAIN shards \ {Shard} : shards'[t] = shards[t]
        /\ messages' = messages
    BY <2>1 DEF SetSession
  <2>4. SessionsTyped'
    BY <2>2, <2>3, RemoteAssumption DEF SessionsTyped
  <2>5. RowsInv' /\ Monotone
    BY <2>3 DEF RowsInv, Monotone
  <2>6. Current' = [worker |-> w, when |-> Now]
    BY <2>3, StateAssumption DEF Current, Picked
  <2> QED
    BY <1>1, <2>3, <2>4, <2>5, <2>6 DEF Sound, Granted, Owner
<1>2. CASE PickOutcome(Shard, w, age, FALSE, FALSE) # "picked"
  <2>1. UNCHANGED stateVars
    BY <1>2 DEF ExecutePick
  <2> QED
    BY <1>2, <2>1 DEF stateVars, Sound, SessionsTyped, RowsInv, Monotone, Owner, Current, Picked
<1> QED
  BY <1>1, <1>2

LEMMA ReleaseEffect ==
  ASSUME RemoteInv, ReleaseAll({Shard}), received' = received
  PROVE  Sound /\ Ended
<1>1. /\ DOMAIN shards' \subseteq DOMAIN shards
      /\ \A t \in DOMAIN shards' :
           shards'[t] = IF t = Shard THEN [shards[t] EXCEPT !.worker = Nobody] ELSE shards[t]
      /\ messages' = messages
  BY DEF ReleaseAll
<1>2. SessionsTyped'
  BY <1>1 DEF RemoteInv, SessionsTyped
<1>3. RowsInv' /\ Monotone
  BY <1>1 DEF RemoteInv, RowsInv, Monotone
<1>4. ~ Picked(Shard)'
  BY <1>1 DEF RemoteInv, SessionsTyped, Picked
<1> QED
  BY <1>2, <1>3, <1>4 DEF Sound, Ended, Owner, Current

LEMMA WriteEffect ==
  ASSUME RemoteInv, NEW r, ExecuteWrite(r), received' = received
  PROVE  /\ Sound /\ Owner' = Owner
         /\ r \in Rows => messages'[r] # "TO_DELIVER"
<1>1. /\ messages' = [q \in Rows |-> IF q = r THEN "DELIVERED" ELSE messages[q]]
      /\ shards' = shards
  BY DEF ExecuteWrite, Write
<1>2. SessionsTyped' /\ Owner' = Owner
  BY <1>1 DEF RemoteInv, SessionsTyped, Owner, Current, Picked
<1>3. RowsInv' /\ Monotone
  BY <1>1 DEF RemoteInv, RowsInv, Monotone, Row, Statuses
<1> QED
  BY <1>1, <1>2, <1>3 DEF Sound

LEMMA RemoveEffect ==
  ASSUME RemoteInv, NEW r, ExecuteRemove(r), received' = received
  PROVE  Sound /\ Owner' = Owner
<1>1. /\ messages' = [q \in Rows |-> IF q \in {r} THEN "absent" ELSE messages[q]]
      /\ shards' = Pruned({r})
  BY DEF ExecuteRemove, Remove
<1>2. RowsInv' /\ Monotone
  BY <1>1 DEF RemoteInv, RowsInv, Monotone, Row
<1>3. /\ DOMAIN shards' \subseteq DOMAIN shards
      /\ \A t \in DOMAIN shards' : shards'[t] = shards[t]
      /\ \A t \in DOMAIN shards : shards[t].worker # Nobody => t \in DOMAIN shards'
  BY <1>1 DEF Pruned
<1>4. SessionsTyped' /\ Owner' = Owner
  BY <1>3 DEF RemoteInv, SessionsTyped, Owner, Current, Picked
<1> QED
  BY <1>2, <1>4 DEF Sound

LEMMA PerformEffect ==
  ASSUME RemoteInv, NEW op \in Calls, NEW w \in Workers, NEW r, Perform(op, w, r),
         received' = received
  PROVE  Sound /\ (Owner' = Owner \/ Granted(w) \/ Ended)
<1>1. CASE op \in Picks
  <2>1. ExecutePick(w)
    BY <1>1 DEF Perform, Picks, Releases, Removes
  <2> QED
    BY <2>1, PickEffect
<1>2. CASE op \in Releases
  <2>1. ExecuteRelease(w)
    BY <1>2 DEF Perform, Picks, Releases, Removes
  <2>2. CASE Releasable(Shard, w)
    BY <2>1, <2>2, ReleaseEffect DEF ExecuteRelease
  <2>3. CASE ~ Releasable(Shard, w)
    BY <2>1, <2>3
    DEF ExecuteRelease, RemoteInv, stateVars, Sound, SessionsTyped, RowsInv, Monotone, Owner,
        Current, Picked
  <2> QED
    BY <2>2, <2>3
<1>3. CASE op \in Removes
  BY <1>3, RemoveEffect DEF Perform, Picks, Releases, Removes
<1>4. CASE op = "writing"
  BY <1>4, WriteEffect DEF Perform, Picks, Releases, Removes
<1>5. CASE op \in {"reading", "finding"}
  <2>1. UNCHANGED stateVars
    BY <1>5 DEF Perform, Picks, Releases, Removes
  <2> QED
    BY <2>1 DEF RemoteInv, stateVars, Sound, SessionsTyped, RowsInv, Monotone, Owner, Current, Picked
<1> QED
  BY <1>1, <1>2, <1>3, <1>4, <1>5 DEF Calls

\* A step that no drain takes, and that answers no call.
LEMMA UnattendedStep ==
  ASSUME RemoteInv, Sound, late' \subseteq [op : Calls, worker : Workers, row : Nat],
         drain' = drain, answer' = answer
  PROVE  RemoteInv' /\ Session' = Session /\ Confirmed' = Confirmed /\ DoneBy' = DoneBy
<1>1. \A w \in Workers : (DrainInv(drain[w]) /\ AnswerInv(drain[w], answer[w]))'
  BY DrainStable, AnswerStable DEF RemoteInv, DrainsInv, Sound
<1>2. RemoteInv'
  BY <1>1 DEF RemoteInv, DrainsInv, Sound
<1> QED
  BY <1>2 DEF Session, Confirmed, DoneBy, Confirming, Owns

\* A step that no drain takes, and that answers the call of w.
LEMMA AnsweringStep ==
  ASSUME RemoteInv, Sound, late' \subseteq [op : Calls, worker : Workers, row : Nat],
         NEW w \in Workers, NEW a, drain' = drain, answer' = [answer EXCEPT ![w] = a],
         AnswerInv(drain[w], a)'
  PROVE  /\ RemoteInv' /\ Session' = Session /\ DoneBy' = DoneBy
         /\ Confirmed' = [Confirmed EXCEPT ![w] = drain[w].pc \in Picks \ {"picking"}
                                                    /\ Owns(w, drain[w], a)]
<1>1. answer'[w] = a /\ \A v \in Workers \ {w} : answer'[v] = answer[v]
  BY DEF RemoteInv, DrainsInv
<1>2. \A v \in Workers : DrainInv(drain[v])'
  BY DrainStable DEF RemoteInv, DrainsInv, Sound
<1>3. \A v \in Workers \ {w} : AnswerInv(drain[v], answer[v])'
  BY <1>1, AnswerStable DEF RemoteInv, DrainsInv, Sound
<1>4. AnswerInv(drain[w], answer[w])'
  BY <1>1
<1>5. RemoteInv'
  BY <1>2, <1>3, <1>4 DEF RemoteInv, DrainsInv, Sound
<1>6. Session' = Session /\ DoneBy' = DoneBy
  BY DEF Session, DoneBy
<1>7. Confirming(w)' = (drain[w].pc \in Picks \ {"picking"} /\ Owns(w, drain[w], a))
  BY <1>1 DEF Confirming, Owns
<1>8. \A v \in Workers \ {w} : Confirming(v)' = Confirming(v)
  BY <1>1 DEF Confirming, Owns
<1>9. Confirmed' = [Confirmed EXCEPT ![w] = drain[w].pc \in Picks \ {"picking"}
                                              /\ Owns(w, drain[w], a)]
  BY <1>7, <1>8 DEF Confirmed
<1> QED
  BY <1>5, <1>6, <1>9

\* The session that the server grants is one that no worker works under.
LEMMA GrantRefines ==
  ASSUME NEW w \in Workers, Granted(w), Session' = Session, Confirmed' = Confirmed,
         DoneBy' = DoneBy
  PROVE  Refines
<1>1. Now \in Stamps /\ \A v \in Workers : Session[v] # Now
  BY FreshNow DEF StampsInUse, Session
<1> QED
  BY <1>1, RefinesIfGranted DEF Granted

LEMMA UnattendedRefines ==
  ASSUME NEW w \in Workers, Owner' = Owner \/ Granted(w) \/ Ended,
         Session' = Session, Confirmed' = Confirmed, DoneBy' = DoneBy
  PROVE  Refines
BY GrantRefines, RefinesIfKept, RefinesIfEnded DEF Ended

LEMMA ExecuteLateStep ==
  ASSUME RemoteInv, ExecuteLate
  PROVE  RemoteInv' /\ Refines
<1>1. PICK c \in late : Perform(c.op, c.worker, c.row) /\ late' = late \ {c}
  BY DEF ExecuteLate
<1>2. c.op \in Calls /\ c.worker \in Workers
  BY DEF RemoteInv
<1>3. drain' = drain /\ answer' = answer /\ received' = received
  BY DEF ExecuteLate
<1>4. Sound /\ (Owner' = Owner \/ Granted(c.worker) \/ Ended)
  BY <1>1, <1>2, <1>3, PerformEffect
<1>5. late' \subseteq [op : Calls, worker : Workers, row : Nat]
  BY <1>1 DEF RemoteInv
<1>6. RemoteInv' /\ Session' = Session /\ Confirmed' = Confirmed /\ DoneBy' = DoneBy
  BY <1>3, <1>4, <1>5, UnattendedStep
<1> QED
  BY <1>2, <1>4, <1>6, UnattendedRefines

LEMMA TickStep ==
  ASSUME RemoteInv, Tick
  PROVE  RemoteInv' /\ Refines
<1>1. UNCHANGED stateVars /\ drain' = drain /\ answer' = answer /\ late' = late
      /\ received' = received
  BY DEF Tick, netVars
<1>2. Sound /\ Owner' = Owner
  BY <1>1
  DEF RemoteInv, stateVars, Sound, SessionsTyped, RowsInv, Monotone, Owner, Current, Picked
<1>3. late' \subseteq [op : Calls, worker : Workers, row : Nat]
  BY <1>1 DEF RemoteInv
<1>4. RemoteInv' /\ Session' = Session /\ Confirmed' = Confirmed /\ DoneBy' = DoneBy
  BY <1>1, <1>2, <1>3, UnattendedStep
<1> QED
  BY <1>2, <1>4, RefinesIfKept

LEMMA ReleaseExpiredStep ==
  ASSUME RemoteInv, ReleaseExpired
  PROVE  RemoteInv' /\ Refines
<1>1. ReleaseAll({Shard}) /\ drain' = drain /\ answer' = answer /\ late' = late
      /\ received' = received
  BY DEF ReleaseExpired
<1>2. Sound /\ Ended
  BY <1>1, ReleaseEffect
<1>3. late' \subseteq [op : Calls, worker : Workers, row : Nat]
  BY <1>1 DEF RemoteInv
<1>4. RemoteInv' /\ Session' = Session /\ Confirmed' = Confirmed /\ DoneBy' = DoneBy
  BY <1>1, <1>2, <1>3, UnattendedStep
<1> QED
  BY <1>2, <1>4, RefinesIfEnded DEF Ended

LEMMA ReceiveStep ==
  ASSUME RemoteInv, NEW r \in Rows, Receive(r)
  PROVE  RemoteInv' /\ Refines
<1>1. /\ messages' = [q \in Rows |-> IF q = r THEN "TO_DELIVER" ELSE messages[q]]
      /\ shards' = shards /\ received' = received \union {r} /\ r \notin received
      /\ drain' = drain /\ answer' = answer /\ late' = late
  BY DEF Receive, Write, netVars
<1>2. SessionsTyped' /\ Owner' = Owner
  BY <1>1 DEF RemoteInv, SessionsTyped, Owner, Current, Picked
<1>3. RowsInv' /\ Monotone
  BY <1>1 DEF RemoteInv, RowsInv, Monotone, Row, Statuses
<1>4. late' \subseteq [op : Calls, worker : Workers, row : Nat]
  BY <1>1 DEF RemoteInv
<1>5. RemoteInv' /\ Session' = Session /\ Confirmed' = Confirmed /\ DoneBy' = DoneBy
  BY <1>1, <1>2, <1>3, <1>4, UnattendedStep DEF Sound
<1> QED
  BY <1>2, <1>5, RefinesIfKept

LEMMA PickAnswered ==
  ASSUME NEW w \in Workers
  PROVE  LET a == PickAnswer(w) IN
         IF PickOutcome(Shard, w, age, FALSE, FALSE) = "picked"
         THEN a.kind = "picked" /\ a.when \in Stamps
         ELSE a.kind = "held" /\ a.worker = Current.worker /\ a.when = Current.when
<1>1. CASE PickOutcome(Shard, w, age, FALSE, FALSE) = "picked"
  <2>1. PickAnswer(w) = [kind |-> "picked", worker |-> w, when |-> Now]
    BY <1>1 DEF PickAnswer
  <2>2. PickAnswer(w).kind = "picked" /\ PickAnswer(w).when \in Stamps
    BY <2>1, FreshNow
  <2> QED
    BY <1>1, <2>2
<1>2. CASE PickOutcome(Shard, w, age, FALSE, FALSE) # "picked"
  <2>1. PickAnswer(w) = [kind |-> "held", worker |-> Current.worker, when |-> Current.when]
    BY <1>2 DEF PickAnswer
  <2>2. /\ PickAnswer(w).kind = "held"
        /\ PickAnswer(w).worker = Current.worker /\ PickAnswer(w).when = Current.when
    BY <2>1
  <2> QED
    BY <1>2, <2>2
<1> QED
  BY <1>1, <1>2

LEMMA ExecuteStep ==
  ASSUME RemoteInv, NEW w \in Workers, Execute(w)
  PROVE  RemoteInv' /\ Refines
<1> DEFINE d == drain[w]
<1>0. PICK a : a = AnswerTo(d.pc, w, d.cursor)
  OBVIOUS
<1>1. /\ d.pc \in Calls /\ answer[w] = NoAnswer /\ Perform(d.pc, w, d.cursor)
      /\ drain' = drain /\ late' = late /\ received' = received
      /\ answer' = [answer EXCEPT ![w] = a]
  BY <1>0 DEF Execute
<1>2. Sound /\ (Owner' = Owner \/ Granted(w) \/ Ended)
  BY <1>1, PerformEffect
<1>3. DrainInv(d)
  BY DEF RemoteInv, DrainsInv
<1>4. late' \subseteq [op : Calls, worker : Workers, row : Nat]
  BY <1>1 DEF RemoteInv
<1>5. d.pc \in Picks => /\ ExecutePick(w) /\ a = PickAnswer(w)
  BY <1>0, <1>1 DEF Perform, AnswerTo, Picks, Releases, Removes
<1>6. AnswerInv(drain[w], a)'
  <2>1. CASE d.pc \in Picks
    <3>1. SessionAnswer(a)
      BY <1>5, <2>1, PickAnswered DEF SessionAnswer
    <3> QED
      BY <1>1, <2>1, <3>1 DEF AnswerInv, SessionAnswer, Picks
  <2>2. CASE d.pc = "reading"
    <3>1. a = [kind |-> "page", rows |-> messages] /\ messages' = messages
      BY <1>0, <1>1, <2>2 DEF Perform, AnswerTo, Picks, Releases, Removes, stateVars
    <3>2. \A r \in Rows : Handled(d, r)
      BY <1>3, <2>2 DEF DrainInv, Working, Calls, Picks, Ending, Committing
    <3>3. a.rows \in [Rows -> Row]
          /\ \A r \in Rows : a.rows[r] = "TO_DELIVER" =>
               r \in received /\ (d.done[r] = 1 => d.blocked)
      BY <3>1, <3>2 DEF RemoteInv, RowsInv, Handled
    <3> QED
      BY <1>1, <2>2, <3>1, <3>3 DEF AnswerInv, PageAnswer, Picks
  <2>3. CASE d.pc = "finding"
    <3>1. a = [kind |-> "row", status |-> messages[d.cursor]] /\ messages' = messages
      BY <1>0, <1>1, <2>3 DEF Perform, AnswerTo, Picks, Releases, Removes, stateVars
    <3>2. messages[d.cursor] \in Row
      BY <1>3, <2>3 DEF RemoteInv, RowsInv, DrainInv, AtRow
    <3> QED
      BY <1>1, <2>3, <3>1, <3>2 DEF AnswerInv, Picks
  <2>4. CASE d.pc = "writing"
    <3>1. ExecuteWrite(d.cursor)
      BY <1>1, <2>4 DEF Perform, Picks, Releases, Removes
    <3>2. messages'[d.cursor] # "TO_DELIVER"
      BY <1>1, <1>3, <2>4, <3>1, WriteEffect DEF DrainInv, AtRow
    <3> QED
      BY <1>1, <2>4, <3>2 DEF AnswerInv, Picks
  <2>5. CASE d.pc \in Removes \union Releases
    BY <1>1, <2>5 DEF AnswerInv, Picks, Removes, Releases
  <2> QED
    BY <1>1, <2>1, <2>2, <2>3, <2>4, <2>5 DEF Calls
<1>7. /\ RemoteInv' /\ Session' = Session /\ DoneBy' = DoneBy
      /\ Confirmed' = [Confirmed EXCEPT ![w] = d.pc \in Picks \ {"picking"} /\ Owns(w, d, a)]
  BY <1>1, <1>2, <1>4, <1>6, AnsweringStep
<1>8. Confirmed[w] = FALSE
  <2>1. Confirming(w) = FALSE
    BY <1>1 DEF Confirming, Owns, NoAnswer
  <2> QED
    BY <2>1 DEF Confirmed
<1>9. ASSUME ~ (d.pc \in Picks \ {"picking"} /\ Owns(w, d, a))
      PROVE  Confirmed' = Confirmed
  <2>1. Confirmed' = [Confirmed EXCEPT ![w] = Confirmed[w]]
    BY <1>7, <1>8, <1>9
  <2> QED
    BY <2>1 DEF Confirmed
<1>10. CASE ~ (d.pc \in Picks \ {"picking"} /\ Owns(w, d, a))
  BY <1>2, <1>7, <1>9, <1>10, UnattendedRefines
<1>11. CASE d.pc \in Picks \ {"picking"} /\ Owns(w, d, a)
  <2>1. a.kind = "held"
    BY <1>11 DEF Owns
  <2>2. PickOutcome(Shard, w, age, FALSE, FALSE) # "picked"
        /\ a.worker = Current.worker /\ a.when = Current.when
    BY <1>5, <1>11, <2>1, PickAnswered
  <2>3. Owner' = Owner
    BY <1>1, <1>5, <1>11, <2>2, PickEffect
  <2>4. Session[w] = d.session /\ Session[w] # NoStamp
    <3>1. d.session \in Stamps
      BY <1>3, <1>11 DEF DrainInv, Informed, Resting, Picks
    <3>2. NoStamp \notin Stamps
      BY DEF NoStamp, Stamps
    <3> QED
      BY <3>1, <3>2 DEF Session
  <2>5. Owner = <<w, Session[w]>>
    BY <1>11, <2>2, <2>4 DEF Owns, Owner
  <2>6. Confirmed' = [Confirmed EXCEPT ![w] = TRUE]
    BY <1>7, <1>11
  <2> QED
    BY <1>7, <2>3, <2>4, <2>5, <2>6, RefinesIfConfirmed
<1> QED
  BY <1>10, <1>11

LEMMA AbandonTyped ==
  ASSUME RemoteInv, NEW w \in Workers, Abandon(w)
  PROVE  late' \subseteq [op : Calls, worker : Workers, row : Nat]
<1>1. drain[w].cursor \in Nat
  BY DEF RemoteInv, DrainsInv, DrainInv, Drains
<1> QED
  BY <1>1 DEF RemoteInv, Abandon

LEMMA TimeOutStep ==
  ASSUME RemoteInv, NEW w \in Workers, TimeOut(w)
  PROVE  RemoteInv' /\ Refines
<1>1. /\ UNCHANGED stateVars /\ drain' = drain /\ received' = received
      /\ answer' = [answer EXCEPT ![w] = Failed] /\ Abandon(w)
  BY DEF TimeOut
<1>2. late' \subseteq [op : Calls, worker : Workers, row : Nat]
  BY <1>1, AbandonTyped
<1>3. Sound /\ Owner' = Owner
  BY <1>1
  DEF RemoteInv, stateVars, Sound, SessionsTyped, RowsInv, Monotone, Owner, Current, Picked
<1>4. AnswerInv(drain[w], Failed)'
  BY DEF AnswerInv, Unanswered
<1>5. ~ Owns(w, drain[w], Failed)
  BY DEF Owns, Failed
<1>6. PICK a : a = Failed
  OBVIOUS
<1>7. AnswerInv(drain[w], a)'
  BY <1>4, <1>6 DEF Failed
<1>8. /\ RemoteInv' /\ Session' = Session /\ DoneBy' = DoneBy
      /\ Confirmed' = [Confirmed EXCEPT ![w] = FALSE]
  BY <1>1, <1>2, <1>3, <1>5, <1>6, <1>7, AnsweringStep
<1> QED
  BY <1>3, <1>8, RefinesIfForgotten

LEMMA CrashStep ==
  ASSUME RemoteInv, NEW w \in Workers, Crash(w)
  PROVE  RemoteInv' /\ Refines
<1> DEFINE e == [IdleDrain EXCEPT !.pc = "dead"]
<1>0. e.session = NoStamp /\ e.done = NoCounts
  BY IdleDrainInv DEF Drains
<1>1. /\ UNCHANGED stateVars /\ received' = received /\ Abandon(w)
      /\ drain' = [drain EXCEPT ![w] = e] /\ answer' = [answer EXCEPT ![w] = NoAnswer]
  BY DEF Crash
<1>2. DrainInv(e)
  BY RestingInv DEF Resting
<1> HIDE DEF e
<1>3. late' \subseteq [op : Calls, worker : Workers, row : Nat]
  BY <1>1, AbandonTyped
<1>4. Sound /\ Owner' = Owner
  BY <1>1
  DEF RemoteInv, stateVars, Sound, SessionsTyped, RowsInv, Monotone, Owner, Current, Picked
<1>5. /\ drain'[w] = e /\ answer'[w] = NoAnswer
      /\ \A v \in Workers \ {w} : drain'[v] = drain[v] /\ answer'[v] = answer[v]
      /\ DOMAIN drain' = Workers /\ DOMAIN answer' = Workers
  BY <1>1 DEF RemoteInv, DrainsInv
<1>6. (DrainInv(drain[w]) /\ AnswerInv(drain[w], answer[w]))'
  BY <1>1, <1>2, <1>5 DEF DrainInv, Informed, Handled, Later, AnswerInv, Unanswered, stateVars
<1>7. \A v \in Workers \ {w} : (DrainInv(drain[v]) /\ AnswerInv(drain[v], answer[v]))'
  BY <1>4, <1>5, DrainStable, AnswerStable DEF RemoteInv, DrainsInv, Sound
<1>8. RemoteInv'
  BY <1>3, <1>4, <1>5, <1>6, <1>7 DEF RemoteInv, DrainsInv, Sound
<1>9. Session' = [Session EXCEPT ![w] = NoStamp] /\ DoneBy' = [DoneBy EXCEPT ![w] = NoCounts]
  BY <1>0, <1>5 DEF Session, DoneBy
<1>10. Confirmed' = [Confirmed EXCEPT ![w] = FALSE]
  <2>1. Confirming(w)' = FALSE
    BY <1>5 DEF Confirming, Owns, NoAnswer
  <2>2. \A v \in Workers \ {w} : Confirming(v)' = Confirming(v)
    BY <1>5 DEF Confirming, Owns
  <2> QED
    BY <2>1, <2>2 DEF Confirmed
<1> QED
  BY <1>4, <1>8, <1>9, <1>10, RefinesIfLeft

LEMMA ReconcileStep ==
  ASSUME RemoteInv, NEW w \in Workers, Reconcile(w)
  PROVE  RemoteInv' /\ Refines
<1> DEFINE d == drain[w]
           e == [d EXCEPT !.known = FALSE]
<1>1. /\ UNCHANGED stateVars /\ received' = received /\ late' = late /\ answer' = answer
      /\ drain' = [drain EXCEPT ![w] = e]
  BY DEF Reconcile, RemoteInv, DrainsInv
<1>2. DrainInv(d) /\ AnswerInv(d, answer[w])
  BY DEF RemoteInv, DrainsInv
<1>3. /\ e \in Drains /\ e.pc = d.pc /\ e.session = d.session /\ e.page = d.page
      /\ e.done = d.done /\ e.blocked = d.blocked /\ e.cursor = d.cursor
  BY <1>2 DEF DrainInv, Drains
<1> HIDE DEF e
<1>4. DrainInv(e)
  <2>1. Informed(d) => Informed(e)
    BY <1>3 DEF Informed
  <2>2. \A r \in Rows : (Handled(d, r) => Handled(e, r)) /\ (Later(d, r) => Later(e, r))
    BY <1>3 DEF Handled, Later
  <2> QED
    BY <1>2, <1>3, <2>1, <2>2 DEF DrainInv
<1>5. AnswerInv(e, answer[w])
  BY <1>2, <1>3 DEF AnswerInv, PageAnswer
<1>6. Sound /\ Owner' = Owner
  BY <1>1
  DEF RemoteInv, stateVars, Sound, SessionsTyped, RowsInv, Monotone, Owner, Current, Picked
<1>7. /\ drain'[w] = e /\ answer' = answer /\ DOMAIN drain' = Workers
      /\ \A v \in Workers \ {w} : drain'[v] = drain[v]
  BY <1>1 DEF RemoteInv, DrainsInv
<1>8. (DrainInv(drain[w]) /\ AnswerInv(drain[w], answer[w]))'
  BY <1>1, <1>4, <1>5, <1>7
  DEF DrainInv, Informed, Handled, Later, AnswerInv, PageAnswer, stateVars
<1>9. \A v \in Workers \ {w} : (DrainInv(drain[v]) /\ AnswerInv(drain[v], answer[v]))'
  BY <1>6, <1>7, DrainStable, AnswerStable DEF RemoteInv, DrainsInv, Sound
<1>10. RemoteInv'
  BY <1>1, <1>6, <1>7, <1>8, <1>9 DEF RemoteInv, DrainsInv, Sound
<1>11. Session' = Session /\ DoneBy' = DoneBy
  BY <1>3, <1>7 DEF Session, DoneBy
<1>12. Confirmed' = Confirmed
  <2>1. \A v \in Workers : Confirming(v)' = Confirming(v)
    BY <1>3, <1>7 DEF Confirming, Owns
  <2> QED
    BY <2>1 DEF Confirmed
<1> QED
  BY <1>6, <1>10, <1>11, <1>12, RefinesIfKept

-----------------------------------------------------------------------------
(* The theorems.                                                           *)

LEMMA InitialStates == Init => RemoteInv /\ Ownership!OwnershipInit
<1> SUFFICES ASSUME Init PROVE RemoteInv /\ Ownership!OwnershipInit
  OBVIOUS
<1>1. SessionsTyped /\ RowsInv
  BY DEF Init, StateInit, SessionsTyped, RowsInv, Row
<1>2. DrainsInv
  <2>1. \A w \in Workers : drain[w] = IdleDrain /\ answer[w] = NoAnswer
    BY DEF Init
  <2> QED
    BY <2>1, IdleDrainInv DEF Init, DrainsInv, AnswerInv, Unanswered
<1>3. late = {}
  BY DEF Init
<1>4. Owner = <<Nobody, NoStamp>>
  BY DEF Init, StateInit, Owner, Current, Picked
<1>5. \A w \in Workers : Confirming(w) = FALSE
  BY DEF Init, Confirming, Owns, NoAnswer
<1>6. /\ Session = [w \in Workers |-> NoStamp] /\ Confirmed = [w \in Workers |-> FALSE]
      /\ DoneBy = [w \in Workers |-> NoCounts]
  <2>1. Confirmed = [w \in Workers |-> FALSE]
    BY <1>5 DEF Confirmed
  <2>2. \A w \in Workers : drain[w] = IdleDrain
    BY DEF Init
  <2> QED
    BY <2>1, <2>2, IdleDrainInv DEF Session, DoneBy
<1>7. Ownership!OwnershipInit
  BY <1>4, <1>6
  DEF Owner, Session, Confirmed, DoneBy, NoCounts, Ownership!OwnershipInit, Ownership!Free,
      Ownership!Nothing
<1> QED
  BY <1>1, <1>2, <1>3, <1>7 DEF RemoteInv

LEMMA NextKeeps ==
  ASSUME RemoteInv, [Next]_vars
  PROVE  RemoteInv' /\ Refines
<1>1. ASSUME NEW w \in Workers, Begin(w) \/ Step(w) PROVE RemoteInv' /\ Refines
  BY <1>1, DrainStep
<1>2. ASSUME NEW w \in Workers, Execute(w) PROVE RemoteInv' /\ Refines
  BY <1>2, ExecuteStep
<1>3. ASSUME NEW w \in Workers, Reconcile(w) PROVE RemoteInv' /\ Refines
  BY <1>3, ReconcileStep
<1>4. ASSUME NEW w \in Workers, TimeOut(w) \/ Crash(w) PROVE RemoteInv' /\ Refines
  BY <1>4, TimeOutStep, CrashStep
<1>5. ASSUME NEW r \in Rows, Receive(r) PROVE RemoteInv' /\ Refines
  BY <1>5, ReceiveStep
<1>6. CASE ExecuteLate \/ Tick \/ ReleaseExpired
  BY <1>6, ExecuteLateStep, TickStep, ReleaseExpiredStep
<1>7. CASE UNCHANGED vars
  <2>1. UNCHANGED stateVars /\ drain' = drain /\ answer' = answer /\ late' = late
        /\ received' = received
    BY <1>7 DEF vars, netVars
  <2>2. Sound /\ Owner' = Owner
    BY <2>1
    DEF RemoteInv, stateVars, Sound, SessionsTyped, RowsInv, Monotone, Owner, Current, Picked
  <2>3. late' \subseteq [op : Calls, worker : Workers, row : Nat]
    BY <2>1 DEF RemoteInv
  <2>4. RemoteInv' /\ Session' = Session /\ Confirmed' = Confirmed /\ DoneBy' = DoneBy
    BY <2>1, <2>2, <2>3, UnattendedStep
  <2> QED
    BY <2>2, <2>4, RefinesIfKept
<1> QED
  BY <1>1, <1>2, <1>3, <1>4, <1>5, <1>6, <1>7 DEF Next

\* RemoteInv holds in every reachable state: sessions, drains, pages, answers
\* and late calls have their types, a drain knows only of received rows, and a
\* row it has dispatched is acknowledged or its target is blocked.
THEOREM RemoteInvariance == Spec => []RemoteInv
<1>1. Init => RemoteInv
  BY InitialStates
<1>2. RemoteInv /\ [Next]_vars => RemoteInv'
  BY NextKeeps
<1> QED
  BY <1>1, <1>2, PTL DEF Spec

\* One session never dispatches a row twice, however its acknowledgement ends
\* (acknowledgeWithRetry, the blocked targets of RemoteInbox).
THEOREM OncePerSessionHolds == Spec => []OncePerSession
<1>1. RemoteInv => OncePerSession
  BY DEF RemoteInv, DrainsInv, DrainInv, Drains, OncePerSession
<1> QED
  BY <1>1, RemoteInvariance, PTL

\* The remote work registry implements exclusive ownership: whatever calls are
\* lost, late or repeated, a row is dispatched only under a confirmation that
\* the server gave to this session while it held the shard.
THEOREM OwnershipRefined == Spec => ImplementsOwnership
<1>1. Init => Ownership!OwnershipInit
  BY InitialStates
<1>2. RemoteInv /\ [Next]_vars => [Ownership!OwnershipNext]_(Ownership!ownershipVars)
  BY NextKeeps DEF Refines
<1> QED
  BY <1>1, <1>2, RemoteInvariance, PTL DEF Spec, ImplementsOwnership, Ownership!OwnershipSpec

-----------------------------------------------------------------------------
(* No accepted signal vanishes.                                            *)

\* What the drain d relies on when C is the set of committed signals: the rows
\* its page holds as delivered are committed, like the pending rows it has
\* passed on the page and the row that it acknowledges or removes.
Settled(d, C) == \A r \in Rows : d.page[r] = "DELIVERED" => SignalOf[r] \in C
Passed(d, n, C) == \A r \in Rows : r < n /\ d.page[r] = "TO_DELIVER" => SignalOf[r] \in C

Keeping(d, C) ==
  /\ Settled(d, C)
  /\ d.pc = "reading" => d.cursor = 0
  /\ d.pc \in AtRow => Passed(d, d.cursor, C)
  /\ d.pc \in {"removing", "finding", "writing"} => SignalOf[d.cursor] \in C
  /\ d.pc \in {"guarding", "expunging"} /\ d.cursor \in Rows => d.page[d.cursor] = "DELIVERED"

\* The drain d may look for its next row: it was done with the one it is at.
Ready(d, C) ==
  /\ d \in Drains /\ Settled(d, C)
  /\ ~ d.blocked => \A r \in Rows : r <= d.cursor /\ d.page[r] = "TO_DELIVER" => SignalOf[r] \in C

LossInv ==
  /\ NothingLost
  /\ \A r \in Rows : messages[r] = "DELIVERED" => SignalOf[r] \in committed
  /\ \A c \in late : c.op \in {"writing"} \union Removes => SignalOf[c.row] \in committed
  /\ recent \in [Workers -> SUBSET committed]
  /\ \A w \in Workers :
       /\ Keeping(drain[w], committed)
       /\ answer[w].kind = "page" =>
            \A r \in Rows : answer[w].rows[r] = "DELIVERED" => SignalOf[r] \in committed

\* The pcs of a drain that is not in the middle of a page.
Away == {"idle", "dead", "picking"} \union Releases

LEMMA AwayKeeping ==
  ASSUME NEW d, NEW C, Settled(d, C), d.pc \in Away \/ (d.pc = "reading" /\ d.cursor = 0)
  PROVE  Keeping(d, C)
BY DEF Keeping, Away, AtRow, Releases

LEMMA IdleKeeping ==
  ASSUME NEW pc \in Resting, NEW C
  PROVE  Keeping([IdleDrain EXCEPT !.pc = pc], C) /\ Keeping(IdleDrain, C)
<1>1. /\ Settled(IdleDrain, C) /\ Settled([IdleDrain EXCEPT !.pc = pc], C)
      /\ IdleDrain.pc = "idle" /\ [IdleDrain EXCEPT !.pc = pc].pc = pc
  BY DEF IdleDrain, Settled, NoRows
<1> QED
  BY <1>1, AwayKeeping DEF Away, Resting

LEMMA FinishKeeping ==
  ASSUME NEW d \in Drains, NEW C, Settled(d, C)
  PROVE  Keeping(Finish(d), C)
<1>1. CASE d.known
  <2> DEFINE e == [d EXCEPT !.pc = "releasing", !.known = FALSE]
  <2>1. e.pc = "releasing" /\ e.page = d.page
    BY DEF Drains
  <2>2. Settled(e, C)
    BY <2>1 DEF Settled
  <2>3. Finish(d) = e
    BY <1>1 DEF Finish
  <2> HIDE DEF e
  <2> QED
    BY <2>1, <2>2, <2>3, AwayKeeping DEF Away, Releases
<1>2. CASE ~ d.known
  BY <1>2, IdleKeeping DEF Finish, Resting
<1> QED
  BY <1>1, <1>2

LEMMA LostKeeping ==
  ASSUME NEW d \in Drains, NEW C, Settled(d, C), NEW a, a.kind \in {"picked", "held", "error"}
  PROVE  Keeping(Lost(a, d), C)
<1>1. CASE a.kind = "picked"
  <2> DEFINE e == [d EXCEPT !.pc = "returning"]
  <2>1. e.pc = "returning" /\ e.page = d.page
    BY DEF Drains
  <2>2. Settled(e, C)
    BY <2>1 DEF Settled
  <2>3. Lost(a, d) = e
    BY <1>1 DEF Lost
  <2> HIDE DEF e
  <2> QED
    BY <2>1, <2>2, <2>3, AwayKeeping DEF Away, Releases
<1>2. CASE a.kind = "held"
  BY <1>2, IdleKeeping DEF Lost, Resting
<1>3. CASE a.kind = "error"
  BY <1>3, FinishKeeping DEF Lost
<1> QED
  BY <1>1, <1>2, <1>3

LEMMA EndPageKeeping ==
  ASSUME NEW d \in Drains, NEW C, Settled(d, C)
  PROVE  Keeping(EndPage(d), C)
<1>1. CASE d.progress
  <2> DEFINE e == [d EXCEPT !.pc = "reading", !.progress = FALSE, !.page = NoRows, !.cursor = 0]
  <2>1. e.pc = "reading" /\ e.cursor = 0 /\ e.page = NoRows
    BY DEF Drains
  <2>2. Settled(e, C)
    BY <2>1 DEF Settled, NoRows
  <2>3. EndPage(d) = e
    BY <1>1 DEF EndPage
  <2> HIDE DEF e
  <2> QED
    BY <2>1, <2>2, <2>3, AwayKeeping
<1>2. CASE ~ d.progress
  BY <1>2, FinishKeeping DEF EndPage
<1> QED
  BY <1>1, <1>2

\* The clean-up goes to a row that the page holds as delivered, or behind it.
LEMMA GuardingKeeping ==
  ASSUME NEW d \in Drains, NEW C, Settled(d, C), NEW n,
         n \in Rows => d.page[n] = "DELIVERED"
  PROVE  Keeping(Validate([d EXCEPT !.cursor = n], "guarding"), C)
<1> DEFINE f == [d EXCEPT !.cursor = n]
           e == [f EXCEPT !.pc = "guarding"]
<1>1. /\ e.pc = "guarding" /\ e.cursor = n /\ e.page = d.page /\ f.known = d.known
  BY DEF Drains
<1>2. Validate(f, "guarding") = IF d.known THEN e ELSE IdleDrain
  BY <1>1 DEF Validate
<1>3. Keeping(e, C)
  BY <1>1 DEF Settled, Keeping, AtRow
<1> HIDE DEF e, f
<1>4. Keeping(Validate(f, "guarding"), C)
  BY <1>2, <1>3, IdleKeeping DEF Resting
<1> QED
  BY <1>4 DEF f

LEMMA CleanupPageKeeping ==
  ASSUME NEW d \in Drains, NEW C, Settled(d, C)
  PROVE  Keeping(CleanupPage(d), C)
<1> DEFINE s == [d EXCEPT !.cursor = 0]
           S == ExpiredRows(s) \union {Cardinality(Rows) + 1}
<1>1. S \in SUBSET Nat /\ S # {} /\ Cardinality(Rows) + 1 \notin Rows
  BY RowsAreNumbers, RemoteAssumption DEF ExpiredRows
<1>2. s.page = d.page /\ [s EXCEPT !.cursor = Min(S)] = [d EXCEPT !.cursor = Min(S)]
  BY DEF Drains
<1>3. Min(S) \in S
  BY <1>1, MinOfNaturals
<1>4. Min(S) \in Rows => d.page[Min(S)] = "DELIVERED"
  BY <1>1, <1>2, <1>3 DEF ExpiredRows
<1>5. CleanupPage(d) = Validate([s EXCEPT !.cursor = Min(S)], "guarding")
  BY DEF CleanupPage
<1> HIDE DEF S, s
<1> QED
  BY <1>2, <1>4, <1>5, GuardingKeeping

LEMMA NextRowKeeping ==
  ASSUME NEW d, NEW C, Ready(d, C)
  PROVE  Keeping(NextRow(d), C)
<1>0. d \in Drains /\ Settled(d, C) /\ d.cursor \in Nat
  BY DEF Ready, Drains
<1>1. CASE ToProcess(d) = {}
  BY <1>0, <1>1, CleanupPageKeeping DEF NextRow
<1>2. CASE ToProcess(d) # {}
  <2> DEFINE n == Min(ToProcess(d))
             f == [d EXCEPT !.cursor = n]
             e == [f EXCEPT !.pc = "checking"]
  <2>1. n \in ToProcess(d) /\ \A r \in ToProcess(d) : n <= r
    BY <1>2, RowsAreNumbers, MinOfNaturals DEF ToProcess
  <2>2. NextRow(d) = Validate(f, "checking")
    BY <1>2 DEF NextRow
  <2>3. n \in Nat /\ ~ d.blocked /\ \A r \in Rows : r \in Nat
    BY <2>1, RowsAreNumbers DEF ToProcess
  <2> HIDE DEF n
  <2>4. e.pc = "checking" /\ e.cursor = n /\ e.page = d.page /\ f.known = d.known
    BY <1>0 DEF Drains
  <2>5. Passed(d, n, C)
    <3> SUFFICES ASSUME NEW r \in Rows, r < n, d.page[r] = "TO_DELIVER"
                 PROVE  SignalOf[r] \in C
      BY DEF Passed
    <3>1. r <= d.cursor
      BY <1>0, <2>1, <2>3 DEF ToProcess
    <3> QED
      BY <2>3, <3>1 DEF Ready
  <2>6. Keeping(e, C)
    BY <1>0, <2>4, <2>5 DEF Keeping, Settled, Passed
  <2>7. Validate(f, "checking") = IF d.known THEN e ELSE IdleDrain
    BY <2>4 DEF Validate
  <2> HIDE DEF e, f
  <2> QED
    BY <2>2, <2>6, <2>7, IdleKeeping DEF Resting
<1> QED
  BY <1>1, <1>2

\* The drain d is at a row of its page that it may only pass when it is settled.
AtPending(d, C) ==
  /\ d \in Drains /\ d.pc \in AtRow /\ d.cursor \in Rows /\ Keeping(d, C)

\* It goes on to the next row when this one is settled or its target blocked.
LEMMA ReadyKeeping ==
  ASSUME NEW d, NEW C, AtPending(d, C), NEW e \in Drains, e.page = d.page, e.cursor = d.cursor,
         e.blocked \/ SignalOf[d.cursor] \in C
  PROVE  Keeping(NextRow(e), C)
<1>1. Settled(e, C) /\ Passed(d, d.cursor, C)
  BY DEF AtPending, Keeping, Settled
<1>2. \A r \in Rows : r \in Nat /\ d.cursor \in Nat
  BY RowsAreNumbers DEF AtPending
<1>3. ASSUME ~ e.blocked, NEW r \in Rows, r <= e.cursor, e.page[r] = "TO_DELIVER"
      PROVE  SignalOf[r] \in C
  BY <1>1, <1>2, <1>3 DEF Passed
<1>4. Ready(e, C)
  BY <1>1, <1>3 DEF Ready
<1> QED
  BY <1>4, NextRowKeeping

\* It stays at its row for another attempt to acknowledge it.
LEMMA AgainKeeping ==
  ASSUME NEW d, NEW C, AtPending(d, C)
  PROVE  Keeping(AcknowledgeAgain(d), C)
<1>0. d \in Drains
  BY DEF AtPending
<1>1. CASE d.attempt + 1 < MaxAttempts
  <2> DEFINE f == [d EXCEPT !.attempt = @ + 1]
             e == [f EXCEPT !.pc = "fencing"]
  <2>1. e.pc = "fencing" /\ e.cursor = d.cursor /\ e.page = d.page /\ f.known = d.known
    BY <1>0 DEF Drains
  <2>2. Keeping(e, C)
    BY <2>1 DEF AtPending, Keeping, Settled, Passed
  <2>3. AcknowledgeAgain(d) = IF d.known THEN e ELSE IdleDrain
    BY <1>1, <2>1 DEF AcknowledgeAgain, Validate
  <2> HIDE DEF e, f
  <2> QED
    BY <2>2, <2>3, IdleKeeping DEF Resting
<1>2. CASE ~ (d.attempt + 1 < MaxAttempts)
  <2> DEFINE e == [d EXCEPT !.attempt = 0, !.blocked = TRUE]
  <2>1. e \in Drains /\ e.page = d.page /\ e.cursor = d.cursor /\ e.blocked
    BY <1>0 DEF Drains
  <2>2. AcknowledgeAgain(d) = NextRow(e)
    BY <1>2 DEF AcknowledgeAgain
  <2> HIDE DEF e
  <2> QED
    BY <2>1, <2>2, ReadyKeeping
<1> QED
  BY <1>1, <1>2

LEMMA AckedKeeping ==
  ASSUME NEW d, NEW C, AtPending(d, C), SignalOf[d.cursor] \in C
  PROVE  Keeping(Acknowledged(d), C)
<1> DEFINE e == [d EXCEPT !.attempt = 0, !.progress = TRUE]
<1>1. e \in Drains /\ e.page = d.page /\ e.cursor = d.cursor
  BY DEF Drains, AtPending
<1>2. Acknowledged(d) = NextRow(e)
  BY DEF Acknowledged
<1> HIDE DEF e
<1> QED
  BY <1>1, <1>2, ReadyKeeping

-----------------------------------------------------------------------------
LEMMA KeepingMore ==
  ASSUME NEW d, NEW C, NEW D, C \subseteq D, Keeping(d, C)
  PROVE  Keeping(d, D)
BY DEF Keeping, Settled, Passed

\* A drain goes on as e, perhaps after a commit.
LEMMA ContinueLoss ==
  ASSUME RemoteInv, LossInv, NEW w \in Workers, NEW e, Continue(w, e), Keeping(e, committed'),
         committed \subseteq committed', recent' \in [Workers -> SUBSET committed']
  PROVE  LossInv'
<1>1. /\ drain'[w] = e /\ answer'[w] = NoAnswer
      /\ \A v \in Workers \ {w} : drain'[v] = drain[v] /\ answer'[v] = answer[v]
      /\ messages' = messages /\ late' = late /\ received' = received
  BY DEF Continue, stateVars, RemoteInv, DrainsInv
<1>2. NothingLost'
  BY <1>1 DEF LossInv, NothingLost
<1>3. \A v \in Workers : Keeping(drain'[v], committed')
  BY <1>1, KeepingMore DEF LossInv
<1>4. \A v \in Workers : answer'[v].kind = "page" =>
        \A r \in Rows : answer'[v].rows[r] = "DELIVERED" => SignalOf[r] \in committed'
  BY <1>1 DEF LossInv, NoAnswer
<1> QED
  BY <1>1, <1>2, <1>3, <1>4 DEF LossInv

\* The same for a step that commits nothing and remembers nothing new.
LEMMA ContinueLossPlain ==
  ASSUME RemoteInv, LossInv, NEW w \in Workers, NEW e, Continue(w, e), Keeping(e, committed),
         UNCHANGED <<recent, committed>>
  PROVE  LossInv'
BY ContinueLoss DEF LossInv

\* What the invariants say of the drain of w.
LEMMA DrainLoss ==
  ASSUME RemoteInv, LossInv, NEW w \in Workers
  PROVE  /\ drain[w] \in Drains /\ Keeping(drain[w], committed) /\ Settled(drain[w], committed)
         /\ drain[w].pc \in AtRow => AtPending(drain[w], committed)
BY DEF RemoteInv, DrainsInv, DrainInv, LossInv, AtPending, Keeping

LEMMA PickedUpLoss ==
  ASSUME RemoteInv, LossInv, NEW w \in Workers, PickedUp(w)
  PROVE  LossInv'
<1>1. CASE answer[w].kind = "picked"
  <2> DEFINE t == answer[w].when
             e == [IdleDrain EXCEPT !.pc = "reading", !.known = TRUE, !.session = t]
  <2>1. e.pc = "reading" /\ e.cursor = 0 /\ e.page = NoRows
    BY DEF IdleDrain
  <2>2. Continue(w, e) /\ UNCHANGED <<recent, committed>>
    BY <1>1 DEF PickedUp
  <2> HIDE DEF e
  <2>3. Keeping(e, committed)
    BY <2>1, AwayKeeping DEF Settled, NoRows
  <2> QED
    BY <2>2, <2>3, ContinueLossPlain
<1>2. CASE answer[w].kind # "picked"
  <2>1. Continue(w, IdleDrain) /\ UNCHANGED <<recent, committed>>
    BY <1>2 DEF PickedUp
  <2> QED
    BY <2>1, IdleKeeping, ContinueLossPlain DEF Resting
<1> QED
  BY <1>1, <1>2

LEMMA PageReadLoss ==
  ASSUME RemoteInv, LossInv, NEW w \in Workers, PageRead(w)
  PROVE  LossInv'
<1> DEFINE d == drain[w]
           a == answer[w]
<1>1. /\ d.pc = "reading" /\ a # NoAnswer /\ UNCHANGED <<recent, committed>>
      /\ d \in Drains /\ Settled(d, committed) /\ d.cursor = 0
  BY DrainLoss DEF PageRead, Answered, Keeping
<1>2. CASE a = Failed \/ a.rows = NoRows
  <2>1. Continue(w, Finish(d))
    BY <1>2 DEF PageRead
  <2> QED
    BY <1>1, <2>1, FinishKeeping, ContinueLossPlain
<1>3. CASE a # Failed /\ a.rows # NoRows
  <2> DEFINE e == [d EXCEPT !.page = a.rows]
  <2>1. PageAnswer(d, a)
    BY <1>1, <1>3 DEF RemoteInv, DrainsInv, AnswerInv, Unanswered
  <2>2. \A r \in Rows : a.rows[r] = "DELIVERED" => SignalOf[r] \in committed
    BY <2>1 DEF LossInv, PageAnswer
  <2>3. e \in Drains /\ e.page = a.rows /\ e.cursor = 0
    BY <1>1, <2>1 DEF Drains, PageAnswer
  <2>4. \A r \in Rows : ~ (r <= 0)
    BY RowsAreNumbers, RemoteAssumption
  <2>5. Ready(e, committed)
    BY <2>2, <2>3, <2>4 DEF Ready, Settled
  <2>6. Continue(w, NextRow(e))
    BY <1>3 DEF PageRead
  <2> HIDE DEF e
  <2> QED
    BY <1>1, <2>5, <2>6, NextRowKeeping, ContinueLossPlain
<1> QED
  BY <1>2, <1>3

LEMMA CheckedLoss ==
  ASSUME RemoteInv, LossInv, NEW w \in Workers, Checked(w)
  PROVE  LossInv'
<1> DEFINE d == drain[w]
           a == answer[w]
<1>1. d.pc = "checking" /\ a # NoAnswer /\ UNCHANGED <<recent, committed>>
  BY DEF Checked, Answered
<1>2. AtPending(d, committed) /\ d \in Drains /\ Settled(d, committed)
  BY <1>1, DrainLoss DEF AtRow
<1>3. CASE ~ Owns(w, d, a)
  <2>1. a.kind \in {"picked", "held", "error"}
    BY <1>1, SessionAnswered DEF Picks
  <2>2. Continue(w, Lost(a, d))
    BY <1>3 DEF Checked
  <2> QED
    BY <1>1, <1>2, <2>1, <2>2, LostKeeping, ContinueLossPlain
<1>4. CASE Owns(w, d, a) /\ Duplicate(w, d)
  <2> DEFINE e == [d EXCEPT !.pc = "removing"]
  <2>1. SignalOf[d.cursor] \in committed
    BY <1>1, <1>2, <1>4 DEF Duplicate, LossInv, AtPending, Keeping, Settled, Passed
  <2>2. e.pc = "removing" /\ e.cursor = d.cursor /\ e.page = d.page
    BY <1>2 DEF Drains
  <2>3. Keeping(e, committed)
    BY <1>2, <2>1, <2>2 DEF AtPending, Keeping, Settled, Passed
  <2>4. Continue(w, e)
    BY <1>4 DEF Checked
  <2> HIDE DEF e
  <2> QED
    BY <1>1, <2>3, <2>4, ContinueLossPlain
<1>5. CASE Owns(w, d, a) /\ ~ Duplicate(w, d)
  <2> DEFINE f == [d EXCEPT !.done[d.cursor] = @ + 1]
             e == [f EXCEPT !.pc = "fencing"]
  <2>1. e.pc = "fencing" /\ e.cursor = d.cursor /\ e.page = d.page
    BY <1>2 DEF Drains
  <2>2. Keeping(e, committed)
    BY <1>2, <2>1 DEF AtPending, Keeping, Settled, Passed
  <2>3. Continue(w, IF f.known THEN e ELSE IdleDrain)
    BY <1>5 DEF Checked, Validate
  <2>4. Keeping(IF f.known THEN e ELSE IdleDrain, committed)
    BY <2>2, IdleKeeping DEF Resting
  <2> HIDE DEF e, f
  <2> QED
    BY <1>1, <2>3, <2>4, ContinueLossPlain
<1> QED
  BY <1>3, <1>4, <1>5

LEMMA DuplicateRemovedLoss ==
  ASSUME RemoteInv, LossInv, NEW w \in Workers, DuplicateRemoved(w)
  PROVE  LossInv'
<1> DEFINE d == drain[w]
           e == [d EXCEPT !.blocked = @ \/ answer[w] = Failed]
<1>1. d.pc = "removing" /\ Continue(w, NextRow(e)) /\ UNCHANGED <<recent, committed>>
  BY DEF DuplicateRemoved, Answered
<1>2. AtPending(d, committed) /\ d \in Drains /\ SignalOf[d.cursor] \in committed
  BY <1>1, DrainLoss DEF AtRow, Keeping
<1>3. e \in Drains /\ e.page = d.page /\ e.cursor = d.cursor
  BY <1>2 DEF Drains
<1> HIDE DEF e
<1> QED
  BY <1>1, <1>2, <1>3, ReadyKeeping, ContinueLossPlain

LEMMA FencedLoss ==
  ASSUME RemoteInv, LossInv, NEW w \in Workers, Fenced(w)
  PROVE  LossInv'
<1> DEFINE d == drain[w]
           a == answer[w]
<1>1. d.pc = "fencing" /\ a # NoAnswer /\ UNCHANGED recent
  BY DEF Fenced, Answered
<1>2. AtPending(d, committed) /\ d \in Drains /\ Settled(d, committed)
  BY <1>1, DrainLoss DEF AtRow
<1>3. CASE ~ Owns(w, d, a)
  <2>1. a.kind \in {"picked", "held", "error"}
    BY <1>1, SessionAnswered DEF Picks
  <2>2. Continue(w, Lost(a, d)) /\ UNCHANGED committed
    BY <1>3 DEF Fenced
  <2> QED
    BY <1>1, <1>2, <2>1, <2>2, LostKeeping, ContinueLossPlain
<1>4. CASE Owns(w, d, a)
  <2> DEFINE e == [d EXCEPT !.pc = "finding"]
  <2>1. Continue(w, e) /\ committed' = committed \union {SignalOf[d.cursor]}
    BY <1>4 DEF Fenced
  <2>2. e.pc = "finding" /\ e.cursor = d.cursor /\ e.page = d.page
    BY <1>2 DEF Drains
  <2>3. Keeping(e, committed')
    BY <1>2, <2>1, <2>2 DEF AtPending, Keeping, Settled, Passed, AtRow
  <2>4. recent' \in [Workers -> SUBSET committed']
    BY <1>1, <2>1 DEF LossInv
  <2> HIDE DEF e
  <2> QED
    BY <2>1, <2>3, <2>4, ContinueLoss
<1> QED
  BY <1>3, <1>4

LEMMA AcknowledgingLoss ==
  ASSUME RemoteInv, LossInv, NEW w \in Workers, Found(w) \/ Written(w)
  PROVE  LossInv'
<1> DEFINE d == drain[w]
<1>1. d.pc \in {"finding", "writing"} /\ committed' = committed
  BY DEF Found, Written, Answered
<1>2. AtPending(d, committed) /\ d \in Drains /\ SignalOf[d.cursor] \in committed
  BY <1>1, DrainLoss DEF AtRow, Keeping
<1>3. \/ Continue(w, Acknowledged(d)) /\ Remember(w)
      \/ Continue(w, AcknowledgeAgain(d)) /\ UNCHANGED recent
      \/ Continue(w, [d EXCEPT !.pc = "writing"]) /\ UNCHANGED recent
  BY DEF Found, Written
<1>4. CASE Continue(w, Acknowledged(d)) /\ Remember(w)
  <2>1. recent' \in [Workers -> SUBSET committed]
    BY <1>2, <1>4 DEF Remember, LossInv
  <2> QED
    BY <1>1, <1>2, <1>4, <2>1, AckedKeeping, ContinueLoss
<1>5. CASE Continue(w, AcknowledgeAgain(d)) /\ UNCHANGED recent
  BY <1>1, <1>2, <1>5, AgainKeeping, ContinueLossPlain
<1>6. CASE Continue(w, [d EXCEPT !.pc = "writing"]) /\ UNCHANGED recent
  <2> DEFINE e == [d EXCEPT !.pc = "writing"]
  <2>1. e.pc = "writing" /\ e.cursor = d.cursor /\ e.page = d.page
    BY <1>2 DEF Drains
  <2>2. Keeping(e, committed)
    BY <1>2, <2>1 DEF AtPending, Keeping, Settled, Passed
  <2> HIDE DEF e
  <2> QED
    BY <1>1, <1>6, <2>2, ContinueLossPlain DEF e
<1> QED
  BY <1>3, <1>4, <1>5, <1>6

LEMMA GuardedLoss ==
  ASSUME RemoteInv, LossInv, NEW w \in Workers, Guarded(w)
  PROVE  LossInv'
<1> DEFINE d == drain[w]
           a == answer[w]
<1>1. /\ d.pc = "guarding" /\ a # NoAnswer /\ UNCHANGED <<recent, committed>>
      /\ d \in Drains /\ Settled(d, committed) /\ Keeping(d, committed)
  BY DrainLoss DEF Guarded, Answered
<1>2. CASE ~ Owns(w, d, a)
  <2>1. a.kind \in {"picked", "held", "error"}
    BY <1>1, SessionAnswered DEF Picks
  <2>2. Continue(w, Lost(a, d))
    BY <1>2 DEF Guarded
  <2> QED
    BY <1>1, <2>1, <2>2, LostKeeping, ContinueLossPlain
<1>3. CASE Owns(w, d, a) /\ d.cursor \in Rows
  <2> DEFINE e == [d EXCEPT !.pc = "expunging"]
  <2>1. e.pc = "expunging" /\ e.cursor = d.cursor /\ e.page = d.page
    BY <1>1 DEF Drains
  <2>2. Keeping(e, committed)
    BY <1>1, <1>3, <2>1 DEF Keeping, Settled, AtRow
  <2>3. Continue(w, e)
    BY <1>3 DEF Guarded
  <2> HIDE DEF e
  <2> QED
    BY <1>1, <2>2, <2>3, ContinueLossPlain
<1>4. CASE Owns(w, d, a) /\ d.cursor \notin Rows
  <2>1. Continue(w, EndPage(d))
    BY <1>4 DEF Guarded
  <2> QED
    BY <1>1, <2>1, EndPageKeeping, ContinueLossPlain
<1> QED
  BY <1>2, <1>3, <1>4

LEMMA ExpungedLoss ==
  ASSUME RemoteInv, LossInv, NEW w \in Workers, Expunged(w)
  PROVE  LossInv'
<1> DEFINE d == drain[w]
           S == ExpiredRows(d)
<1>1. UNCHANGED <<recent, committed>> /\ d \in Drains /\ Settled(d, committed)
  BY DrainLoss DEF Expunged
<1>2. S \in SUBSET Nat
  BY RowsAreNumbers DEF ExpiredRows
<1>3. S # {} => Min(S) \in S
  BY <1>2, MinOfNaturals
<1>4. S # {} => d.page[Min(S)] = "DELIVERED"
  BY <1>3 DEF ExpiredRows
<1>5. \/ Continue(w, Finish(d)) \/ Continue(w, EndPage(d))
      \/ S # {} /\ Continue(w, Validate([d EXCEPT !.cursor = Min(S)], "guarding"))
  BY DEF Expunged
<1> HIDE DEF S
<1> QED
  BY <1>1, <1>4, <1>5, FinishKeeping, EndPageKeeping, GuardingKeeping, ContinueLossPlain

LEMMA StepLoss ==
  ASSUME RemoteInv, LossInv, NEW w \in Workers, Begin(w) \/ Step(w)
  PROVE  LossInv'
<1>1. CASE Begin(w)
  <2>1. Keeping([IdleDrain EXCEPT !.pc = "picking"], committed)
    BY IdleKeeping DEF Resting
  <2> QED
    BY <1>1, <2>1, ContinueLossPlain DEF Begin
<1>2. CASE Released(w)
  BY <1>2, IdleKeeping, ContinueLossPlain DEF Released, Resting
<1> QED
  BY <1>1, <1>2, PickedUpLoss, PageReadLoss, CheckedLoss, DuplicateRemovedLoss, FencedLoss,
     AcknowledgingLoss, GuardedLoss, ExpungedLoss DEF Step

-----------------------------------------------------------------------------
\* What the server does to a row that is not settled leaves it as it is.
Harmless ==
  \A r \in Rows : \/ messages'[r] = messages[r]
                  \/ messages'[r] # "TO_DELIVER" /\ SignalOf[r] \in committed

\* A mutation that a drain may wait for, or may have abandoned.
Permitted(op, r) == op \in {"writing"} \union Removes => SignalOf[r] \in committed

LEMMA PerformLoss ==
  ASSUME NEW op \in Calls, NEW w \in Workers, NEW r, Permitted(op, r), Perform(op, w, r)
  PROVE  Harmless
<1>1. CASE op \in Picks \union Releases \union {"reading", "finding"}
  <2>1. messages' = messages
    BY <1>1 DEF Perform, Picks, Releases, Removes, ExecutePick, ExecuteRelease, SetSession,
                ReleaseAll, stateVars
  <2> QED
    BY <2>1 DEF Harmless
<1>2. CASE op \in Removes
  <2>1. messages' = [q \in Rows |-> IF q \in {r} THEN "absent" ELSE messages[q]]
    BY <1>2 DEF Perform, Picks, Releases, Removes, ExecuteRemove, Remove
  <2> QED
    BY <1>2, <2>1 DEF Harmless, Permitted
<1>3. CASE op = "writing"
  <2>1. messages' = [q \in Rows |-> IF q \in {r} THEN "DELIVERED" ELSE messages[q]]
    BY <1>3 DEF Perform, Picks, Releases, Removes, ExecuteWrite, Write
  <2> QED
    BY <1>3, <2>1 DEF Harmless, Permitted
<1> QED
  BY <1>1, <1>2, <1>3 DEF Calls

\* The call that the drain of w waits for.
LEMMA CallPermitted ==
  ASSUME RemoteInv, LossInv, NEW w \in Workers
  PROVE  Permitted(drain[w].pc, drain[w].cursor)
BY DrainLoss DEF RemoteInv, DrainsInv, DrainInv, Permitted, Keeping, Settled, Removes

LEMMA HarmlessRows ==
  ASSUME LossInv, Harmless, UNCHANGED <<received, committed>>
  PROVE  NothingLost' /\ \A r \in Rows : messages'[r] = "DELIVERED" => SignalOf[r] \in committed'
<1>1. \A r \in Rows : messages'[r] = "DELIVERED" => SignalOf[r] \in committed'
  BY DEF LossInv, Harmless
<1>2. NothingLost'
  BY DEF LossInv, NothingLost, Harmless
<1> QED
  BY <1>1, <1>2

LEMMA ExecuteLoss ==
  ASSUME RemoteInv, LossInv, NEW w \in Workers, Execute(w)
  PROVE  LossInv'
<1> DEFINE d == drain[w]
           a == AnswerTo(d.pc, w, d.cursor)
<1>1. /\ d.pc \in Calls /\ Perform(d.pc, w, d.cursor) /\ answer' = [answer EXCEPT ![w] = a]
      /\ UNCHANGED <<drain, late, recent, committed, received>>
  BY DEF Execute
<1>2. Harmless
  BY <1>1, CallPermitted, PerformLoss
<1>3. a.kind = "page" => a.rows = messages
  <2>1. CASE d.pc \in Picks
    <3>1. a = PickAnswer(w)
      BY <2>1 DEF AnswerTo, Picks
    <3> QED
      BY <3>1 DEF PickAnswer
  <2>2. CASE d.pc \notin Picks
    BY <2>2 DEF AnswerTo, Done
  <2> QED
    BY <2>1, <2>2
<1>4. a.kind = "page" => \A r \in Rows : a.rows[r] = "DELIVERED" => SignalOf[r] \in committed
  BY <1>3 DEF LossInv
<1> HIDE DEF a
<1>5. \A v \in Workers : answer'[v].kind = "page" =>
        \A r \in Rows : answer'[v].rows[r] = "DELIVERED" => SignalOf[r] \in committed
  BY <1>1, <1>4 DEF LossInv, RemoteInv, DrainsInv
<1> QED
  BY <1>1, <1>2, <1>5, HarmlessRows DEF LossInv

LEMMA ExecuteLateLoss ==
  ASSUME RemoteInv, LossInv, ExecuteLate
  PROVE  LossInv'
<1>1. PICK c \in late : Perform(c.op, c.worker, c.row) /\ late' = late \ {c}
  BY DEF ExecuteLate
<1>2. c.op \in Calls /\ c.worker \in Workers
  BY DEF RemoteInv
<1>3. Permitted(c.op, c.row)
  BY DEF LossInv, Permitted
<1>4. Harmless
  BY <1>1, <1>2, <1>3, PerformLoss
<1> QED
  BY <1>1, <1>4, HarmlessRows DEF LossInv, ExecuteLate

LEMMA AbandonLoss ==
  ASSUME RemoteInv, LossInv, NEW w \in Workers, Abandon(w)
  PROVE  \A c \in late' : c.op \in {"writing"} \union Removes => SignalOf[c.row] \in committed
BY CallPermitted DEF Abandon, LossInv, Permitted

LEMMA TimeOutLoss ==
  ASSUME RemoteInv, LossInv, NEW w \in Workers, TimeOut(w)
  PROVE  LossInv'
<1>1. /\ answer' = [answer EXCEPT ![w] = Failed]
      /\ UNCHANGED <<messages, drain, recent, committed, received>>
  BY DEF TimeOut, stateVars
<1>2. \A c \in late' : c.op \in {"writing"} \union Removes => SignalOf[c.row] \in committed
  BY AbandonLoss DEF TimeOut
<1>3. \A v \in Workers : answer'[v].kind = "page" => answer'[v] = answer[v]
  BY <1>1 DEF Failed, RemoteInv, DrainsInv
<1>4. NothingLost'
  BY <1>1 DEF LossInv, NothingLost
<1> QED
  BY <1>1, <1>2, <1>3, <1>4 DEF LossInv

LEMMA CrashLoss ==
  ASSUME RemoteInv, LossInv, NEW w \in Workers, Crash(w)
  PROVE  LossInv'
<1> DEFINE e == [IdleDrain EXCEPT !.pc = "dead"]
<1>1. /\ drain' = [drain EXCEPT ![w] = e] /\ answer' = [answer EXCEPT ![w] = NoAnswer]
      /\ recent' = [recent EXCEPT ![w] = {}] /\ UNCHANGED <<messages, committed, received>>
  BY DEF Crash, stateVars
<1>2. \A c \in late' : c.op \in {"writing"} \union Removes => SignalOf[c.row] \in committed
  BY AbandonLoss DEF Crash
<1>3. Keeping(e, committed)
  BY IdleKeeping DEF Resting
<1> HIDE DEF e
<1>4. \A v \in Workers : Keeping(drain'[v], committed')
  BY <1>1, <1>3 DEF LossInv, RemoteInv, DrainsInv
<1>5. \A v \in Workers : answer'[v].kind = "page" => answer'[v] = answer[v]
  BY <1>1 DEF NoAnswer, RemoteInv, DrainsInv
<1>6. NothingLost'
  BY <1>1 DEF LossInv, NothingLost
<1> QED
  BY <1>1, <1>2, <1>4, <1>5, <1>6 DEF LossInv

LEMMA ReconcileLoss ==
  ASSUME RemoteInv, LossInv, NEW w \in Workers, Reconcile(w)
  PROVE  LossInv'
<1> DEFINE e == [drain[w] EXCEPT !.known = FALSE]
<1>1. /\ drain' = [drain EXCEPT ![w].known = FALSE]
      /\ UNCHANGED <<messages, answer, late, recent, committed, received>>
  BY DEF Reconcile, stateVars
<1>2. drain[w] \in Drains /\ Keeping(drain[w], committed)
  BY DrainLoss
<1>3. e.pc = drain[w].pc /\ e.cursor = drain[w].cursor /\ e.page = drain[w].page
  BY <1>2 DEF Drains
<1>4. Keeping(e, committed)
  BY <1>2, <1>3 DEF Keeping, Settled, Passed
<1>5. \A v \in Workers : drain'[v] = IF v = w THEN e ELSE drain[v]
  BY <1>1, <1>2 DEF Drains, RemoteInv, DrainsInv
<1> HIDE DEF e
<1>6. \A v \in Workers : Keeping(drain'[v], committed')
  BY <1>1, <1>4, <1>5 DEF LossInv
<1>7. NothingLost'
  BY <1>1 DEF LossInv, NothingLost
<1> QED
  BY <1>1, <1>6, <1>7 DEF LossInv

LEMMA ReceiveLoss ==
  ASSUME LossInv, NEW r \in Rows, Receive(r)
  PROVE  LossInv'
<1>1. /\ messages' = [q \in Rows |-> IF q \in {r} THEN "TO_DELIVER" ELSE messages[q]]
      /\ received' = received \union {r}
      /\ UNCHANGED <<drain, answer, late, recent, committed>>
  BY DEF Receive, Write, netVars
<1>2. NothingLost'
  BY <1>1 DEF LossInv, NothingLost
<1> QED
  BY <1>1, <1>2 DEF LossInv

LEMMA OtherwiseLoss ==
  ASSUME LossInv, UNCHANGED <<messages, drain, answer, late, recent, committed, received>>
  PROVE  LossInv'
<1>1. NothingLost'
  BY DEF LossInv, NothingLost
<1> QED
  BY <1>1 DEF LossInv

LEMMA NextLoss ==
  ASSUME RemoteInv, LossInv, [Next]_vars
  PROVE  LossInv'
<1>1. CASE Tick \/ ReleaseExpired \/ UNCHANGED vars
  BY <1>1, OtherwiseLoss DEF Tick, ReleaseExpired, ReleaseAll, vars, stateVars, netVars
<1> QED
  BY <1>1, StepLoss, ExecuteLoss, ReconcileLoss, TimeOutLoss, CrashLoss, ReceiveLoss,
     ExecuteLateLoss DEF Next

\* No accepted signal vanishes, for any number of workers and rows, any rows
\* that share a signal, any number of lost or late calls and of crashes: a row
\* is removed or written as delivered only when its signal's effects have been
\* committed (isDuplicate, markDelivered, the clean-up of a page).
THEOREM NothingIsLost == Spec => []NothingLost
<1>1. Init => LossInv
  <2> SUFFICES ASSUME Init
               PROVE  LossInv
    OBVIOUS
  <2>1. Keeping(IdleDrain, committed)
    BY IdleKeeping DEF Resting
  <2> QED
    BY <2>1 DEF Init, StateInit, LossInv, NothingLost, NoAnswer
<1>2. LossInv => NothingLost
  BY DEF LossInv
<1>3. RemoteInv /\ LossInv /\ [Next]_vars => LossInv'
  BY NextLoss
<1> QED
  BY <1>1, <1>2, <1>3, RemoteInvariance, PTL DEF Spec
=============================================================================
