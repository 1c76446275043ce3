-------------------------- MODULE IntegrationBroker --------------------------
(***************************************************************************)
(* The integration brokers of the bounded contexts of one process, over    *)
(* the in-memory message transport.  A context announces itself and the    *)
(* external event types it wants; the others keep one publisher per wanted *)
(* type, which exports their own events of it.  A publication is delivered *)
(* to the subscribers one after the other and waits for each: for the      *)
(* reply to an online frame, for the transition a wanted frame causes, for *)
(* the import of an event through the receiver's event bus, a FIFO queue.  *)
(***************************************************************************)
EXTENDS Naturals, Sequences, FiniteSets, SequencesExt

CONSTANTS
  Contexts,   \* bounded contexts, whose system contexts take no part
  Types,      \* event types
  Wants,      \* context -> the external event types it consumes
  Emits,      \* context -> the types of the events it posts itself
  MaxPosts,   \* bound: events posted
  MaxFaults,  \* bound: imports that fail
  MaxRetries  \* bound: close attempts after a failed one

ASSUME IntegrationAssumption ==
  /\ Wants \in [Contexts -> SUBSET Types] /\ Emits \in [Contexts -> SUBSET Types]
  /\ MaxPosts \in Nat /\ MaxFaults \in Nat /\ MaxRetries \in Nat
  /\ IsFiniteSet(Contexts) /\ IsFiniteSet(Types)
  /\ Contexts \intersect {"none", "open", "close"} = {}
  /\ Types \intersect {"status", "wanted"} = {}

VARIABLES
  phase,      \* context -> where its broker's open() or close() stands
  withdrawn,  \* contexts that have published the empty wanted set
  leaked,     \* contexts that retain a transport publisher that can never close
  group,      \* channel -> its subscribers, in the order they attached
  frames,     \* publications under way
  wanted,     \* context -> origin -> the types the origin wants (wantedByOrigin)
  publisher,  \* context -> type -> its domestic publisher
  spoiled,    \* context -> types with a failed accepted publication
  queue,      \* context -> wanted sets to apply (#transition)
  change,     \* context -> the transition under way
  bus,        \* context -> the work of its event bus
  due,        \* events to be imported: number, producer, consumer
  posts, faults, retries

lifeVars   == <<phase, withdrawn, leaked>>
demandVars == <<wanted, publisher, queue, change>>
boundVars  == <<posts, faults, retries>>
vars == <<lifeVars, group, frames, demandVars, spoiled, bus, due, boundVars>>

Channels == {"status", "wanted"} \union Types
Nobody == "none"

\* The schemas the event bus of c admits.
Known(c) == Emits[c] \union Wants[c]

NoChange == [stage |-> "none", left |-> {}, removed |-> {}, failed |-> FALSE]

Init ==
  /\ phase = [c \in Contexts |-> "new"]
  /\ withdrawn = {} /\ leaked = {}
  /\ group = [ch \in Channels |-> <<>>]
  /\ frames = {}
  /\ wanted = [c \in Contexts |-> [o \in Contexts |-> {}]]
  /\ publisher = [c \in Contexts |-> [t \in Types |-> "none"]]
  /\ spoiled = [c \in Contexts |-> {}]
  /\ queue = [c \in Contexts |-> <<>>]
  /\ change = [c \in Contexts |-> NoChange]
  /\ bus = [c \in Contexts |-> <<>>]
  /\ due = {} /\ posts = 0 /\ faults = 0 /\ retries = 0

-----------------------------------------------------------------------------
(* Publications.                                                           *)

\* A group without a context, which it has at most once.
Without(s, c) ==
  IF c \in ToSet(s) THEN RemoveAt(s, CHOOSE i \in DOMAIN s : s[i] = c) ELSE s

\* A frame about to be dispatched to the current subscribers of its channel;
\* frames of its own origin are ignored.
Frame(kind, from, cause, types, event, ch) ==
  [kind |-> kind, from |-> from, cause |-> cause, types |-> types, event |-> event,
   left |-> Without(group[ch], from), at |-> Nobody, ok |-> TRUE]

OnlineFrame(c)        == Frame("online", c, "open", {}, 0, "status")
WantedFrame(c, cause) ==
  Frame("wanted", c, cause, IF cause = "close" THEN {} ELSE Wants[c], 0, "wanted")
EventFrame(c, item)   ==
  Frame("event", c, "open", {item.type}, item.event, item.type)

Settled(f) == f.at = Nobody /\ (~ f.ok \/ f.left = <<>>)
Resumed(f, ok) == [f EXCEPT !.at = Nobody, !.ok = ok]

\* The settled publication that c waits for.
Awaited(kind, c, cause) ==
  {f \in frames : f.kind = kind /\ f.from = c /\ f.cause = cause /\ Settled(f)}

\* A broker with subscribers that is not closed accepts callbacks.
Listening(c) == phase[c] \in {"attaching", "online", "announcing", "open"}

\* Callbacks that c has accepted and not settled.
Accepted(c) == {f \in frames : f.at = c}

Receive(f) ==
  LET r == Head(f.left)
      g == [f EXCEPT !.at = r, !.left = Tail(@)]
  IN
  /\ f.at = Nobody /\ ~ Settled(f)
  /\ \/ /\ ~ Listening(r)
        /\ frames' = (frames \ {f}) \union {[f EXCEPT !.left = Tail(@)]}
        /\ UNCHANGED <<queue, bus>>
     \/ /\ Listening(r) /\ f.kind = "online"
        /\ frames' = (frames \ {f}) \union {g, WantedFrame(r, f.from)}
        /\ UNCHANGED <<queue, bus>>
     \/ /\ Listening(r) /\ f.kind = "wanted"
        /\ frames' = (frames \ {f}) \union {g}
        /\ queue' = [queue EXCEPT ![r] = Append(@, g)]
        /\ UNCHANGED bus
     \/ /\ Listening(r) /\ f.kind = "event"
        /\ frames' = (frames \ {f}) \union {g}
        /\ bus' = [bus EXCEPT ![r] = Append(@, [step |-> "import", frame |-> g])]
        /\ UNCHANGED queue
  /\ UNCHANGED <<lifeVars, group, wanted, publisher, change, spoiled, due, boundVars>>

\* onOnline() has republished the wanted set of the receiver.
Replied(f) ==
  /\ f.kind = "online" /\ f.at # Nobody
  /\ \E g \in Awaited("wanted", f.at, f.from) :
       frames' = (frames \ {f, g}) \union {Resumed(f, g.ok)}
  /\ UNCHANGED <<lifeVars, group, demandVars, spoiled, bus, due, boundVars>>

-----------------------------------------------------------------------------
(* open().                                                                 *)

Attached(c, ch) == c \in ToSet(group[ch])

\* The channels to attach next: status, wanted, then one per external type.
NextChannels(c) ==
  IF ~ Attached(c, "status") THEN {"status"}
  ELSE IF ~ Attached(c, "wanted") THEN {"wanted"}
  ELSE {t \in Wants[c] : ~ Attached(c, t)}

Left(c) == [ch \in Channels |-> Without(group[ch], c)]

Open(c) ==
  /\ phase[c] = "new"
  /\ phase' = [phase EXCEPT ![c] = "attaching"]
  /\ UNCHANGED <<withdrawn, leaked, group, frames, demandVars, spoiled, bus, due,
                 boundVars>>

Attach(c) ==
  /\ phase[c] = "attaching"
  /\ \E ch \in NextChannels(c) : group' = [group EXCEPT ![ch] = Append(@, c)]
  /\ UNCHANGED <<lifeVars, frames, demandVars, spoiled, bus, due, boundVars>>

\* Mutant: the attachments are not awaited.
AnnounceEarly(c) ==
  /\ phase[c] = "attaching"
  /\ phase' = [phase EXCEPT ![c] = "online"]
  /\ frames' = frames \union {OnlineFrame(c)}
  /\ UNCHANGED <<withdrawn, leaked, group, demandVars, spoiled, bus, due, boundVars>>

Announce(c) ==
  /\ phase[c] = "attaching" /\ NextChannels(c) = {}
  /\ phase' = [phase EXCEPT ![c] = "online"]
  /\ frames' = frames \union {OnlineFrame(c)}
  /\ UNCHANGED <<withdrawn, leaked, group, demandVars, spoiled, bus, due, boundVars>>

\* The online publication has settled, then the wanted one.  Neither fails: a
\* full set of wanted types removes no publisher.
AnnounceWanted(c) ==
  /\ phase[c] = "online"
  /\ \E f \in Awaited("online", c, "open") :
       frames' = (frames \ {f}) \union {WantedFrame(c, "open")}
  /\ phase' = [phase EXCEPT ![c] = "announcing"]
  /\ UNCHANGED <<withdrawn, leaked, group, demandVars, spoiled, bus, due, boundVars>>

Ready(c) ==
  /\ phase[c] = "announcing"
  /\ \E f \in Awaited("wanted", c, "open") : frames' = frames \ {f}
  /\ phase' = [phase EXCEPT ![c] = "open"]
  /\ UNCHANGED <<withdrawn, leaked, group, demandVars, spoiled, bus, due, boundVars>>

-----------------------------------------------------------------------------
(* Domestic publishers.  A publisher is "on"; its close() fences it        *)
(* ("closing"), waits for the accepted publications and detaches it        *)
(* ("off"), or fails for good if one of them has failed ("stuck").         *)

At(c, step) == bus[c] # <<>> /\ Head(bus[c]).step = step

Publishing(c, t) == \E f \in frames : f.kind = "event" /\ f.from = c /\ f.types = {t}

\* One publisher after the other: t is next, or is being closed.
InTurn(c, t) == \A s \in Types \ {t} : publisher[c][s] # "closing"

\* A dispatch that has found the publisher will be refused.
StartsClosing(c, t) ==
  /\ publisher[c][t] = "on" /\ InTurn(c, t)
  /\ publisher' = [publisher EXCEPT ![c][t] = "closing"]
  /\ bus' = IF At(c, "found") /\ Head(bus[c]).type = t
            THEN [bus EXCEPT ![c][1].step = "fenced"] ELSE bus

EndsClosing(c, t, to) ==
  /\ publisher[c][t] = "closing" /\ ~ Publishing(c, t)
  /\ publisher' = [publisher EXCEPT ![c][t] = IF t \in spoiled[c] THEN "stuck" ELSE to]

-----------------------------------------------------------------------------
(* The transition that a wanted frame causes: #replaceWanted().            *)

\* Mutant: a withdrawal overlooks the other contexts.
ElsewhereNone(c, origin) == {}
Elsewhere(c, origin) == UNION {wanted[c][o] : o \in Contexts \ {origin}}

BeginChange(c) ==
  /\ change[c].stage = "none" /\ queue[c] # <<>>
  /\ LET f         == Head(queue[c])
         previous  == wanted[c][f.from]
         elsewhere == Elsewhere(c, f.from)
         add       == (f.types \intersect Known(c)) \ (previous \union elsewhere)
         removed   == {t \in previous \ (f.types \union elsewhere) : publisher[c][t] # "none"}
     IN /\ publisher' = [publisher EXCEPT ![c] =
                           [t \in Types |-> IF t \in add THEN "on" ELSE @[t]]]
        /\ change' = [change EXCEPT ![c] = [stage |-> "remove", left |-> removed,
                         removed |-> removed, failed |-> FALSE]]
  /\ UNCHANGED <<lifeVars, group, frames, wanted, queue, spoiled, bus, due, boundVars>>

RemoveStarts(c, t) ==
  /\ t \in change[c].left
  /\ StartsClosing(c, t)
  /\ UNCHANGED <<lifeVars, group, frames, wanted, queue, change, spoiled, due, boundVars>>

\* The publisher has closed, now or in an earlier transition, or failed to.
RemoveEnds(c, t) ==
  /\ t \in change[c].left
  /\ \/ EndsClosing(c, t, "off")
     \/ publisher[c][t] \in {"off", "stuck"} /\ InTurn(c, t) /\ UNCHANGED publisher
  /\ change' = [change EXCEPT ![c].left = @ \ {t},
                              ![c].failed = @ \/ publisher'[c][t] = "stuck"]
  /\ UNCHANGED <<lifeVars, group, frames, wanted, queue, spoiled, bus, due, boundVars>>

\* The transition settles, and with it the callback of its wanted frame.
SettleChange(c, ok) ==
  /\ change' = [change EXCEPT ![c] = NoChange]
  /\ queue' = [queue EXCEPT ![c] = Tail(@)]
  /\ frames' = (frames \ {Head(queue[c])}) \union {Resumed(Head(queue[c]), ok)}

Removed(c) == change[c].stage = "remove" /\ change[c].left = {}

\* Mutant: the wanted set is added to the recorded one.
CommitMerged(c) ==
  /\ Removed(c) /\ ~ change[c].failed
  /\ wanted' = [wanted EXCEPT ![c][Head(queue[c]).from] = @ \union Head(queue[c]).types]
  /\ publisher' = [publisher EXCEPT ![c] =
                     [t \in Types |-> IF t \in change[c].removed THEN "none" ELSE @[t]]]
  /\ SettleChange(c, TRUE)
  /\ UNCHANGED <<lifeVars, group, spoiled, bus, due, boundVars>>

Commit(c) ==
  /\ Removed(c) /\ ~ change[c].failed
  /\ wanted' = [wanted EXCEPT ![c][Head(queue[c]).from] = Head(queue[c]).types]
  /\ publisher' = [publisher EXCEPT ![c] =
                     [t \in Types |-> IF t \in change[c].removed THEN "none" ELSE @[t]]]
  /\ SettleChange(c, TRUE)
  /\ UNCHANGED <<lifeVars, group, spoiled, bus, due, boundVars>>

\* A removal failed: the recorded sets stay as they were.  A context wants all
\* its types or none, so there is nothing acquired to roll back.
FailChange(c) ==
  /\ Removed(c) /\ change[c].failed
  /\ SettleChange(c, FALSE)
  /\ UNCHANGED <<lifeVars, group, wanted, publisher, spoiled, bus, due, boundVars>>

-----------------------------------------------------------------------------
(* The event bus of a context.                                             *)

Done(c) == bus' = [bus EXCEPT ![c] = Tail(@)]

\* An application posts an event of its own to a ready context.
Post(c, t) ==
  /\ phase[c] = "open" /\ t \in Emits[c] /\ posts < MaxPosts
  /\ posts' = posts + 1
  /\ bus' = [bus EXCEPT ![c] = Append(@, [step |-> "queued", type |-> t, event |-> posts'])]
  /\ due' = due \union {<<posts', c, o>> :
                        o \in {d \in Contexts \ {c} : phase[d] = "open" /\ t \in Wants[d]}}
  /\ UNCHANGED <<lifeVars, group, frames, demandVars, spoiled, faults, retries>>

\* The dispatchers of the event are looked up before it is stored.
Find(c) ==
  /\ At(c, "queued")
  /\ LET pub == publisher[c][Head(bus[c]).type] IN
     \/ pub \in {"none", "off"} /\ Done(c)
     \/ pub = "on" /\ bus' = [bus EXCEPT ![c][1].step = "found"]
     \/ pub \in {"closing", "stuck"} /\ bus' = [bus EXCEPT ![c][1].step = "fenced"]
  /\ UNCHANGED <<lifeVars, group, frames, demandVars, spoiled, due, boundVars>>

Publish(c) ==
  /\ At(c, "found")
  /\ frames' = frames \union {EventFrame(c, Head(bus[c]))}
  /\ bus' = [bus EXCEPT ![c][1].step = "publishing"]
  /\ UNCHANGED <<lifeVars, group, demandVars, spoiled, due, boundVars>>

\* publish() refuses: the publisher has been closed in between.
Refuse(c) ==
  /\ At(c, "fenced")
  /\ Done(c)
  /\ UNCHANGED <<lifeVars, group, frames, demandVars, spoiled, due, boundVars>>

Published(c) ==
  /\ At(c, "publishing")
  /\ \E f \in Awaited("event", c, "open") :
       /\ frames' = frames \ {f}
       /\ spoiled' = IF f.ok THEN spoiled ELSE [spoiled EXCEPT ![c] = @ \union f.types]
  /\ Done(c)
  /\ UNCHANGED <<lifeVars, group, demandVars, due, boundVars>>

\* An imported event has been dispatched, or a handler or a check refused it.
Import(c, ok) ==
  /\ At(c, "import")
  /\ LET f == Head(bus[c]).frame IN
     /\ frames' = (frames \ {f}) \union {Resumed(f, ok)}
     /\ due' = IF ok THEN due \ {<<f.event, f.from, c>>} ELSE due
  /\ IF ok THEN UNCHANGED faults ELSE faults < MaxFaults /\ faults' = faults + 1
  /\ Done(c)
  /\ UNCHANGED <<lifeVars, group, demandVars, spoiled, posts, retries>>

-----------------------------------------------------------------------------
(* close().                                                                *)

\* The attempt may be repeated after a failure.
Close(c) ==
  /\ \/ phase[c] = "open" /\ UNCHANGED retries
     \/ phase[c] = "failed" /\ retries < MaxRetries /\ retries' = retries + 1
  /\ phase' = [phase EXCEPT ![c] = "closing"]
  /\ UNCHANGED <<withdrawn, leaked, group, frames, demandVars, spoiled, bus, due, posts, faults>>

\* The transport publisher of a failed publication never closes; it is
\* retained, and every later attempt fails to close it.
\* Mutants: a closed publisher is retained too; close() ignores callbacks.
LeakAlways(c, ok) == leaked' = leaked \union {c}
Leak(c, ok) == leaked' = IF ok THEN leaked ELSE leaked \union {c}

DrainedOfChanges(c) == queue[c] = <<>>

\* The accepted callbacks and their transitions have settled.
Drained(c) == Accepted(c) = {} /\ queue[c] = <<>>

Withdraw(c) ==
  /\ phase[c] = "closing" /\ Drained(c)
  /\ IF c \in withdrawn
     THEN phase' = [phase EXCEPT ![c] = "releasing"] /\ UNCHANGED frames
     ELSE phase' = [phase EXCEPT ![c] = "withdrawing"]
          /\ frames' = frames \union {WantedFrame(c, "close")}
  /\ UNCHANGED <<withdrawn, leaked, group, demandVars, spoiled, bus, due, boundVars>>

Withdrawn(c) ==
  /\ phase[c] = "withdrawing"
  /\ \E f \in Awaited("wanted", c, "close") :
       /\ frames' = frames \ {f}
       /\ Leak(c, f.ok)
       /\ withdrawn' = IF f.ok THEN withdrawn \union {c} ELSE withdrawn
  /\ phase' = [phase EXCEPT ![c] = "releasing"]
  /\ UNCHANGED <<group, demandVars, spoiled, bus, due, boundVars>>

ReleaseStarts(c, t) ==
  /\ phase[c] = "releasing"
  /\ StartsClosing(c, t)
  /\ UNCHANGED <<lifeVars, group, frames, wanted, queue, change, spoiled, due, boundVars>>

ReleaseEnds(c, t) ==
  /\ phase[c] = "releasing"
  /\ EndsClosing(c, t, "none")
  /\ UNCHANGED <<lifeVars, group, frames, wanted, queue, change, spoiled, bus, due, boundVars>>

\* Every publisher has been tried; the subscribers are closed last.
Released(c) ==
  /\ phase[c] = "releasing"
  /\ \A t \in Types : publisher[c][t] \in {"none", "off", "stuck"}
  /\ publisher' = [publisher EXCEPT ![c] =
                     [t \in Types |-> IF @[t] = "off" THEN "none" ELSE @[t]]]
  /\ group' = Left(c)
  /\ phase' = [phase EXCEPT ![c] =
       IF c \in leaked \/ "stuck" \in {publisher[c][t] : t \in Types} THEN "failed" ELSE "closed"]
  /\ UNCHANGED <<withdrawn, leaked, frames, wanted, queue, change, spoiled, bus, due,
                 boundVars>>

-----------------------------------------------------------------------------
Step(c) ==
  \/ Attach(c) \/ Announce(c) \/ AnnounceWanted(c) \/ Ready(c)
  \/ BeginChange(c) \/ Commit(c) \/ FailChange(c)
  \/ Find(c) \/ Publish(c) \/ Refuse(c) \/ Published(c) \/ Import(c, TRUE)
  \/ Withdraw(c) \/ Withdrawn(c) \/ Released(c)
  \/ \E t \in Types :
       \/ RemoveStarts(c, t) \/ RemoveEnds(c, t)
       \/ ReleaseStarts(c, t) \/ ReleaseEnds(c, t)

System ==
  \/ \E f \in frames : Receive(f) \/ Replied(f)
  \/ \E c \in Contexts : Step(c)

Next ==
  \/ System
  \/ \E c \in Contexts :
       \/ Open(c) \/ Import(c, FALSE) \/ Close(c)
       \/ \E t \in Types : Post(c, t)

Spec == Init /\ [][Next]_vars

\* Every promise callback that can run does.  With the bounds a behaviour has
\* finitely many steps, so none of them can be put off for ever.
FairSpec == Spec /\ WF_vars(System)

-----------------------------------------------------------------------------
(* Properties.                                                             *)

FrameSet ==
  [kind : {"online", "wanted", "event"}, from : Contexts,
   cause : Contexts \union {"open", "close"}, types : SUBSET Types, event : Nat,
   left : Seq(Contexts), at : Contexts \union {Nobody}, ok : BOOLEAN]

Work ==
  [step : {"import"}, frame : {f \in FrameSet : f.kind = "event"}] \union
  [step : {"queued", "found", "fenced", "publishing"}, type : Types, event : Nat]

TypeOK ==
  /\ phase \in [Contexts -> {"new", "attaching", "online", "announcing", "open",
                             "closing", "withdrawing", "releasing", "closed", "failed"}]
  /\ withdrawn \subseteq Contexts /\ leaked \subseteq Contexts
  /\ group \in [Channels -> Seq(Contexts)]
  /\ frames \subseteq FrameSet
  /\ wanted \in [Contexts -> [Contexts -> SUBSET Types]]
  /\ publisher \in [Contexts -> [Types -> {"none", "on", "closing", "off", "stuck"}]]
  /\ spoiled \in [Contexts -> SUBSET Types]
  /\ queue \in [Contexts -> Seq(FrameSet)]
  /\ change \in [Contexts -> [stage : {"none", "remove"}, left : SUBSET Types,
                              removed : SUBSET Types, failed : BOOLEAN]]
  /\ \A c \in Contexts : queue[c] # <<>> \/ change[c] = NoChange
  /\ bus \in [Contexts -> Seq(Work)]
  /\ due \subseteq Nat \X Contexts \X Contexts
  /\ posts \in Nat /\ faults \in Nat /\ retries \in Nat

Origins(c, t) == {o \in Contexts : t \in wanted[c][o]}

(* A settled broker exports exactly the admitted types that some context   *)
(* has asked for, through replacements and withdrawals of several contexts *)
(* (#replaceWanted, #wantedElsewhere).  After a failed publication this is *)
(* lost: the removals of one transition are not undone together.           *)
ExportsMatchDemand ==
  \A c \in Contexts, t \in Types :
    phase[c] = "open" /\ change[c] = NoChange /\ spoiled[c] = {} =>
      (publisher[c][t] = "on" <=> t \in Known(c) /\ Origins(c, t) # {})

(* Readiness is a promise: two contexts whose open() has completed know    *)
(* each other's wanted types, whatever the order of their frames.          *)
ReadyMeansDiscovered ==
  \A c, o \in Contexts :
    c # o /\ phase[c] = "open" /\ phase[o] = "open" => wanted[c][o] = Wants[o]

(* A context that has closed is forgotten: no late reply of its own to an  *)
(* online frame brings its wanted types back (#closeOnce).                 *)
ClosedIsForgotten ==
  \A c, o \in Contexts : Listening(c) /\ phase[o] = "closed" => wanted[c][o] = {}

(* In the end, an event posted when another ready context wants its type   *)
(* has been imported there, unless one of the two closes or an import      *)
(* fails (publish, post): nobody waits for ever for another context's bus. *)
EventsCross ==
  <>[] \A n \in 1 .. MaxPosts, c, o \in Contexts :
         <<n, c, o>> \in due => faults > 0 \/ phase[c] # "open" \/ phase[o] # "open"

(* In the end every close attempt has settled, and has succeeded unless an *)
(* import has failed (#closeOnce).                                         *)
CloseSettles ==
  <>[] \A c \in Contexts :
         /\ phase[c] \notin {"closing", "withdrawing", "releasing"}
         /\ phase[c] = "failed" => faults > 0
=============================================================================
