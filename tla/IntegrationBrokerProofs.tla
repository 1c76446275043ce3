---------------------- MODULE IntegrationBrokerProofs ----------------------
(***************************************************************************)
(* Proofs about IntegrationBroker for any contexts and event types, any    *)
(* wanted sets, and any number of posts, failing imports and close         *)
(* attempts.                                                               *)
(***************************************************************************)
EXTENDS IntegrationBroker, SequenceTheorems, TLAPS

\* The announcements under way; events are of no account for the demand.
Signals == {f \in frames : f.kind # "event"}

\* The frame is still to be called for c, or c has accepted it.
Reaches(f, c) == c \in ToSet(f.left) \/ f.at = c

\* Each announcement belongs to a phase of its origin, and only the empty set
\* of a close can fail, since the others withdraw nothing.
SignalFits(f) ==
  /\ f.kind = "online" => f.cause = "open" /\ f.ok /\ phase[f.from] = "online"
  /\ f.kind = "wanted" /\ f.cause = "open" => phase[f.from] = "announcing"
  /\ f.kind = "wanted" /\ f.cause = "close" => phase[f.from] = "withdrawing" /\ f.types = {}
  /\ f.kind = "wanted" /\ f.cause # "close" => f.ok /\ f.types = Wants[f.from]

\* A reply is on its way only while the online frame waits for its author.
IsReply(g) == g.kind = "wanted" /\ g.cause \in Contexts
Answers(g, f) == f.kind = "online" /\ f.from = g.cause /\ f.at = g.from

SignalsFit ==
  /\ \A f \in Signals : SignalFits(f)
  /\ \A f, g \in Signals : f.kind = g.kind /\ f.from = g.from /\ f.cause = g.cause => f = g
  /\ \A g \in Signals : IsReply(g) => \E f \in Signals : Answers(g, f)

\* What is to be applied is an accepted frame, and is there once.
QueueFits(c) ==
  /\ \A i \in DOMAIN queue[c] :
       queue[c][i] \in Signals /\ queue[c][i].kind = "wanted" /\ queue[c][i].at = c
  /\ \A i, j \in DOMAIN queue[c] : queue[c][i] = queue[c][j] => i = j

\* A transition that adds types removes none, so it does not fail.
ChangeFits(c) ==
  \/ change[c] = NoChange
  \/ /\ change[c].stage = "remove" /\ queue[c] # <<>>
     /\ change[c].left \subseteq change[c].removed
     /\ Head(queue[c]).cause # "close" => change[c].removed = {} /\ ~ change[c].failed

\* From the withdrawal on, an origin has answered whom it will answer.
PhaseFits(c) ==
  /\ c \in withdrawn => phase[c] \in {"closing", "releasing", "closed", "failed"}
  /\ phase[c] = "releasing" => c \in withdrawn \union leaked
  /\ phase[c] = "closed" => c \in withdrawn
  /\ c \in withdrawn \/ phase[c] \in {"withdrawing", "releasing", "failed"} =>
       \A f \in Signals : f.kind = "online" => f.at # c

\* Announced contexts are attached; the others know nothing yet.
GroupFits(c) ==
  /\ phase[c] \in {"online", "announcing", "open"} => Attached(c, "status") /\ Attached(c, "wanted")
  /\ phase[c] = "new" => ~ Attached(c, "wanted")
  /\ phase[c] \in {"new", "attaching"} /\ ~ Attached(c, "wanted") =>
       /\ \A o \in Contexts : wanted[c][o] = {}
       /\ \A f \in Signals : f.kind = "wanted" => ~ Reaches(f, c)

WantedFits == \A c, o \in Contexts : wanted[c][o] \subseteq Wants[o]

LinkInv ==
  /\ SignalsFit /\ WantedFits
  /\ \A c \in Contexts : QueueFits(c) /\ ChangeFits(c) /\ PhaseFits(c) /\ GroupFits(c)

\* An announcement of o with this cause still reaches c.
Underway(c, o, cause) ==
  \E g \in Signals : g.kind = "wanted" /\ g.from = o /\ g.cause = cause /\ Reaches(g, c)

\* The online frame of c is on its way to o, or o's reply to it on its way to c.
Asking(c, o) ==
  \E f \in Signals :
    /\ f.kind = "online" /\ f.from = c
    /\ o \in ToSet(f.left) \/ (f.at = o /\ Underway(c, o, c))

\* c knows what o wants, or is about to be told by o's announcement or reply.
Discovery(c, o) ==
  c # o /\ phase[o] \in {"announcing", "open"} /\ phase[c] \in {"online", "announcing", "open"} =>
    \/ wanted[c][o] = Wants[o]
    \/ (phase[o] = "announcing" /\ Underway(c, o, "open"))
    \/ (phase[c] = "online" /\ Asking(c, o))

\* o's withdrawal is on its way to c, or has failed.
Leaving(c, o) ==
  \E g \in Signals :
    /\ g.kind = "wanted" /\ g.from = o /\ g.cause = "close"
    /\ Reaches(g, c) \/ (~ g.ok /\ g.at = Nobody)

\* c has forgotten o, or is about to be told to.
Forgetting(c, o) ==
  c # o /\ Listening(c) =>
    /\ o \in withdrawn => wanted[c][o] = {}
    /\ phase[o] = "withdrawing" => wanted[c][o] = {} \/ Leaving(c, o)

\* The publishers are those of the recorded demand, or of the one to be
\* recorded but for those that are still to be removed.
ExportsFit(c) ==
  (phase[c] = "new" \/ Listening(c)) /\ spoiled[c] = {} =>
    /\ change[c] = NoChange =>
         \A t \in Types : publisher[c][t] \in {"on", "none"} /\
           (publisher[c][t] = "on" <=> t \in Known(c) /\ \E o \in Contexts : t \in wanted[c][o])
    /\ change[c].stage = "remove" =>
         LET f == Head(queue[c])
             Demanded(t) == t \in f.types \/ \E o \in Contexts \ {f.from} : t \in wanted[c][o]
         IN
         /\ ~ change[c].failed
         /\ \A t \in Types \ change[c].removed :
              publisher[c][t] \in {"on", "none"} /\
              (publisher[c][t] = "on" <=> t \in Known(c) /\ Demanded(t))
         /\ \A t \in change[c].removed : ~ Demanded(t)
         /\ \A t \in change[c].left : publisher[c][t] \in {"on", "closing"}
         /\ \A t \in change[c].removed \ change[c].left : publisher[c][t] = "off"

DemandInv == \A c \in Contexts : ExportsFit(c)
DiscoveryInv == \A c, o \in Contexts : Discovery(c, o)
ForgettingInv == \A c, o \in Contexts : Forgetting(c, o)

-----------------------------------------------------------------------------
(* Groups, queues and types.                                               *)

\* What is left of a group, position by position.
LEMMA WithoutAt ==
  ASSUME NEW s \in Seq(Contexts), NEW c \in Contexts, c \in ToSet(s)
  PROVE  /\ Without(s, c) \in Seq(Contexts) /\ Len(Without(s, c)) = Len(s) - 1 /\ Len(s) \in Nat
         /\ \E i \in 1 .. Len(s) :
              /\ s[i] = c
              /\ \A k \in 1 .. Len(s) - 1 :
                   Without(s, c)[k] = IF k < i THEN s[k] ELSE s[k + 1]
<1> DEFINE i == CHOOSE j \in DOMAIN s : s[j] = c
           n == Len(s)
           x == SubSeq(s, 1, i - 1)
           y == SubSeq(s, i + 1, n)
           r == Without(s, c)
<1>1. i \in 1 .. n /\ s[i] = c
  BY DEF ToSet
<1>2. r = x \o y
  BY DEF Without, RemoveAt
<1> HIDE DEF i
<1>3. /\ x \in Seq(Contexts) /\ Len(x) = i - 1
      /\ y \in Seq(Contexts) /\ Len(y) = n - i
      /\ \A k \in 1 .. i - 1 : x[k] = s[k]
      /\ \A k \in 1 .. n - i : y[k] = s[i + k]
  BY <1>1
<1> HIDE DEF n, x, y, r
<1>4. r \in Seq(Contexts) /\ Len(r) = n - 1 /\ n \in Nat
  <2>1. x \o y \in Seq(Contexts) /\ Len(x \o y) = Len(x) + Len(y)
    <3>1. x \in Seq(Contexts) /\ y \in Seq(Contexts)
      BY <1>3
    <3> QED BY <3>1, ConcatProperties
  <2> QED BY <1>1, <1>2, <1>3, <2>1 DEF n
<1>5. ASSUME NEW k \in 1 .. n - 1
      PROVE  r[k] = IF k < i THEN s[k] ELSE s[k + 1]
  <2>1. CASE k < i
    <3>1. k \in 1 .. Len(x)
      BY <1>1, <1>3, <1>4, <2>1
    <3>2. (x \o y)[k] = x[k]
      BY <1>3, <3>1
    <3> QED BY <1>2, <1>3, <2>1, <3>1, <3>2
  <2>2. CASE k >= i
    <3>1. k - (i - 1) \in 1 .. n - i /\ i + (k - (i - 1)) = k + 1 /\ k - Len(x) = k - (i - 1)
      BY <1>1, <1>3, <1>4, <2>2
    <3>2. k \in Len(x) + 1 .. Len(x) + Len(y)
      BY <1>1, <1>3, <1>4, <2>2
    <3>3. (x \o y)[k] = y[k - Len(x)]
      <4>1. x \in Seq(Contexts) /\ y \in Seq(Contexts) /\ ~ (k <= Len(x)) /\ k \in 1 .. Len(x) + Len(y)
        BY <1>1, <1>3, <1>4, <2>2, <3>2
      <4> QED BY <4>1, ConcatProperties
    <3>4. r[k] = s[k + 1] /\ ~ (k < i)
      BY <1>1, <1>2, <1>3, <1>4, <2>2, <3>1, <3>3
    <3> QED BY <3>4
  <2> QED BY <1>1, <1>4, <2>1, <2>2
<1> QED BY <1>1, <1>4, <1>5 DEF n, r

LEMMA WithoutKeeps ==
  ASSUME NEW s \in Seq(Contexts), NEW c \in Contexts
  PROVE  /\ Without(s, c) \in Seq(Contexts)
         /\ \A d \in Contexts \ {c} : d \in ToSet(Without(s, c)) <=> d \in ToSet(s)
<1>1. CASE c \notin ToSet(s)
  BY <1>1 DEF Without
<1>2. CASE c \in ToSet(s)
  <2> DEFINE r == Without(s, c)
             n == Len(s)
  <2>1. r \in Seq(Contexts) /\ Len(r) = n - 1 /\ n \in Nat
    BY <1>2, WithoutAt
  <2>2. PICK i \in 1 .. n : /\ s[i] = c
                            /\ \A k \in 1 .. n - 1 : r[k] = IF k < i THEN s[k] ELSE s[k + 1]
    BY <1>2, WithoutAt
  <2> HIDE DEF r, n
  <2>3. ASSUME NEW d \in Contexts \ {c}, d \in ToSet(s)
        PROVE  d \in ToSet(r)
    <3>1. PICK j \in 1 .. n : s[j] = d
      BY <2>3 DEF ToSet, n
    <3>2. j < i \/ j > i
      BY <2>1, <2>2, <2>3, <3>1
    <3>3. CASE j < i
      <4>1. j \in 1 .. n - 1 /\ r[j] = d
        BY <2>1, <2>2, <3>1, <3>3
      <4> QED BY <2>1, <4>1 DEF ToSet
    <3>4. CASE j > i
      <4>1. j - 1 \in 1 .. n - 1 /\ ~ (j - 1 < i) /\ (j - 1) + 1 = j
        BY <2>1, <2>2, <3>1, <3>4
      <4>2. r[j - 1] = d
        BY <2>2, <3>1, <4>1
      <4> QED BY <2>1, <4>1, <4>2 DEF ToSet
    <3> QED BY <3>2, <3>3, <3>4
  <2>4. ASSUME NEW d \in Contexts \ {c}, d \in ToSet(r)
        PROVE  d \in ToSet(s)
    <3>1. PICK k \in 1 .. n - 1 : r[k] = d
      BY <2>1, <2>4 DEF ToSet
    <3>2. PICK j \in 1 .. n : s[j] = d
      <4>1. k \in 1 .. n /\ k + 1 \in 1 .. n
        BY <2>1, <3>1
      <4> QED BY <2>2, <3>1, <4>1
    <3> QED BY <3>2 DEF ToSet, n
  <2> QED BY <2>1, <2>3, <2>4 DEF r
<1> QED BY <1>1, <1>2

\* A group has each context at most once.
Once(s) == \A i, j \in DOMAIN s : s[i] = s[j] => i = j

LEMMA WithoutRemoves ==
  ASSUME NEW s \in Seq(Contexts), NEW c \in Contexts, Once(s)
  PROVE  Once(Without(s, c)) /\ c \notin ToSet(Without(s, c))
<1>1. CASE c \notin ToSet(s)
  BY <1>1 DEF Without
<1>2. CASE c \in ToSet(s)
  <2> DEFINE r == Without(s, c)
             n == Len(s)
  <2>1. r \in Seq(Contexts) /\ Len(r) = n - 1 /\ n \in Nat
    BY <1>2, WithoutAt
  <2>2. PICK i \in 1 .. n : /\ s[i] = c
                            /\ \A k \in 1 .. n - 1 : r[k] = IF k < i THEN s[k] ELSE s[k + 1]
    BY <1>2, WithoutAt
  <2>3. DOMAIN s = 1 .. n
    OBVIOUS
  <2> HIDE DEF r, n
  <2>4. DOMAIN r = 1 .. n - 1
    BY <2>1
  <2>5. \A j, k \in 1 .. n : s[j] = s[k] => j = k
    BY <2>3 DEF Once
  <2>6. ASSUME NEW j \in 1 .. n - 1, NEW k \in 1 .. n - 1, r[j] = r[k]
        PROVE  j = k
    <3>1. PICK a \in 1 .. n : r[j] = s[a] /\ a = IF j < i THEN j ELSE j + 1
      BY <2>1, <2>2
    <3>2. PICK b \in 1 .. n : r[k] = s[b] /\ b = IF k < i THEN k ELSE k + 1
      BY <2>1, <2>2
    <3>3. a = b
      BY <2>5, <2>6, <3>1, <3>2
    <3> QED BY <2>1, <3>1, <3>2, <3>3
  <2>7. ASSUME NEW k \in 1 .. n - 1
        PROVE  r[k] # c
    BY <2>1, <2>2, <2>5, <2>7
  <2>8. Once(r)
    BY <2>4, <2>6 DEF Once
  <2>9. c \notin ToSet(r)
    BY <2>4, <2>7 DEF ToSet
  <2> QED BY <2>8, <2>9 DEF r
<1> QED BY <1>1, <1>2

LEMMA AppendOnce ==
  ASSUME NEW s \in Seq(Contexts), NEW c \in Contexts, Once(s), c \notin ToSet(s)
  PROVE  Once(Append(s, c))
<1> DEFINE r == Append(s, c)
           n == Len(s)
<1>1. /\ n \in Nat /\ DOMAIN s = 1 .. n /\ DOMAIN r = 1 .. n + 1 /\ r[n + 1] = c
      /\ \A i \in 1 .. n : r[i] = s[i]
  OBVIOUS
<1> HIDE DEF r, n
<1>2. \A i \in 1 .. n : s[i] # c
  BY <1>1 DEF ToSet
<1>3. ASSUME NEW i \in 1 .. n + 1, NEW j \in 1 .. n + 1, r[i] = r[j]
      PROVE  i = j
  BY <1>1, <1>2, <1>3 DEF Once
<1>4. Once(r)
  BY <1>1, <1>3 DEF Once
<1> QED BY <1>4 DEF r

\* A subscriber that is called leaves the others to be called.
LEMMA CallFirst ==
  ASSUME NEW s \in Seq(Contexts), s # <<>>
  PROVE  /\ Head(s) \in Contexts /\ Tail(s) \in Seq(Contexts)
         /\ \A d \in Contexts : d \in ToSet(s) <=> d = Head(s) \/ d \in ToSet(Tail(s))
<1>1. Head(s) \in Contexts /\ Tail(s) \in Seq(Contexts) /\ Len(Tail(s)) = Len(s) - 1
  OBVIOUS
<1>2. /\ Head(s) = s[1] /\ 1 \in DOMAIN s
      /\ \A i \in 1 .. Len(s) - 1 : Tail(s)[i] = s[i + 1]
  OBVIOUS
<1>3. ASSUME NEW d \in Contexts, d \in ToSet(s)
      PROVE  d = Head(s) \/ d \in ToSet(Tail(s))
  <2>1. PICK j \in 1 .. Len(s) : s[j] = d
    BY <1>3 DEF ToSet
  <2>2. CASE j > 1
    <3> DEFINE r == Tail(s)
    <3>1. j - 1 \in 1 .. Len(s) - 1 /\ r[j - 1] = d
      BY <1>2, <2>1, <2>2
    <3>2. DOMAIN r = 1 .. Len(s) - 1
      BY <1>1
    <3> HIDE DEF r
    <3>3. d \in ToSet(r)
      BY <3>1, <3>2 DEF ToSet
    <3> QED BY <3>3 DEF r
  <2> QED BY <1>2, <2>1, <2>2
<1>4. ASSUME NEW d \in Contexts, d = Head(s) \/ d \in ToSet(Tail(s))
      PROVE  d \in ToSet(s)
  <2>1. CASE d \in ToSet(Tail(s))
    <3> DEFINE r == Tail(s)
    <3>0. DOMAIN r = 1 .. Len(s) - 1
      BY <1>1
    <3>1. PICK i \in 1 .. Len(s) - 1 : r[i] = d
      <4> HIDE DEF r
      <4>1. d \in ToSet(r)
        BY <2>1 DEF r
      <4> QED BY <3>0, <4>1 DEF ToSet
    <3>2. s[i + 1] = d /\ i + 1 \in DOMAIN s
      BY <1>2, <3>1
    <3> QED BY <3>2 DEF ToSet
  <2> QED BY <1>2, <1>4, <2>1 DEF ToSet
<1> QED BY <1>1, <1>3, <1>4

LEMMA AppendKeeps ==
  ASSUME NEW s \in Seq(Contexts), NEW c \in Contexts
  PROVE  \A d \in Contexts : d \in ToSet(Append(s, c)) <=> d = c \/ d \in ToSet(s)
<1>1. /\ Len(Append(s, c)) = Len(s) + 1 /\ Append(s, c)[Len(s) + 1] = c
      /\ \A i \in 1 .. Len(s) : Append(s, c)[i] = s[i]
      /\ Append(s, c) \in Seq(Contexts)
  OBVIOUS
<1>2. DOMAIN Append(s, c) = 1 .. Len(s) + 1 /\ DOMAIN s = 1 .. Len(s)
  BY <1>1
<1>3. ToSet(Append(s, c)) = {Append(s, c)[i] : i \in 1 .. Len(s) + 1}
  BY <1>2 DEF ToSet
<1>4. ToSet(s) = {s[i] : i \in 1 .. Len(s)}
  BY <1>2 DEF ToSet
<1>5. Len(s) \in Nat
  OBVIOUS
<1> QED BY <1>1, <1>3, <1>4, <1>5

PublisherStates == [Contexts -> [Types -> {"none", "on", "closing", "off", "stuck"}]]
Changes == [stage : {"none", "remove"}, left : SUBSET Types, removed : SUBSET Types,
            failed : BOOLEAN]

Moving == {"queued", "found", "fenced", "publishing"}

\* The head of a bus goes on to its next step.
LEMMA BusMoves ==
  ASSUME NEW s \in Seq(Work), s # <<>>, Head(s).step \in Moving, NEW x \in Moving
  PROVE  [s EXCEPT ![1].step = x] \in Seq(Work)
<1>1. s[1] \in Work /\ s[1] = Head(s)
  OBVIOUS
<1>2. s[1] \in [step : Moving, type : Types, event : Nat]
  BY <1>1 DEF Work, Moving
<1>3. [s[1] EXCEPT !.step = x] \in Work
  BY <1>2 DEF Work, Moving
<1>4. [s EXCEPT ![1].step = x] = [s EXCEPT ![1] = [s[1] EXCEPT !.step = x]]
  OBVIOUS
<1> QED BY <1>3, <1>4

LEMMA FrameTyped ==
  ASSUME TypeOK, NEW c \in Contexts, NEW ch \in Channels, NEW types \in SUBSET Types,
         NEW kind \in {"online", "wanted", "event"}, NEW event \in Nat,
         NEW cause \in Contexts \union {"open", "close"}
  PROVE  Frame(kind, c, cause, types, event, ch) \in FrameSet
<1>1. group[ch] \in Seq(Contexts)
  BY DEF TypeOK
<1>2. Without(group[ch], c) \in Seq(Contexts)
  BY <1>1, WithoutKeeps
<1> QED BY <1>2 DEF Frame, FrameSet, Nobody

LEMMA SignalsTyped ==
  ASSUME TypeOK, NEW c \in Contexts, NEW cause \in Contexts \union {"open", "close"}
  PROVE  OnlineFrame(c) \in FrameSet /\ WantedFrame(c, cause) \in FrameSet
<1>1. Wants[c] \in SUBSET Types
  BY IntegrationAssumption
<1>2. "status" \in Channels /\ "wanted" \in Channels /\ 0 \in Nat /\ {} \in SUBSET Types
  BY DEF Channels
<1>3. OnlineFrame(c) \in FrameSet
  BY <1>2, FrameTyped DEF OnlineFrame
<1>4. (IF cause = "close" THEN {} ELSE Wants[c]) \in SUBSET Types
  BY <1>1
<1>5. WantedFrame(c, cause) \in FrameSet
  BY <1>2, <1>4, FrameTyped DEF WantedFrame
<1> QED BY <1>3, <1>5

LEMMA ResumedTyped ==
  ASSUME NEW f \in FrameSet, NEW ok \in BOOLEAN
  PROVE  /\ Resumed(f, ok) \in FrameSet
         /\ Resumed(f, ok).kind = f.kind /\ Resumed(f, ok).from = f.from
         /\ Resumed(f, ok).cause = f.cause /\ Resumed(f, ok).types = f.types
         /\ Resumed(f, ok).left = f.left /\ Resumed(f, ok).ok = ok
         /\ Resumed(f, ok).at = Nobody
BY DEF Resumed, FrameSet, Nobody

LEMMA TypedLife ==
  ASSUME TypeOK, NEW c \in Contexts,
         Open(c) \/ Attach(c) \/ Announce(c) \/ AnnounceWanted(c) \/ Ready(c) \/ Close(c)
           \/ Withdraw(c) \/ Withdrawn(c) \/ Released(c)
  PROVE  TypeOK'
<1>1. CASE Open(c)
  BY <1>1 DEF Open, TypeOK, lifeVars, demandVars, boundVars
<1>2. CASE Attach(c)
  <2>1. PICK ch \in NextChannels(c) : group' = [group EXCEPT ![ch] = Append(@, c)]
    BY <1>2 DEF Attach
  <2>2. Wants[c] \subseteq Types
    BY IntegrationAssumption
  <2>3. ch \in Channels
    BY <2>1, <2>2 DEF NextChannels, Channels
  <2>4. group' \in [Channels -> Seq(Contexts)]
    BY <2>1, <2>3 DEF TypeOK
  <2> QED BY <1>2, <2>4 DEF Attach, TypeOK, lifeVars, demandVars, boundVars
<1>3. CASE Announce(c)
  BY <1>3, SignalsTyped DEF Announce, TypeOK, lifeVars, demandVars, boundVars
<1>4. CASE AnnounceWanted(c)
  <2>1. WantedFrame(c, "open") \in FrameSet
    BY SignalsTyped
  <2>2. frames' \subseteq frames \union {WantedFrame(c, "open")}
    BY <1>4 DEF AnnounceWanted
  <2> QED BY <1>4, <2>1, <2>2 DEF AnnounceWanted, TypeOK, lifeVars, demandVars, boundVars
<1>5. CASE Ready(c)
  <2>1. frames' \subseteq frames
    BY <1>5 DEF Ready
  <2> QED BY <1>5, <2>1 DEF Ready, TypeOK, lifeVars, demandVars, boundVars
<1>6. CASE Close(c)
  BY <1>6 DEF Close, TypeOK, lifeVars, demandVars, boundVars
<1>7. CASE Withdraw(c)
  <2>1. WantedFrame(c, "close") \in FrameSet
    BY SignalsTyped
  <2>2. frames' \subseteq frames \union {WantedFrame(c, "close")}
    BY <1>7 DEF Withdraw
  <2>3. frames' \subseteq FrameSet
    BY <2>1, <2>2 DEF TypeOK
  <2> QED BY <1>7, <2>3 DEF Withdraw, TypeOK, lifeVars, demandVars, boundVars
<1>8. CASE Withdrawn(c)
  <2>1. /\ frames' \subseteq frames
        /\ leaked' \subseteq leaked \union {c} /\ withdrawn' \subseteq withdrawn \union {c}
    BY <1>8 DEF Withdrawn, Leak
  <2> QED BY <1>8, <2>1 DEF Withdrawn, TypeOK, lifeVars, demandVars, boundVars
<1>9. CASE Released(c)
  <2>1. \A ch \in Channels : Without(group[ch], c) \in Seq(Contexts)
    BY WithoutKeeps DEF TypeOK
  <2>2. group' \in [Channels -> Seq(Contexts)]
    BY <1>9, <2>1 DEF Released, Left
  <2>3. publisher' \in PublisherStates
    BY <1>9 DEF Released, TypeOK, PublisherStates
  <2> QED BY <1>9, <2>2, <2>3 DEF Released, TypeOK, PublisherStates, lifeVars, demandVars, boundVars
<1> QED BY <1>1, <1>2, <1>3, <1>4, <1>5, <1>6, <1>7, <1>8, <1>9

\* The head of c's bus takes its next step.
LEMMA BusGoesOn ==
  ASSUME TypeOK, NEW c \in Contexts, NEW x \in Moving, bus[c] # <<>>, Head(bus[c]).step \in Moving,
         bus' = [bus EXCEPT ![c][1].step = x]
  PROVE  bus' \in [Contexts -> Seq(Work)]
<1>1. [bus[c] EXCEPT ![1].step = x] \in Seq(Work)
  BY BusMoves DEF TypeOK
<1>2. bus' = [bus EXCEPT ![c] = [bus[c] EXCEPT ![1].step = x]]
  OBVIOUS
<1> QED BY <1>1, <1>2 DEF TypeOK

LEMMA BusEnds ==
  ASSUME TypeOK, NEW c \in Contexts, bus[c] # <<>>, Done(c)
  PROVE  bus' \in [Contexts -> Seq(Work)]
BY DEF Done, TypeOK

LEMMA WorkTyped ==
  ASSUME TypeOK, NEW c \in Contexts, bus[c] # <<>>
  PROVE  /\ Head(bus[c]).step \in Moving =>
              Head(bus[c]).type \in Types /\ Head(bus[c]).event \in Nat
         /\ Head(bus[c]).step = "import" =>
              Head(bus[c]).frame \in FrameSet /\ Head(bus[c]).frame.kind = "event"
<1>1. Head(bus[c]) \in Work
  BY DEF TypeOK
<1> QED BY <1>1 DEF Work, Moving

LEMMA ClosingTyped ==
  ASSUME TypeOK, NEW c \in Contexts, NEW t \in Types
  PROVE  /\ StartsClosing(c, t) =>
              /\ bus' \in [Contexts -> Seq(Work)]
              /\ publisher' \in PublisherStates
         /\ \A to \in {"none", "off"} : EndsClosing(c, t, to) =>
              publisher' \in PublisherStates
<1>1. ASSUME StartsClosing(c, t)
      PROVE  bus' \in [Contexts -> Seq(Work)]
  <2>1. CASE At(c, "found") /\ bus' = [bus EXCEPT ![c][1].step = "fenced"]
    BY <2>1, BusGoesOn DEF At, Moving
  <2>2. CASE bus' = bus
    BY <2>2 DEF TypeOK
  <2> QED BY <1>1, <2>1, <2>2 DEF StartsClosing
<1>2. publisher \in PublisherStates
  BY DEF TypeOK, PublisherStates
<1>3. ASSUME NEW x \in {"none", "on", "closing", "off", "stuck"}
      PROVE  [publisher EXCEPT ![c][t] = x] \in PublisherStates
  BY <1>2 DEF PublisherStates
<1>4. StartsClosing(c, t) => publisher' \in PublisherStates
  BY <1>3 DEF StartsClosing
<1>5. \A to \in {"none", "off"} : EndsClosing(c, t, to) => publisher' \in PublisherStates
  BY <1>3 DEF EndsClosing
<1> QED BY <1>1, <1>4, <1>5

LEMMA HeadTyped ==
  ASSUME TypeOK, NEW c \in Contexts, queue[c] # <<>>
  PROVE  /\ Head(queue[c]) \in FrameSet /\ Tail(queue[c]) \in Seq(FrameSet)
         /\ Head(queue[c]).from \in Contexts /\ Head(queue[c]).types \in SUBSET Types
<1>1. queue[c] \in Seq(FrameSet)
  BY DEF TypeOK
<1>2. Head(queue[c]) \in FrameSet /\ Tail(queue[c]) \in Seq(FrameSet)
  BY <1>1
<1> QED BY <1>2 DEF FrameSet

LEMMA TypedDemand ==
  ASSUME TypeOK, NEW c \in Contexts,
         BeginChange(c) \/ Commit(c) \/ FailChange(c)
           \/ \E t \in Types : RemoveStarts(c, t) \/ RemoveEnds(c, t)
                                 \/ ReleaseStarts(c, t) \/ ReleaseEnds(c, t)
  PROVE  TypeOK'
<1>0. /\ publisher \in PublisherStates /\ change \in [Contexts -> Changes]
      /\ wanted \in [Contexts -> [Contexts -> SUBSET Types]]
      /\ queue \in [Contexts -> Seq(FrameSet)]
  BY DEF TypeOK, PublisherStates, Changes
<1>1. CASE BeginChange(c)
  <2>1. queue[c] # <<>> /\ \A d \in Contexts : queue[d] # <<>> \/ change'[d] = NoChange
    BY <1>1 DEF BeginChange, TypeOK
  <2>2. change' \in [Contexts -> Changes]
    <3>1. PICK removed \in SUBSET Types :
            change' = [change EXCEPT ![c] =
                         [stage |-> "remove", left |-> removed, removed |-> removed, failed |-> FALSE]]
      <4>1. Head(queue[c]).from \in Contexts
        BY <2>1, HeadTyped
      <4> DEFINE r == {t \in wanted[c][Head(queue[c]).from] \
                           (Head(queue[c]).types \union Elsewhere(c, Head(queue[c]).from)) :
                         publisher[c][t] # "none"}
      <4>2. r \in SUBSET Types
        BY <1>0, <4>1
      <4>3. change' = [change EXCEPT ![c] =
                         [stage |-> "remove", left |-> r, removed |-> r, failed |-> FALSE]]
        BY <1>1 DEF BeginChange
      <4> QED BY <4>2, <4>3
    <3> QED BY <1>0, <3>1 DEF Changes
  <2>3. publisher' \in PublisherStates
    BY <1>0, <1>1 DEF BeginChange, PublisherStates
  <2> QED BY <1>1, <2>1, <2>2, <2>3
          DEF BeginChange, TypeOK, PublisherStates, Changes, lifeVars, boundVars
<1>2. ASSUME Commit(c) \/ FailChange(c), NEW ok \in BOOLEAN, SettleChange(c, ok),
             queue[c] # <<>>
      PROVE  TypeOK'
  <2>1. /\ Head(queue[c]) \in FrameSet /\ Head(queue[c]).from \in Contexts
        /\ Head(queue[c]).types \in SUBSET Types /\ Tail(queue[c]) \in Seq(FrameSet)
    BY <1>2, HeadTyped
  <2>2. Resumed(Head(queue[c]), ok) \in FrameSet
    BY <2>1, ResumedTyped
  <2>3. frames' \subseteq FrameSet /\ queue' \in [Contexts -> Seq(FrameSet)]
    <3>1. frames \subseteq FrameSet
      BY DEF TypeOK
    <3> QED BY <1>0, <1>2, <2>1, <2>2, <3>1 DEF SettleChange
  <2>4. /\ change' \in [Contexts -> Changes]
        /\ \A d \in Contexts : queue'[d] # <<>> \/ change'[d] = NoChange
    <3>1. \A d \in Contexts : queue[d] # <<>> \/ change[d] = NoChange
      BY DEF TypeOK
    <3>2. NoChange \in Changes
      BY DEF NoChange, Changes
    <3> QED BY <1>0, <1>2, <3>1, <3>2 DEF SettleChange
  <2>5. publisher' \in PublisherStates
    <3>1. CASE Commit(c)
      BY <1>0, <3>1 DEF Commit, PublisherStates
    <3>2. CASE FailChange(c)
      BY <1>0, <3>2 DEF FailChange
    <3> QED BY <1>2, <3>1, <3>2
  <2>6. wanted' \in [Contexts -> [Contexts -> SUBSET Types]]
    <3>1. CASE Commit(c)
      BY <1>0, <2>1, <3>1 DEF Commit
    <3>2. CASE FailChange(c)
      BY <1>0, <3>2 DEF FailChange
    <3> QED BY <1>2, <3>1, <3>2
  <2> QED BY <1>2, <2>3, <2>4, <2>5, <2>6
          DEF Commit, FailChange, TypeOK, PublisherStates, Changes, lifeVars, boundVars
<1>3. ASSUME NEW t \in Types, RemoveStarts(c, t) \/ ReleaseStarts(c, t)
      PROVE  TypeOK'
  <2>1. publisher' \in PublisherStates /\ bus' \in [Contexts -> Seq(Work)]
    BY <1>3, ClosingTyped DEF RemoveStarts, ReleaseStarts
  <2> QED BY <1>3, <2>1 DEF RemoveStarts, ReleaseStarts, TypeOK, PublisherStates, lifeVars, boundVars
<1>4. ASSUME NEW t \in Types, RemoveEnds(c, t)
      PROVE  TypeOK'
  <2>1. publisher' \in PublisherStates
    BY <1>0, <1>4, ClosingTyped DEF RemoveEnds
  <2>2. change' \in [Contexts -> Changes]
    <3>1. PICK b \in BOOLEAN :
            change' = [change EXCEPT ![c] = [change[c] EXCEPT !.left = @ \ {t}, !.failed = b]]
      <4>1. (change[c].failed \/ publisher'[c][t] = "stuck") \in BOOLEAN
        BY <1>0 DEF Changes
      <4> QED BY <1>0, <1>4, <4>1 DEF RemoveEnds
    <3> QED BY <1>0, <3>1 DEF Changes
  <2>3. \A d \in Contexts : queue[d] # <<>> \/ change'[d] = NoChange
    <3>1. change[c] # NoChange
      BY <1>4 DEF RemoveEnds, NoChange
    <3> QED BY <1>0, <1>4, <3>1 DEF RemoveEnds, TypeOK
  <2> QED BY <1>4, <2>1, <2>2, <2>3 DEF RemoveEnds, TypeOK, PublisherStates, Changes, lifeVars, boundVars
<1>5. ASSUME NEW t \in Types, ReleaseEnds(c, t)
      PROVE  TypeOK'
  <2>1. publisher' \in PublisherStates
    BY <1>5, ClosingTyped DEF ReleaseEnds
  <2> QED BY <1>5, <2>1 DEF ReleaseEnds, TypeOK, PublisherStates, lifeVars, boundVars
<1>6. Commit(c) \/ FailChange(c) => queue[c] # <<>>
  <2>1. queue[c] # <<>> \/ change[c] = NoChange
    BY DEF TypeOK
  <2>2. Commit(c) \/ FailChange(c) => Removed(c)
    BY DEF Commit, FailChange
  <2>3. Removed(c) => change[c] # NoChange
    BY DEF Removed, NoChange
  <2> QED BY <2>1, <2>2, <2>3
<1>7. CASE Commit(c)
  BY <1>2, <1>6, <1>7 DEF Commit
<1>8. CASE FailChange(c)
  BY <1>2, <1>6, <1>8 DEF FailChange
<1> QED BY <1>1, <1>3, <1>4, <1>5, <1>7, <1>8

LEMMA TypedBus ==
  ASSUME TypeOK, NEW c \in Contexts,
         Find(c) \/ Publish(c) \/ Refuse(c) \/ Published(c) \/ Import(c, TRUE) \/ Import(c, FALSE)
           \/ \E t \in Types : Post(c, t)
  PROVE  TypeOK'
<1>0. /\ bus \in [Contexts -> Seq(Work)] /\ bus[c] \in Seq(Work)
      /\ due \subseteq Nat \X Contexts \X Contexts /\ posts \in Nat /\ faults \in Nat
      /\ frames \subseteq FrameSet
  BY DEF TypeOK
<1>1. ASSUME NEW t \in Types, Post(c, t)
      PROVE  TypeOK'
  <2>1. [step |-> "queued", type |-> t, event |-> posts'] \in Work
    BY <1>0, <1>1 DEF Post, Work
  <2>2. bus' \in [Contexts -> Seq(Work)]
    BY <1>0, <1>1, <2>1 DEF Post
  <2>3. due' \subseteq Nat \X Contexts \X Contexts /\ posts' \in Nat
    BY <1>0, <1>1 DEF Post
  <2> QED BY <1>1, <2>2, <2>3 DEF Post, TypeOK, lifeVars, demandVars, boundVars
<1>2. CASE Find(c)
  <2>1. bus[c] # <<>> /\ Head(bus[c]).step = "queued"
    BY <1>2 DEF Find, At
  <2>2. \/ Done(c) \/ bus' = [bus EXCEPT ![c][1].step = "found"]
        \/ bus' = [bus EXCEPT ![c][1].step = "fenced"]
    BY <1>2 DEF Find
  <2>3. bus' \in [Contexts -> Seq(Work)]
    BY <2>1, <2>2, BusEnds, BusGoesOn DEF Moving
  <2> QED BY <1>2, <2>3 DEF Find, TypeOK, lifeVars, demandVars, boundVars
<1>3. CASE Publish(c)
  <2>1. bus[c] # <<>> /\ Head(bus[c]).step = "found"
    BY <1>3 DEF Publish, At
  <2>2. bus' \in [Contexts -> Seq(Work)]
    BY <1>3, <2>1, BusGoesOn DEF Publish, Moving
  <2>3. Head(bus[c]).type \in Types /\ Head(bus[c]).event \in Nat
    BY <2>1, WorkTyped DEF Moving
  <2>4. EventFrame(c, Head(bus[c])) \in FrameSet
    <3>1. {Head(bus[c]).type} \in SUBSET Types /\ Head(bus[c]).type \in Channels
      BY <2>3 DEF Channels
    <3> QED BY <2>3, <3>1, FrameTyped DEF EventFrame
  <2>5. frames' \subseteq FrameSet
    BY <1>0, <1>3, <2>4 DEF Publish
  <2> QED BY <1>3, <2>2, <2>5 DEF Publish, TypeOK, lifeVars, demandVars, boundVars
<1>4. CASE Refuse(c)
  <2>1. bus' \in [Contexts -> Seq(Work)]
    BY <1>4, BusEnds DEF Refuse, At
  <2> QED BY <1>4, <2>1 DEF Refuse, TypeOK, lifeVars, demandVars, boundVars
<1>5. CASE Published(c)
  <2>1. bus' \in [Contexts -> Seq(Work)]
    BY <1>5, BusEnds DEF Published, At
  <2>2. PICK f \in Awaited("event", c, "open") :
          /\ frames' = frames \ {f}
          /\ spoiled' = IF f.ok THEN spoiled ELSE [spoiled EXCEPT ![c] = @ \union f.types]
    BY <1>5 DEF Published
  <2>3. f.types \subseteq Types
    BY <1>0 DEF Awaited, FrameSet
  <2>4. spoiled' \in [Contexts -> SUBSET Types]
    <3>1. spoiled \in [Contexts -> SUBSET Types]
      BY DEF TypeOK
    <3> QED BY <2>2, <2>3, <3>1
  <2>5. frames' \subseteq FrameSet
    BY <1>0, <2>2
  <2> QED BY <1>5, <2>1, <2>4, <2>5 DEF Published, TypeOK, lifeVars, demandVars, boundVars
<1>6. ASSUME NEW ok \in BOOLEAN, Import(c, ok)
      PROVE  TypeOK'
  <2>1. bus[c] # <<>> /\ Head(bus[c]).step = "import"
    BY <1>6 DEF Import, At
  <2>2. bus' \in [Contexts -> Seq(Work)]
    BY <1>6, <2>1, BusEnds DEF Import
  <2>3. Resumed(Head(bus[c]).frame, ok) \in FrameSet
    BY <2>1, WorkTyped, ResumedTyped
  <2>4. frames' \subseteq FrameSet /\ due' \subseteq due /\ faults' \in Nat
    BY <1>0, <1>6, <2>3 DEF Import
  <2> QED BY <1>0, <1>6, <2>2, <2>4 DEF Import, TypeOK, lifeVars, demandVars
<1> QED BY <1>1, <1>2, <1>3, <1>4, <1>5, <1>6

\* What happens to a frame whose next subscriber is called.
Called(f) == [f EXCEPT !.at = Head(f.left), !.left = Tail(@)]
Skipped(f) == [f EXCEPT !.left = Tail(@)]

LEMMA CalledTyped ==
  ASSUME NEW f \in FrameSet, f.left # <<>>
  PROVE  /\ Head(f.left) \in Contexts /\ Called(f) \in FrameSet /\ Skipped(f) \in FrameSet
         /\ Called(f).kind = f.kind /\ Called(f).from = f.from /\ Called(f).cause = f.cause
         /\ Called(f).types = f.types /\ Called(f).ok = f.ok
         /\ Called(f).at = Head(f.left) /\ Called(f).left = Tail(f.left)
         /\ Skipped(f).kind = f.kind /\ Skipped(f).from = f.from /\ Skipped(f).cause = f.cause
         /\ Skipped(f).types = f.types /\ Skipped(f).ok = f.ok
         /\ Skipped(f).at = f.at /\ Skipped(f).left = Tail(f.left)
<1>1. f.left \in Seq(Contexts)
  BY DEF FrameSet
<1>2. Head(f.left) \in Contexts /\ Tail(f.left) \in Seq(Contexts)
  BY <1>1
<1> QED BY <1>2 DEF Called, Skipped, FrameSet

\* The four things that can happen to a frame that is dispatched.
LEMMA ReceiveCases ==
  ASSUME TypeOK, NEW f \in frames, Receive(f)
  PROVE  /\ f \in FrameSet /\ f.left # <<>> /\ f.at = Nobody /\ Head(f.left) \in Contexts
         /\ UNCHANGED <<lifeVars, group, wanted, publisher, change, spoiled, due, boundVars>>
         /\ \/ /\ ~ Listening(Head(f.left)) /\ UNCHANGED <<queue, bus>>
               /\ frames' = (frames \ {f}) \union {Skipped(f)}
            \/ /\ Listening(Head(f.left)) /\ f.kind = "online" /\ UNCHANGED <<queue, bus>>
               /\ frames' = (frames \ {f}) \union {Called(f), WantedFrame(Head(f.left), f.from)}
            \/ /\ Listening(Head(f.left)) /\ f.kind = "wanted" /\ UNCHANGED bus
               /\ frames' = (frames \ {f}) \union {Called(f)}
               /\ queue' = [queue EXCEPT ![Head(f.left)] = Append(@, Called(f))]
            \/ /\ Listening(Head(f.left)) /\ f.kind = "event" /\ UNCHANGED queue
               /\ frames' = (frames \ {f}) \union {Called(f)}
               /\ bus' = [bus EXCEPT ![Head(f.left)] =
                            Append(@, [step |-> "import", frame |-> Called(f)])]
<1>1. f \in FrameSet
  BY DEF TypeOK
<1>2. f.at = Nobody /\ f.left # <<>>
  BY DEF Receive, Settled
<1>3. Head(f.left) \in Contexts
  BY <1>1, <1>2, CalledTyped
<1> QED BY <1>1, <1>2, <1>3 DEF Receive, Called, Skipped

LEMMA TypedFrames ==
  ASSUME TypeOK, NEW f \in frames, Receive(f) \/ Replied(f)
  PROVE  TypeOK'
<1>0. frames \subseteq FrameSet /\ f \in FrameSet
  BY DEF TypeOK
<1>1. CASE Receive(f)
  <2> DEFINE r == Head(f.left)
  <2>1. /\ f.left # <<>> /\ r \in Contexts /\ Called(f) \in FrameSet /\ Skipped(f) \in FrameSet
        /\ Called(f).kind = f.kind
    BY <1>0, <1>1, ReceiveCases, CalledTyped
  <2>2. f.from \in Contexts
    BY <1>0 DEF FrameSet
  <2>3. WantedFrame(r, f.from) \in FrameSet
    BY <2>1, <2>2, SignalsTyped
  <2>4. frames' \subseteq FrameSet
    BY <1>0, <1>1, <2>1, <2>3, ReceiveCases
  <2>5. queue' \in [Contexts -> Seq(FrameSet)] /\ \A d \in Contexts : queue'[d] # <<>> \/ change[d] = NoChange
    <3>1. queue \in [Contexts -> Seq(FrameSet)] /\ \A d \in Contexts : queue[d] # <<>> \/ change[d] = NoChange
      BY DEF TypeOK
    <3>2. queue' = queue \/ queue' = [queue EXCEPT ![r] = Append(@, Called(f))]
      BY <1>1, ReceiveCases
    <3>3. Append(queue[r], Called(f)) \in Seq(FrameSet) /\ Append(queue[r], Called(f)) # <<>>
      BY <2>1, <3>1
    <3> QED BY <2>1, <3>1, <3>2, <3>3
  <2>6. bus' \in [Contexts -> Seq(Work)]
    <3>1. bus \in [Contexts -> Seq(Work)]
      BY DEF TypeOK
    <3>2. CASE f.kind = "event"
      <4>1. [step |-> "import", frame |-> Called(f)] \in Work
        BY <2>1, <3>2 DEF Work
      <4>2. bus' = bus \/ bus' = [bus EXCEPT ![r] =
                                     Append(@, [step |-> "import", frame |-> Called(f)])]
        BY <1>1, ReceiveCases
      <4>3. Append(bus[r], [step |-> "import", frame |-> Called(f)]) \in Seq(Work)
        BY <2>1, <3>1, <4>1
      <4> QED BY <2>1, <3>1, <4>2, <4>3
    <3>3. CASE f.kind # "event"
      BY <1>1, <3>1, <3>3, ReceiveCases
    <3> QED BY <3>2, <3>3
  <2>7. UNCHANGED <<lifeVars, group, wanted, publisher, change, spoiled, due, boundVars>>
    BY <1>1, ReceiveCases
  <2> QED BY <2>4, <2>5, <2>6, <2>7 DEF TypeOK, lifeVars, boundVars
<1>2. CASE Replied(f)
  <2>1. PICK g \in Awaited("wanted", f.at, f.from) :
          frames' = (frames \ {f, g}) \union {Resumed(f, g.ok)}
    BY <1>2 DEF Replied
  <2>2. g.ok \in BOOLEAN
    BY <1>0, <2>1 DEF Awaited, FrameSet
  <2>3. frames' \subseteq FrameSet
    BY <1>0, <2>1, <2>2, ResumedTyped
  <2> QED BY <1>2, <2>3 DEF Replied, TypeOK, lifeVars, demandVars, boundVars
<1> QED BY <1>1, <1>2

LEMMA TypeInductive == TypeOK /\ [Next]_vars => TypeOK'
<1> SUFFICES ASSUME TypeOK, [Next]_vars PROVE TypeOK'
  OBVIOUS
<1>1. ASSUME NEW f \in frames, Receive(f) \/ Replied(f)
      PROVE  TypeOK'
  BY <1>1, TypedFrames
<1>2. ASSUME NEW c \in Contexts, Step(c)
      PROVE  TypeOK'
  BY <1>2, TypedLife, TypedDemand, TypedBus DEF Step
<1>3. ASSUME NEW c \in Contexts,
             Open(c) \/ Import(c, FALSE) \/ Close(c) \/ \E t \in Types : Post(c, t)
      PROVE  TypeOK'
  BY <1>3, TypedLife, TypedBus
<1>4. CASE UNCHANGED vars
  BY <1>4 DEF TypeOK, vars, lifeVars, demandVars, boundVars
<1> QED BY <1>1, <1>2, <1>3, <1>4 DEF Next, System

LEMMA TypeInitial == Init => TypeOK
<1> SUFFICES ASSUME Init PROVE TypeOK
  OBVIOUS
<1>1. /\ \A S : <<>> \in Seq(S)
      /\ NoChange \in [stage : {"none", "remove"}, left : SUBSET Types, removed : SUBSET Types,
                       failed : BOOLEAN]
  BY DEF NoChange
<1> QED BY <1>1 DEF Init, TypeOK

-----------------------------------------------------------------------------
(* The announcements that steps leave alone.                               *)

LEMMA SignalFields ==
  ASSUME NEW c, NEW cause
  PROVE  /\ OnlineFrame(c).kind = "online" /\ OnlineFrame(c).from = c
         /\ OnlineFrame(c).cause = "open" /\ OnlineFrame(c).ok /\ OnlineFrame(c).at = Nobody
         /\ OnlineFrame(c).left = Without(group["status"], c)
         /\ WantedFrame(c, cause).kind = "wanted" /\ WantedFrame(c, cause).from = c
         /\ WantedFrame(c, cause).cause = cause /\ WantedFrame(c, cause).ok
         /\ WantedFrame(c, cause).types = (IF cause = "close" THEN {} ELSE Wants[c])
         /\ WantedFrame(c, cause).at = Nobody
         /\ WantedFrame(c, cause).left = Without(group["wanted"], c)
BY DEF OnlineFrame, WantedFrame, Frame

\* The steps of a bus, and the calls of a subscriber for an event.
OnBus(c) ==
  \/ Find(c) \/ Publish(c) \/ Refuse(c) \/ Published(c) \/ Import(c, TRUE) \/ Import(c, FALSE)
  \/ \E t \in Types : Post(c, t)

linkVars == <<phase, withdrawn, leaked, group, wanted, queue, change>>

LEMMA BusIsSilent ==
  ASSUME TypeOK, NEW c \in Contexts, OnBus(c)
  PROVE  Signals' = Signals /\ UNCHANGED linkVars /\ publisher' = publisher
<1>1. CASE Publish(c)
  <2>1. EventFrame(c, Head(bus[c])).kind = "event"
    BY DEF EventFrame, Frame
  <2> QED BY <1>1, <2>1 DEF Publish, Signals, linkVars, lifeVars, demandVars
<1>2. CASE Published(c)
  <2>1. PICK f \in Awaited("event", c, "open") : frames' = frames \ {f}
    BY <1>2 DEF Published
  <2>2. f.kind = "event"
    BY DEF Awaited
  <2> QED BY <1>2, <2>1, <2>2 DEF Published, Signals, linkVars, lifeVars, demandVars
<1>3. ASSUME NEW ok \in BOOLEAN, Import(c, ok)
      PROVE  Signals' = Signals /\ UNCHANGED linkVars /\ publisher' = publisher
  <2> DEFINE f == Head(bus[c]).frame
  <2>1. bus[c] # <<>> /\ Head(bus[c]).step = "import"
    BY <1>3 DEF Import, At
  <2>2. f \in FrameSet /\ f.kind = "event"
    BY <2>1, WorkTyped
  <2>3. Resumed(f, ok).kind = "event"
    BY <2>2, ResumedTyped
  <2>4. frames' = (frames \ {f}) \union {Resumed(f, ok)}
    BY <1>3 DEF Import
  <2> QED BY <1>3, <2>2, <2>3, <2>4 DEF Import, Signals, linkVars, lifeVars, demandVars
<1>4. ASSUME NEW t \in Types, Post(c, t)
      PROVE  Signals' = Signals /\ UNCHANGED linkVars /\ publisher' = publisher
  BY <1>4 DEF Post, Signals, linkVars, lifeVars, demandVars
<1>5. CASE Find(c) \/ Refuse(c)
  BY <1>5 DEF Find, Refuse, Signals, linkVars, lifeVars, demandVars
<1> QED BY <1>1, <1>2, <1>3, <1>4, <1>5 DEF OnBus

LEMMA EventCallIsSilent ==
  ASSUME TypeOK, NEW f \in frames, Receive(f), f.kind = "event"
  PROVE  Signals' = Signals /\ UNCHANGED linkVars
<1>1. Called(f).kind = "event" /\ Skipped(f).kind = "event"
  BY ReceiveCases, CalledTyped
<1>2. \/ frames' = (frames \ {f}) \union {Called(f)}
      \/ frames' = (frames \ {f}) \union {Skipped(f)}
  BY ReceiveCases
<1>3. Signals' = Signals
  BY <1>1, <1>2 DEF Signals
<1>4. UNCHANGED linkVars
  BY ReceiveCases DEF linkVars, lifeVars
<1> QED BY <1>3, <1>4

\* The links between contexts are a matter of their announcements.
LEMMA LinksAreSignals ==
  ASSUME LinkInv, Signals' = Signals, UNCHANGED linkVars
  PROVE  LinkInv'
<1>1. SignalsFit'
  BY DEF LinkInv, SignalsFit, SignalFits, linkVars
<1>2. WantedFits'
  BY DEF LinkInv, WantedFits, linkVars
<1>3. ASSUME NEW c \in Contexts
      PROVE  (QueueFits(c) /\ ChangeFits(c) /\ PhaseFits(c) /\ GroupFits(c))'
  BY DEF LinkInv, QueueFits, ChangeFits, PhaseFits, GroupFits, linkVars, Attached, Reaches
<1> QED BY <1>1, <1>2, <1>3 DEF LinkInv

-----------------------------------------------------------------------------
(* The links between contexts: steps that announce nothing.                *)

LEMMA LinksAttach ==
  ASSUME TypeOK, LinkInv, NEW c \in Contexts, Attach(c)
  PROVE  LinkInv'
<1>1. Signals' = Signals /\ UNCHANGED <<phase, withdrawn, leaked, wanted, queue, change>>
  BY DEF Attach, Signals, lifeVars, demandVars
<1>2. PICK ch \in NextChannels(c) : group' = [group EXCEPT ![ch] = Append(@, c)]
  BY DEF Attach
<1>3. ch \in Channels /\ group \in [Channels -> Seq(Contexts)]
  BY <1>2, IntegrationAssumption DEF NextChannels, Channels, TypeOK
<1>4. ASSUME NEW d \in Contexts, NEW k \in {"status", "wanted"}
      PROVE  Attached(d, k)' <=> Attached(d, k) \/ (d = c /\ k = ch)
  <2>1. group[ch] \in Seq(Contexts) /\ k \in Channels
    BY <1>3 DEF Channels
  <2>2. group'[k] = IF k = ch THEN Append(group[ch], c) ELSE group[k]
    BY <1>2, <1>3, <2>1
  <2>3. d \in ToSet(Append(group[ch], c)) <=> d = c \/ d \in ToSet(group[ch])
    BY <2>1, AppendKeeps
  <2> QED BY <2>2, <2>3 DEF Attached
<1>5. phase[c] = "attaching"
  BY DEF Attach
<1>6. SignalsFit' /\ WantedFits'
  BY <1>1 DEF LinkInv, SignalsFit, SignalFits, WantedFits
<1>7. ASSUME NEW d \in Contexts
      PROVE  (QueueFits(d) /\ ChangeFits(d) /\ PhaseFits(d) /\ GroupFits(d))'
  <2>1. QueueFits(d) /\ ChangeFits(d) /\ PhaseFits(d) /\ GroupFits(d)
    BY DEF LinkInv
  <2>2. (QueueFits(d) /\ ChangeFits(d) /\ PhaseFits(d))'
    BY <1>1, <2>1 DEF QueueFits, ChangeFits, PhaseFits
  <2>3. GroupFits(d)'
    BY <1>1, <1>4, <1>5, <2>1 DEF GroupFits, Reaches
  <2> QED BY <2>2, <2>3
<1> QED BY <1>6, <1>7 DEF LinkInv

\* Steps of open() and close() that move only the phase.
LEMMA LinksPhase ==
  ASSUME TypeOK, LinkInv, NEW c \in Contexts,
         Open(c) \/ Close(c)
  PROVE  LinkInv'
<1>1. /\ Signals' = Signals /\ UNCHANGED <<withdrawn, leaked, group, wanted, queue, change>>
      /\ \/ phase[c] = "new" /\ phase' = [phase EXCEPT ![c] = "attaching"]
         \/ phase[c] \in {"open", "failed"} /\ phase' = [phase EXCEPT ![c] = "closing"]
  BY DEF Open, Close, Signals, lifeVars, demandVars
<1>2. /\ \A d \in Contexts \ {c} : phase'[d] = phase[d]
      /\ \/ phase[c] = "new" /\ phase'[c] = "attaching"
         \/ phase[c] \in {"open", "failed"} /\ phase'[c] = "closing"
  <2>1. DOMAIN phase = Contexts /\ phase = [d \in Contexts |-> phase[d]]
    BY DEF TypeOK
  <2>2. ASSUME NEW x, phase' = [phase EXCEPT ![c] = x]
        PROVE  phase'[c] = x /\ \A d \in Contexts \ {c} : phase'[d] = phase[d]
    BY <2>1, <2>2
  <2> QED BY <1>1, <2>2
<1>3. \A f \in Signals : f \in FrameSet
  BY DEF TypeOK, Signals
<1>4. SignalsFit' /\ WantedFits'
  <2>1. \A f \in Signals : f.from \in Contexts
    BY <1>3 DEF FrameSet
  <2>2. \A f \in Signals : SignalFits(f)
    BY DEF LinkInv, SignalsFit
  <2>3. \A f \in Signals : SignalFits(f)'
    BY <1>2, <2>1, <2>2 DEF SignalFits
  <2> QED BY <1>1, <2>3 DEF LinkInv, SignalsFit, WantedFits
<1>5. ASSUME NEW d \in Contexts
      PROVE  (QueueFits(d) /\ ChangeFits(d) /\ PhaseFits(d) /\ GroupFits(d))'
  <2>1. QueueFits(d) /\ ChangeFits(d) /\ PhaseFits(d) /\ GroupFits(d)
    BY DEF LinkInv
  <2>2. (QueueFits(d) /\ ChangeFits(d))'
    BY <1>1, <2>1 DEF QueueFits, ChangeFits
  <2>3. PhaseFits(d)'
    BY <1>1, <1>2, <2>1 DEF PhaseFits
  <2>4. GroupFits(d)'
    BY <1>1, <1>2, <2>1 DEF GroupFits, Reaches, Attached
  <2> QED BY <2>2, <2>3, <2>4
<1> QED BY <1>4, <1>5 DEF LinkInv

LEMMA LinksReleased ==
  ASSUME TypeOK, LinkInv, NEW c \in Contexts, Released(c)
  PROVE  LinkInv'
<1>1. Signals' = Signals /\ UNCHANGED <<withdrawn, leaked, wanted, queue, change>>
  BY DEF Released, Signals, lifeVars, demandVars
<1>2. /\ phase[c] = "releasing" /\ phase'[c] \in {"failed", "closed"}
      /\ phase'[c] = "closed" => c \notin leaked
      /\ \A d \in Contexts \ {c} : phase'[d] = phase[d]
  BY DEF Released, TypeOK
<1>3. ASSUME NEW d \in Contexts \ {c}, NEW k \in {"status", "wanted"}
      PROVE  Attached(d, k)' <=> Attached(d, k)
  <2>1. k \in Channels /\ group[k] \in Seq(Contexts)
    BY DEF TypeOK, Channels
  <2>2. group'[k] = Without(group[k], c)
    BY <2>1 DEF Released, Left
  <2> QED BY <2>1, <2>2, WithoutKeeps DEF Attached
<1>4. SignalsFit' /\ WantedFits'
  <2>1. \A f \in Signals : f.from \in Contexts
    BY DEF TypeOK, Signals, FrameSet
  <2>2. \A f \in Signals : SignalFits(f)
    BY DEF LinkInv, SignalsFit
  <2>3. \A f \in Signals : SignalFits(f)'
    BY <1>2, <2>1, <2>2 DEF SignalFits
  <2> QED BY <1>1, <2>3 DEF LinkInv, SignalsFit, WantedFits
<1>5. ASSUME NEW d \in Contexts
      PROVE  (QueueFits(d) /\ ChangeFits(d) /\ PhaseFits(d) /\ GroupFits(d))'
  <2>1. QueueFits(d) /\ ChangeFits(d) /\ PhaseFits(d) /\ GroupFits(d)
    BY DEF LinkInv
  <2>2. (QueueFits(d) /\ ChangeFits(d))'
    BY <1>1, <2>1 DEF QueueFits, ChangeFits
  <2>3. PhaseFits(d)'
    BY <1>1, <1>2, <2>1 DEF PhaseFits
  <2>4. GroupFits(d)'
    BY <1>1, <1>2, <1>3, <2>1 DEF GroupFits, Reaches
  <2> QED BY <2>2, <2>3, <2>4
<1> QED BY <1>4, <1>5 DEF LinkInv

\* Steps that close publishers.
LEMMA LinksClosing ==
  ASSUME TypeOK, LinkInv, NEW c \in Contexts, NEW t \in Types,
         RemoveStarts(c, t) \/ RemoveEnds(c, t) \/ ReleaseStarts(c, t) \/ ReleaseEnds(c, t)
  PROVE  LinkInv'
<1>1. Signals' = Signals /\ UNCHANGED <<phase, withdrawn, leaked, group, wanted, queue>>
  BY DEF RemoveStarts, RemoveEnds, ReleaseStarts, ReleaseEnds, Signals, lifeVars
<1>2. CASE change' = change
  BY <1>1, <1>2, LinksAreSignals DEF linkVars
<1>3. CASE RemoveEnds(c, t)
  <2>1. t \in change[c].left
    BY <1>3 DEF RemoveEnds
  <2>2. change \in [Contexts -> Changes]
    BY DEF TypeOK, Changes
  <2>3. /\ change'[c].stage = change[c].stage /\ change'[c].removed = change[c].removed
        /\ change'[c].left \subseteq change[c].left
        /\ \A d \in Contexts \ {c} : change'[d] = change[d]
    BY <1>3, <2>2 DEF RemoveEnds, Changes
  <2>4. SignalsFit' /\ WantedFits'
    BY <1>1 DEF LinkInv, SignalsFit, SignalFits, WantedFits
  <2>5. ASSUME NEW d \in Contexts
        PROVE  (QueueFits(d) /\ ChangeFits(d) /\ PhaseFits(d) /\ GroupFits(d))'
    <3>1. QueueFits(d) /\ ChangeFits(d) /\ PhaseFits(d) /\ GroupFits(d)
      BY DEF LinkInv
    <3>2. (QueueFits(d) /\ PhaseFits(d) /\ GroupFits(d))'
      BY <1>1, <3>1 DEF QueueFits, PhaseFits, GroupFits, Reaches, Attached
    <3>3. change[c] # NoChange
      BY <2>1 DEF NoChange
    <3>4. ChangeFits(d)'
      BY <1>1, <2>1, <2>3, <3>1, <3>3 DEF ChangeFits
    <3> QED BY <3>2, <3>4
  <2> QED BY <2>4, <2>5 DEF LinkInv
<1> QED BY <1>2, <1>3 DEF RemoveStarts, ReleaseStarts, ReleaseEnds

LEMMA LinksBeginChange ==
  ASSUME TypeOK, LinkInv, NEW c \in Contexts, BeginChange(c)
  PROVE  LinkInv'
<1>1. Signals' = Signals /\ UNCHANGED <<phase, withdrawn, leaked, group, wanted, queue>>
  BY DEF BeginChange, Signals, lifeVars
<1> DEFINE f == Head(queue[c])
           removed == {t \in wanted[c][f.from] \ (f.types \union Elsewhere(c, f.from)) :
                         publisher[c][t] # "none"}
<1>2. /\ queue[c] # <<>>
      /\ change' = [change EXCEPT ![c] = [stage |-> "remove", left |-> removed,
                                          removed |-> removed, failed |-> FALSE]]
  BY DEF BeginChange
<1>3. f.cause # "close" => removed = {}
  <2>1. f.from \in Contexts /\ 1 \in DOMAIN queue[c] /\ f = queue[c][1]
    <3>1. queue[c] \in Seq(FrameSet)
      BY DEF TypeOK
    <3> QED BY <1>2, <3>1, HeadTyped
  <2>2. f \in Signals /\ f.kind = "wanted"
    BY <2>1 DEF LinkInv, QueueFits
  <2>3. f.cause # "close" => f.types = Wants[f.from]
    BY <2>2 DEF LinkInv, SignalsFit, SignalFits
  <2>4. wanted[c][f.from] \subseteq Wants[f.from]
    BY <2>1 DEF LinkInv, WantedFits
  <2> QED BY <2>3, <2>4
<1>4. SignalsFit' /\ WantedFits'
  BY <1>1 DEF LinkInv, SignalsFit, SignalFits, WantedFits
<1>5. ASSUME NEW d \in Contexts
      PROVE  (QueueFits(d) /\ ChangeFits(d) /\ PhaseFits(d) /\ GroupFits(d))'
  <2>1. QueueFits(d) /\ ChangeFits(d) /\ PhaseFits(d) /\ GroupFits(d)
    BY DEF LinkInv
  <2>2. (QueueFits(d) /\ PhaseFits(d) /\ GroupFits(d))'
    BY <1>1, <2>1 DEF QueueFits, PhaseFits, GroupFits, Reaches, Attached
  <2> HIDE DEF removed
  <2>3. ChangeFits(d)'
    <3>1. CASE d = c
      <4>1. change'[c] = [stage |-> "remove", left |-> removed, removed |-> removed,
                          failed |-> FALSE]
        BY <1>2 DEF TypeOK
      <4> QED BY <1>1, <1>2, <1>3, <3>1, <4>1 DEF ChangeFits
    <3>2. CASE d # c
      BY <1>1, <1>2, <2>1, <3>2 DEF ChangeFits, TypeOK
    <3> QED BY <3>1, <3>2
  <2> QED BY <2>2, <2>3
<1> QED BY <1>4, <1>5 DEF LinkInv

-----------------------------------------------------------------------------
(* The links between contexts: announcements.                              *)

LEMMA SignalTyped ==
  ASSUME TypeOK, NEW f \in Signals
  PROVE  /\ f \in frames /\ f \in FrameSet /\ f.from \in Contexts /\ f.kind \in {"online", "wanted"}
         /\ f.left \in Seq(Contexts) /\ f.at \in Contexts \union {Nobody} /\ f.types \in SUBSET Types
         /\ f.cause \in Contexts \union {"open", "close"} /\ f.ok \in BOOLEAN
BY DEF TypeOK, Signals, FrameSet

LEMMA NobodyElse == Nobody \notin Contexts /\ "open" \notin Contexts /\ "close" \notin Contexts
BY IntegrationAssumption DEF Nobody

\* An announcement that has settled is taken by its origin.
LEMMA AwaitedFacts ==
  ASSUME TypeOK, LinkInv, NEW kind \in {"online", "wanted"}, NEW c, NEW cause,
         NEW f \in Awaited(kind, c, cause)
  PROVE  /\ f \in Signals /\ f.kind = kind /\ f.from = c /\ f.cause = cause /\ f.at = Nobody
         /\ f.ok => f.left = <<>>
         /\ \A g \in Signals : g.kind = kind /\ g.from = c /\ g.cause = cause => g = f
         /\ \A d \in Contexts : \A i \in DOMAIN queue[d] : queue[d][i] # f
<1>1. /\ f \in Signals /\ f.kind = kind /\ f.from = c /\ f.cause = cause /\ f.at = Nobody
      /\ f.ok => f.left = <<>>
  BY DEF Awaited, Settled, Signals
<1>2. \A g \in Signals : g.kind = kind /\ g.from = c /\ g.cause = cause => g = f
  BY <1>1 DEF LinkInv, SignalsFit
<1>3. \A d \in Contexts : \A i \in DOMAIN queue[d] : queue[d][i] # f
  BY <1>1, NobodyElse DEF LinkInv, QueueFits
<1> QED BY <1>1, <1>2, <1>3

LEMMA PhaseMoves ==
  ASSUME TypeOK, NEW c \in Contexts, NEW x, phase' = [phase EXCEPT ![c] = x]
  PROVE  phase'[c] = x /\ \A d \in Contexts \ {c} : phase'[d] = phase[d]
<1>1. phase = [d \in Contexts |-> phase[d]]
  BY DEF TypeOK
<1> QED BY <1>1

LEMMA LinksAnnounce ==
  ASSUME TypeOK, LinkInv, NEW c \in Contexts, Announce(c)
  PROVE  LinkInv'
<1> DEFINE O == OnlineFrame(c)
<1>1. /\ UNCHANGED <<withdrawn, leaked, group, wanted, queue, change>>
      /\ phase[c] = "attaching" /\ phase'[c] = "online" /\ NextChannels(c) = {}
      /\ \A d \in Contexts \ {c} : phase'[d] = phase[d]
  BY PhaseMoves DEF Announce, demandVars
<1>2. /\ O.kind = "online" /\ O.from = c /\ O.cause = "open" /\ O.ok /\ O.at = Nobody
      /\ Signals' = Signals \union {O}
  <2>1. O.kind = "online" /\ O.from = c /\ O.cause = "open" /\ O.ok /\ O.at = Nobody
    BY SignalFields
  <2>2. frames' = frames \union {O}
    BY DEF Announce
  <2> HIDE DEF O
  <2> QED BY <2>1, <2>2 DEF Signals
<1> HIDE DEF O
<1>3. \A f \in Signals : ~ (f.kind = "online" /\ f.from = c)
  BY <1>1 DEF LinkInv, SignalsFit, SignalFits
<1>4. SignalsFit'
  <2>1. \A f \in Signals : SignalFits(f) /\ f.from \in Contexts
    BY SignalTyped DEF LinkInv, SignalsFit
  <2>2. \A f \in Signals' : SignalFits(f)'
    BY <1>1, <1>2, <2>1 DEF SignalFits
  <2>3. \A f, g \in Signals : f.kind = g.kind /\ f.from = g.from /\ f.cause = g.cause => f = g
    BY DEF LinkInv, SignalsFit
  <2>4. \A f, g \in Signals' : f.kind = g.kind /\ f.from = g.from /\ f.cause = g.cause => f = g
    BY <1>2, <1>3, <2>3
  <2>5. \A g \in Signals' : IsReply(g) => \E f \in Signals' : Answers(g, f)
    BY <1>2 DEF LinkInv, SignalsFit, IsReply
  <2> QED BY <2>2, <2>4, <2>5 DEF SignalsFit
<1>5. ASSUME NEW d \in Contexts
      PROVE  (QueueFits(d) /\ ChangeFits(d) /\ PhaseFits(d) /\ GroupFits(d))'
  <2>1. QueueFits(d) /\ ChangeFits(d) /\ PhaseFits(d) /\ GroupFits(d)
    BY DEF LinkInv
  <2>2. (QueueFits(d) /\ ChangeFits(d))'
    BY <1>1, <1>2, <2>1 DEF QueueFits, ChangeFits
  <2>3. PhaseFits(d)'
    BY <1>1, <1>2, <2>1, NobodyElse DEF PhaseFits
  <2>4. Attached(c, "status") /\ Attached(c, "wanted")
    BY <1>1 DEF NextChannels
  <2>5. GroupFits(d)'
    BY <1>1, <1>2, <2>1, <2>4 DEF GroupFits, Attached, Reaches
  <2> QED BY <2>2, <2>3, <2>5
<1>6. WantedFits'
  BY <1>1 DEF LinkInv, WantedFits
<1> QED BY <1>4, <1>5, <1>6 DEF LinkInv

LEMMA LinksAnnounceWanted ==
  ASSUME TypeOK, LinkInv, NEW c \in Contexts, AnnounceWanted(c)
  PROVE  LinkInv'
<1> DEFINE W == WantedFrame(c, "open")
<1>1. /\ UNCHANGED <<withdrawn, leaked, group, wanted, queue, change>>
      /\ phase[c] = "online" /\ phase'[c] = "announcing"
      /\ \A d \in Contexts \ {c} : phase'[d] = phase[d]
  BY PhaseMoves DEF AnnounceWanted, demandVars
<1>2. /\ W.kind = "wanted" /\ W.from = c /\ W.cause = "open" /\ W.ok /\ W.at = Nobody
      /\ W.types = Wants[c] /\ W.left = Without(group["wanted"], c)
  BY SignalFields
<1>3. PICK f \in Awaited("online", c, "open") : frames' = (frames \ {f}) \union {W}
  BY DEF AnnounceWanted
<1>4. /\ f \in Signals /\ f.kind = "online" /\ f.from = c /\ f.at = Nobody /\ f.cause = "open"
      /\ \A g \in Signals : g.kind = "online" /\ g.from = c /\ g.cause = "open" => g = f
      /\ \A d \in Contexts : \A i \in DOMAIN queue[d] : queue[d][i] # f
  BY <1>3, AwaitedFacts
<1> HIDE DEF W
<1>5. Signals' = (Signals \ {f}) \union {W}
  BY <1>2, <1>3 DEF Signals
<1>6. SignalsFit'
  <2>1. \A g \in Signals : SignalFits(g) /\ g.from \in Contexts
    BY SignalTyped DEF LinkInv, SignalsFit
  <2>2. \A g \in Signals' : SignalFits(g)'
    BY <1>1, <1>2, <1>4, <1>5, <2>1 DEF SignalFits
  <2>3. \A x, y \in Signals : x.kind = y.kind /\ x.from = y.from /\ x.cause = y.cause => x = y
    BY DEF LinkInv, SignalsFit
  <2>4. \A x \in Signals : ~ (x.kind = "wanted" /\ x.from = c /\ x.cause = "open")
    BY <1>1, <2>1 DEF SignalFits
  <2>5. \A x, y \in Signals' : x.kind = y.kind /\ x.from = y.from /\ x.cause = y.cause => x = y
    BY <1>2, <1>5, <2>3, <2>4
  <2>6. ASSUME NEW g \in Signals', IsReply(g)
        PROVE  \E x \in Signals' : Answers(g, x)
    <3>1. g \in Signals /\ g.from \in Contexts
      BY <1>2, <1>5, <2>1, <2>6, NobodyElse DEF IsReply
    <3>2. PICK x \in Signals : Answers(g, x)
      BY <2>6, <3>1 DEF LinkInv, SignalsFit
    <3>3. x # f
      BY <1>4, <3>1, <3>2, NobodyElse DEF Answers
    <3> QED BY <1>5, <3>2, <3>3
  <2> QED BY <2>2, <2>5, <2>6 DEF SignalsFit
<1>7. ASSUME NEW d \in Contexts
      PROVE  (QueueFits(d) /\ ChangeFits(d) /\ PhaseFits(d) /\ GroupFits(d))'
  <2>1. QueueFits(d) /\ ChangeFits(d) /\ PhaseFits(d) /\ GroupFits(d)
    BY DEF LinkInv
  <2>2. (QueueFits(d) /\ ChangeFits(d))'
    BY <1>1, <1>4, <1>5, <2>1 DEF QueueFits, ChangeFits
  <2>3. PhaseFits(d)'
    BY <1>1, <1>2, <1>5, <2>1 DEF PhaseFits
  <2>4. d # c /\ ~ Attached(d, "wanted") => ~ Reaches(W, d)
    <3>1. group["wanted"] \in Seq(Contexts)
      BY DEF TypeOK, Channels
    <3> QED BY <1>2, <3>1, WithoutKeeps, NobodyElse DEF Reaches, Attached
  <2>5. GroupFits(d)'
    BY <1>1, <1>2, <1>5, <2>1, <2>4 DEF GroupFits, Attached, Reaches
  <2> QED BY <2>2, <2>3, <2>5
<1>8. WantedFits'
  BY <1>1 DEF LinkInv, WantedFits
<1> QED BY <1>6, <1>7, <1>8 DEF LinkInv

\* A settled announcement of wanted types is taken, and its origin goes on.
LEMMA LinksTaken ==
  ASSUME TypeOK, LinkInv, NEW c \in Contexts, Ready(c) \/ Withdrawn(c)
  PROVE  LinkInv'
<1> DEFINE Takes(cause, f) ==
      /\ frames' = frames \ {f}
      /\ \/ /\ cause = "open" /\ phase[c] = "announcing" /\ phase' = [phase EXCEPT ![c] = "open"]
            /\ UNCHANGED <<withdrawn, leaked>>
         \/ /\ cause = "close" /\ phase[c] = "withdrawing"
            /\ phase' = [phase EXCEPT ![c] = "releasing"]
            /\ \/ withdrawn' = withdrawn \union {c} /\ leaked' = leaked
               \/ withdrawn' = withdrawn /\ leaked' = leaked \union {c}
<1>0. PICK cause \in {"open", "close"} : \E f \in Awaited("wanted", c, cause) : Takes(cause, f)
  BY DEF Ready, Withdrawn, Leak
<1>1. PICK f \in Awaited("wanted", c, cause) : Takes(cause, f)
  BY <1>0
<1>2. UNCHANGED <<group, wanted, queue, change>>
  BY DEF Ready, Withdrawn, demandVars
<1>3. /\ f \in Signals /\ f.kind = "wanted" /\ f.from = c /\ f.cause = cause
      /\ \A g \in Signals : g.kind = "wanted" /\ g.from = c /\ g.cause = cause => g = f
      /\ \A d \in Contexts : \A i \in DOMAIN queue[d] : queue[d][i] # f
  BY <1>1, AwaitedFacts
<1>4. Signals' = Signals \ {f}
  BY <1>1 DEF Signals
<1>5. /\ phase'[c] \in {"open", "releasing"} /\ \A d \in Contexts \ {c} : phase'[d] = phase[d]
      /\ \/ /\ phase[c] = "announcing" /\ phase'[c] = "open" /\ cause = "open"
            /\ UNCHANGED <<withdrawn, leaked>>
         \/ /\ phase[c] = "withdrawing" /\ phase'[c] = "releasing" /\ cause = "close"
            /\ c \in withdrawn' \union leaked'
            /\ withdrawn \subseteq withdrawn' /\ withdrawn' \subseteq withdrawn \union {c}
            /\ leaked \subseteq leaked'
  BY <1>1, PhaseMoves
<1>6. SignalsFit'
  <2>1. \A g \in Signals : SignalFits(g) /\ g.from \in Contexts
    BY SignalTyped DEF LinkInv, SignalsFit
  <2>2. ASSUME NEW g \in Signals'
        PROVE  SignalFits(g)'
    <3>1. g \in Signals /\ g # f /\ SignalFits(g) /\ g.from \in Contexts
      BY <1>4, <2>1
    <3>2. g.from = c /\ g.kind = "wanted" => g.cause # cause
      BY <1>3, <3>1
    <3> QED BY <1>5, <3>1, <3>2 DEF SignalFits
  <2>3. ASSUME NEW g \in Signals', IsReply(g)
        PROVE  \E x \in Signals' : Answers(g, x)
    <3>1. PICK x \in Signals : Answers(g, x)
      BY <1>4, <2>3 DEF LinkInv, SignalsFit
    <3> QED BY <1>3, <1>4, <3>1 DEF Answers
  <2>4. \A x, y \in Signals' : x.kind = y.kind /\ x.from = y.from /\ x.cause = y.cause => x = y
    BY <1>4 DEF LinkInv, SignalsFit
  <2> QED BY <2>2, <2>3, <2>4 DEF SignalsFit
<1>7. ASSUME NEW d \in Contexts
      PROVE  (QueueFits(d) /\ ChangeFits(d) /\ PhaseFits(d) /\ GroupFits(d))'
  <2>1. QueueFits(d) /\ ChangeFits(d) /\ PhaseFits(d) /\ GroupFits(d)
    BY DEF LinkInv
  <2>2. (QueueFits(d) /\ ChangeFits(d))'
    BY <1>2, <1>3, <1>4, <2>1 DEF QueueFits, ChangeFits
  <2>3. PhaseFits(d)'
    BY <1>4, <1>5, <2>1 DEF PhaseFits
  <2>4. GroupFits(d)'
    BY <1>2, <1>4, <1>5, <2>1 DEF GroupFits, Attached, Reaches
  <2> QED BY <2>2, <2>3, <2>4
<1>8. WantedFits'
  BY <1>2 DEF LinkInv, WantedFits
<1> QED BY <1>6, <1>7, <1>8 DEF LinkInv

LEMMA LinksWithdraw ==
  ASSUME TypeOK, LinkInv, NEW c \in Contexts, Withdraw(c)
  PROVE  LinkInv'
<1> DEFINE W == WantedFrame(c, "close")
<1>1. /\ UNCHANGED <<withdrawn, leaked, group, wanted, queue, change>>
      /\ phase[c] = "closing" /\ phase'[c] \in {"withdrawing", "releasing"}
      /\ \A d \in Contexts \ {c} : phase'[d] = phase[d]
      /\ \A f \in Signals : f.at # c
      /\ \/ c \in withdrawn /\ phase'[c] = "releasing" /\ Signals' = Signals
         \/ c \notin withdrawn /\ phase'[c] = "withdrawing" /\ frames' = frames \union {W}
  BY PhaseMoves DEF Withdraw, Drained, Accepted, demandVars, Signals
<1>2. /\ W.kind = "wanted" /\ W.from = c /\ W.cause = "close" /\ W.at = Nobody
      /\ W.types = {} /\ W.left = Without(group["wanted"], c)
  BY SignalFields
<1> HIDE DEF W
<1>3. \/ c \in withdrawn /\ phase'[c] = "releasing" /\ Signals' = Signals
      \/ c \notin withdrawn /\ phase'[c] = "withdrawing" /\ Signals' = Signals \union {W}
  BY <1>1, <1>2 DEF Signals
<1>4. SignalsFit'
  <2>1. \A g \in Signals : SignalFits(g) /\ g.from \in Contexts
    BY SignalTyped DEF LinkInv, SignalsFit
  <2>2. \A g \in Signals' : SignalFits(g)'
    BY <1>1, <1>2, <1>3, <2>1 DEF SignalFits
  <2>3. \A x, y \in Signals : x.kind = y.kind /\ x.from = y.from /\ x.cause = y.cause => x = y
    BY DEF LinkInv, SignalsFit
  <2>4. \A x \in Signals : ~ (x.kind = "wanted" /\ x.from = c /\ x.cause = "close")
    BY <1>1, <2>1 DEF SignalFits
  <2>5. \A x, y \in Signals' : x.kind = y.kind /\ x.from = y.from /\ x.cause = y.cause => x = y
    BY <1>2, <1>3, <2>3, <2>4
  <2>6. ASSUME NEW g \in Signals', IsReply(g)
        PROVE  \E x \in Signals' : Answers(g, x)
    <3>1. g \in Signals
      BY <1>2, <1>3, <2>6, NobodyElse DEF IsReply
    <3> QED BY <1>3, <2>6, <3>1 DEF LinkInv, SignalsFit
  <2> QED BY <2>2, <2>5, <2>6 DEF SignalsFit
<1>5. ASSUME NEW d \in Contexts
      PROVE  (QueueFits(d) /\ ChangeFits(d) /\ PhaseFits(d) /\ GroupFits(d))'
  <2>1. QueueFits(d) /\ ChangeFits(d) /\ PhaseFits(d) /\ GroupFits(d)
    BY DEF LinkInv
  <2>2. (QueueFits(d) /\ ChangeFits(d))'
    BY <1>1, <1>3, <2>1 DEF QueueFits, ChangeFits
  <2>3. PhaseFits(d)'
    BY <1>1, <1>2, <1>3, <2>1 DEF PhaseFits
  <2>4. d # c /\ ~ Attached(d, "wanted") => ~ Reaches(W, d)
    <3>1. group["wanted"] \in Seq(Contexts)
      BY DEF TypeOK, Channels
    <3> QED BY <1>2, <3>1, WithoutKeeps, NobodyElse DEF Reaches, Attached
  <2>5. GroupFits(d)'
    BY <1>1, <1>2, <1>3, <2>1, <2>4 DEF GroupFits, Attached, Reaches
  <2> QED BY <2>2, <2>3, <2>5
<1>6. WantedFits'
  BY <1>1 DEF LinkInv, WantedFits
<1> QED BY <1>4, <1>5, <1>6 DEF LinkInv

-----------------------------------------------------------------------------
(* The links between contexts: announcements on their way.                 *)

LEMMA FitMoved ==
  ASSUME TypeOK, SignalsFit, NEW f \in Signals, NEW h,
         h.kind = f.kind /\ h.from = f.from /\ h.cause = f.cause /\ h.types = f.types,
         h.ok = f.ok \/ (f.kind = "wanted" /\ f.cause = "close"),
         f.kind = "wanted" \/ f.at = Nobody,
         Signals' = (Signals \ {f}) \union {h}, phase' = phase
  PROVE  SignalsFit'
<1>1. \A g \in Signals : SignalFits(g) /\ g.from \in Contexts
  BY SignalTyped DEF SignalsFit
<1>2. \A g \in Signals' : SignalFits(g)'
  BY <1>1 DEF SignalFits
<1>3. \A x, y \in Signals : x.kind = y.kind /\ x.from = y.from /\ x.cause = y.cause => x = y
  BY DEF SignalsFit
<1>4. \A x, y \in Signals' : x.kind = y.kind /\ x.from = y.from /\ x.cause = y.cause => x = y
  BY <1>3
<1>5. ASSUME NEW g \in Signals', IsReply(g)
      PROVE  \E x \in Signals' : Answers(g, x)
  <2>1. PICK k \in Signals : /\ k.kind = g.kind /\ k.from = g.from /\ k.cause = g.cause
                             /\ IsReply(k)
    BY <1>5 DEF IsReply
  <2>2. PICK x \in Signals : Answers(k, x)
    BY <2>1 DEF SignalsFit
  <2>3. x # f
    BY <1>1, <2>1, <2>2, NobodyElse DEF Answers
  <2> QED BY <2>1, <2>2, <2>3 DEF Answers
<1> QED BY <1>2, <1>4, <1>5 DEF SignalsFit

\* A frame in a queue, as a member of a group, leaves one way only.
LEMMA ReceivedFacts ==
  ASSUME TypeOK, LinkInv, NEW f \in frames, Receive(f), f.kind # "event"
  PROVE  /\ f \in Signals /\ f.at = Nobody
         /\ UNCHANGED <<phase, withdrawn, leaked, group, wanted, change>>
         /\ \A d \in Contexts : \A i \in DOMAIN queue[d] : queue[d][i] # f
         /\ \A d \in Contexts : Reaches(Called(f), d) \/ Reaches(Skipped(f), d) => Reaches(f, d)
         /\ \A d \in Contexts : Reaches(f, d) /\ Listening(d) => Reaches(Called(f), d)
         /\ \A d \in Contexts : Reaches(f, d) /\ d # Head(f.left) => Reaches(Skipped(f), d)
<1>1. f \in Signals /\ f.at = Nobody /\ f.left # <<>> /\ f \in FrameSet
      /\ UNCHANGED <<phase, withdrawn, leaked, group, wanted, change>>
  BY ReceiveCases DEF Signals, lifeVars
<1>2. \A d \in Contexts : \A i \in DOMAIN queue[d] : queue[d][i] # f
  BY <1>1, NobodyElse DEF LinkInv, QueueFits
<1>3. f.left \in Seq(Contexts)
  BY <1>1, SignalTyped
<1>4. \A d \in Contexts : d \in ToSet(f.left) <=> d = Head(f.left) \/ d \in ToSet(Tail(f.left))
  BY <1>1, <1>3, CallFirst
<1>5. /\ Called(f).at = Head(f.left) /\ Called(f).left = Tail(f.left)
      /\ Skipped(f).at = f.at /\ Skipped(f).left = Tail(f.left)
  BY <1>1, CalledTyped
<1> QED BY <1>1, <1>2, <1>4, <1>5, NobodyElse DEF Reaches

LEMMA LinksSkipped ==
  ASSUME TypeOK, LinkInv, NEW f \in frames, Receive(f), f.kind # "event",
         frames' = (frames \ {f}) \union {Skipped(f)}, queue' = queue
  PROVE  LinkInv'
<1>1. /\ f \in Signals /\ f.at = Nobody
      /\ UNCHANGED <<phase, withdrawn, leaked, group, wanted, change>>
      /\ \A d \in Contexts : \A i \in DOMAIN queue[d] : queue[d][i] # f
      /\ \A d \in Contexts : Reaches(Skipped(f), d) => Reaches(f, d)
  BY ReceivedFacts
<1> DEFINE h == Skipped(f)
<1>2. /\ h.kind = f.kind /\ h.from = f.from /\ h.cause = f.cause /\ h.types = f.types
      /\ h.ok = f.ok /\ h.at = f.at
  BY ReceiveCases, CalledTyped
<1> HIDE DEF h
<1>3. Signals' = (Signals \ {f}) \union {h}
  BY <1>1, <1>2 DEF Signals, h
<1>4. SignalsFit' /\ WantedFits'
  BY <1>1, <1>2, <1>3, FitMoved DEF LinkInv, WantedFits
<1>5. ASSUME NEW d \in Contexts
      PROVE  (QueueFits(d) /\ ChangeFits(d) /\ PhaseFits(d) /\ GroupFits(d))'
  <2>1. QueueFits(d) /\ ChangeFits(d) /\ PhaseFits(d) /\ GroupFits(d)
    BY DEF LinkInv
  <2>2. (QueueFits(d) /\ ChangeFits(d))'
    BY <1>1, <1>3, <2>1 DEF QueueFits, ChangeFits
  <2>3. PhaseFits(d)'
    BY <1>1, <1>2, <1>3, <2>1 DEF PhaseFits
  <2>4. Reaches(h, d) => Reaches(f, d)
    BY <1>1 DEF h
  <2>5. GroupFits(d)'
    BY <1>1, <1>2, <1>3, <2>1, <2>4 DEF GroupFits, Attached, Reaches
  <2> QED BY <2>2, <2>3, <2>5
<1> QED BY <1>4, <1>5 DEF LinkInv

LEMMA QueueGrows ==
  ASSUME NEW S, NEW s \in Seq(S), NEW x \in S
  PROVE  /\ DOMAIN Append(s, x) = 1 .. Len(s) + 1 /\ DOMAIN s = 1 .. Len(s) /\ Len(s) \in Nat
         /\ Append(s, x)[Len(s) + 1] = x
         /\ \A i \in 1 .. Len(s) : Append(s, x)[i] = s[i]
         /\ s # <<>> => Head(Append(s, x)) = Head(s)
         /\ Append(s, x) # <<>>
<1>1. /\ Append(s, x) \in Seq(S) /\ Len(Append(s, x)) = Len(s) + 1
      /\ \A i \in 1 .. Len(s) : Append(s, x)[i] = s[i]
      /\ Append(s, x)[Len(s) + 1] = x
  BY AppendProperties
<1>2. Len(s) \in Nat /\ DOMAIN s = 1 .. Len(s)
  OBVIOUS
<1>3. DOMAIN Append(s, x) = 1 .. Len(s) + 1
  BY <1>1
<1>4. Append(s, x) # <<>>
  BY AppendProperties
<1>5. ASSUME s # <<>>
      PROVE  Head(Append(s, x)) = Head(s)
  <2>1. 1 \in 1 .. Len(s) /\ Head(s) = s[1]
    BY <1>5
  <2>2. Head(Append(s, x)) = Append(s, x)[1]
    BY <1>1, <1>4
  <2> QED BY <1>1, <2>1, <2>2
<1> QED BY <1>1, <1>2, <1>3, <1>4, <1>5

LEMMA LinksCalledWanted ==
  ASSUME TypeOK, LinkInv, NEW f \in frames, Receive(f), f.kind = "wanted",
         frames' = (frames \ {f}) \union {Called(f)},
         queue' = [queue EXCEPT ![Head(f.left)] = Append(@, Called(f))]
  PROVE  LinkInv'
<1>1. /\ f \in Signals /\ f.at = Nobody
      /\ UNCHANGED <<phase, withdrawn, leaked, group, wanted, change>>
      /\ \A d \in Contexts : \A i \in DOMAIN queue[d] : queue[d][i] # f
      /\ \A d \in Contexts : Reaches(Called(f), d) => Reaches(f, d)
  BY ReceivedFacts
<1> DEFINE h == Called(f)
           r == Head(f.left)
<1>2. /\ h.kind = f.kind /\ h.from = f.from /\ h.cause = f.cause /\ h.types = f.types
      /\ h.ok = f.ok /\ h.at = r /\ r \in Contexts /\ h \in FrameSet
  BY ReceiveCases, CalledTyped
<1> HIDE DEF h, r
<1>3. Signals' = (Signals \ {f}) \union {h}
  BY <1>1, <1>2 DEF Signals, h
<1>4. SignalsFit' /\ WantedFits'
  BY <1>1, <1>2, <1>3, FitMoved DEF LinkInv, WantedFits
<1>5. h \notin Signals
  <2>1. h \in Signals => h = f
    BY <1>1, <1>2 DEF LinkInv, SignalsFit
  <2> QED BY <1>1, <1>2, <2>1, NobodyElse
<1>6. queue[r] \in Seq(FrameSet) /\ \A d \in Contexts : queue'[d] = IF d = r THEN Append(queue[r], h) ELSE queue[d]
  BY <1>2 DEF TypeOK, h, r
<1>7. /\ DOMAIN queue'[r] = 1 .. Len(queue[r]) + 1 /\ DOMAIN queue[r] = 1 .. Len(queue[r])
      /\ Len(queue[r]) \in Nat
      /\ queue'[r][Len(queue[r]) + 1] = h
      /\ \A i \in 1 .. Len(queue[r]) : queue'[r][i] = queue[r][i]
      /\ queue[r] # <<>> => Head(queue'[r]) = Head(queue[r])
      /\ queue'[r] # <<>>
  <2>1. queue'[r] = Append(queue[r], h)
    BY <1>2, <1>6
  <2> QED BY <1>2, <1>6, <2>1, QueueGrows
<1>8. ASSUME NEW d \in Contexts
      PROVE  (QueueFits(d) /\ ChangeFits(d) /\ PhaseFits(d) /\ GroupFits(d))'
  <2>1. QueueFits(d) /\ ChangeFits(d) /\ PhaseFits(d) /\ GroupFits(d)
    BY DEF LinkInv
  <2>2. QueueFits(d)'
    <3>1. CASE d = r
      <4>1. \A i \in 1 .. Len(queue[r]) :
              queue[r][i] \in Signals /\ queue[r][i].kind = "wanted" /\ queue[r][i].at = r
        BY <1>7, <2>1, <3>1 DEF QueueFits
      <4>2. \A i, j \in 1 .. Len(queue[r]) : queue[r][i] = queue[r][j] => i = j
        BY <1>7, <2>1, <3>1 DEF QueueFits
      <4>3. \A i \in 1 .. Len(queue[r]) : queue[r][i] # f /\ queue[r][i] # h
        BY <1>1, <1>2, <1>5, <1>7, <4>1
      <4>4. \A i \in DOMAIN queue'[r] :
              queue'[r][i] \in Signals' /\ queue'[r][i].kind = "wanted" /\ queue'[r][i].at = r
        BY <1>2, <1>3, <1>7, <4>1, <4>3
      <4>5. \A i, j \in DOMAIN queue'[r] : queue'[r][i] = queue'[r][j] => i = j
        BY <1>7, <4>2, <4>3
      <4> QED BY <3>1, <4>4, <4>5 DEF QueueFits
    <3>2. CASE d # r
      <4>1. queue'[d] = queue[d]
        BY <1>6, <3>2
      <4>2. \A i \in DOMAIN queue[d] : queue[d][i] # f
        BY <1>1
      <4>3. \A i \in DOMAIN queue[d] : queue[d][i] \in Signals'
        BY <1>3, <2>1, <4>2 DEF QueueFits
      <4> QED BY <2>1, <4>1, <4>3 DEF QueueFits
    <3> QED BY <3>1, <3>2
  <2>3. ChangeFits(d)'
    BY <1>1, <1>6, <1>7, <2>1 DEF ChangeFits
  <2>4. PhaseFits(d)'
    BY <1>1, <1>2, <1>3, <2>1 DEF PhaseFits
  <2>5. Reaches(h, d) => Reaches(f, d)
    BY <1>1 DEF h
  <2>6. GroupFits(d)'
    BY <1>1, <1>2, <1>3, <2>1, <2>5 DEF GroupFits, Attached, Reaches
  <2> QED BY <2>2, <2>3, <2>4, <2>6
<1> QED BY <1>4, <1>8 DEF LinkInv

LEMMA LinksCalledOnline ==
  ASSUME TypeOK, LinkInv, NEW f \in frames, Receive(f), f.kind = "online",
         Listening(Head(f.left)), queue' = queue,
         frames' = (frames \ {f}) \union {Called(f), WantedFrame(Head(f.left), f.from)}
  PROVE  LinkInv'
<1>1. /\ f \in Signals /\ f.at = Nobody
      /\ UNCHANGED <<phase, withdrawn, leaked, group, wanted, change>>
      /\ \A d \in Contexts : \A i \in DOMAIN queue[d] : queue[d][i] # f
  BY ReceivedFacts
<1> DEFINE h == Called(f)
           r == Head(f.left)
           W == WantedFrame(r, f.from)
<1>2. /\ h.kind = f.kind /\ h.from = f.from /\ h.cause = f.cause /\ h.ok = f.ok /\ h.at = r
      /\ r \in Contexts
  BY ReceiveCases, CalledTyped
<1>3. f.from \in Contexts
  BY <1>1, SignalTyped
<1>4. /\ W.kind = "wanted" /\ W.from = r /\ W.cause = f.from /\ W.at = Nobody /\ W.ok
      /\ W.types = Wants[r] /\ W.left = Without(group["wanted"], r)
  BY <1>3, SignalFields, NobodyElse
<1>5. phase[r] \in {"attaching", "online", "announcing", "open"}
  BY DEF Listening
<1>6. frames' = (frames \ {f}) \union {h, W}
  OBVIOUS
<1> HIDE DEF h, r, W
<1>7. Signals' = (Signals \ {f}) \union {h, W}
  BY <1>1, <1>2, <1>4, <1>6 DEF Signals
<1>8. \A x \in Signals : SignalFits(x) /\ x.from \in Contexts
  BY SignalTyped DEF LinkInv, SignalsFit
<1>9. \A x, y \in Signals : x.kind = y.kind /\ x.from = y.from /\ x.cause = y.cause => x = y
  BY DEF LinkInv, SignalsFit
<1>10. \A x \in Signals : ~ (x.kind = "wanted" /\ x.from = r /\ x.cause = f.from)
  <2>1. SUFFICES ASSUME NEW x \in Signals, x.kind = "wanted", x.from = r, x.cause = f.from
                 PROVE  FALSE
    OBVIOUS
  <2>2. PICK y \in Signals : Answers(x, y)
    BY <1>3, <2>1 DEF LinkInv, SignalsFit, IsReply
  <2>3. y.kind = "online" /\ y.from = f.from /\ y.cause = "open" /\ y.at = r
    BY <1>8, <2>1, <2>2 DEF Answers, SignalFits
  <2>4. f.cause = "open"
    BY <1>1, <1>8 DEF SignalFits
  <2>5. y = f
    BY <1>1, <1>9, <2>3, <2>4
  <2> QED BY <1>1, <1>2, <2>3, <2>5, NobodyElse
<1>11. SignalsFit'
  <2>1. \A x \in Signals' : SignalFits(x)'
    BY <1>1, <1>2, <1>3, <1>4, <1>7, <1>8, NobodyElse DEF SignalFits
  <2>2. \A x, y \in Signals' : x.kind = y.kind /\ x.from = y.from /\ x.cause = y.cause => x = y
    BY <1>1, <1>2, <1>4, <1>7, <1>9, <1>10
  <2>3. ASSUME NEW g \in Signals', IsReply(g)
        PROVE  \E x \in Signals' : Answers(g, x)
    <3>1. CASE g = W
      BY <1>2, <1>4, <1>7, <3>1 DEF Answers
    <3>2. CASE g # W
      <4>1. g \in Signals /\ g.from \in Contexts
        BY <1>2, <1>7, <1>8, <2>3, <3>2 DEF IsReply
      <4>2. PICK x \in Signals : Answers(g, x)
        BY <2>3, <4>1 DEF LinkInv, SignalsFit
      <4>3. x # f
        BY <1>1, <4>1, <4>2, NobodyElse DEF Answers
      <4> QED BY <1>7, <4>2, <4>3
    <3> QED BY <3>1, <3>2
  <2> QED BY <2>1, <2>2, <2>3 DEF SignalsFit
<1>12. ASSUME NEW d \in Contexts
       PROVE  (QueueFits(d) /\ ChangeFits(d) /\ PhaseFits(d) /\ GroupFits(d))'
  <2>1. QueueFits(d) /\ ChangeFits(d) /\ PhaseFits(d) /\ GroupFits(d)
    BY DEF LinkInv
  <2>2. (QueueFits(d) /\ ChangeFits(d))'
    BY <1>1, <1>7, <2>1 DEF QueueFits, ChangeFits
  <2>3. PhaseFits(d)'
    BY <1>1, <1>2, <1>4, <1>5, <1>7, <2>1 DEF PhaseFits
  <2>4. ~ Attached(d, "wanted") => ~ Reaches(W, d)
    <3>1. group["wanted"] \in Seq(Contexts)
      BY DEF TypeOK, Channels
    <3>2. CASE d = r
      BY <1>4, <3>2, NobodyElse DEF Reaches, Attached, Without
    <3>3. CASE d # r
      BY <1>2, <1>4, <3>1, <3>3, WithoutKeeps, NobodyElse DEF Reaches, Attached
    <3> QED BY <3>2, <3>3
  <2>5. GroupFits(d)'
    BY <1>1, <1>2, <1>7, <2>1, <2>4 DEF GroupFits, Attached, Reaches
  <2> QED BY <2>2, <2>3, <2>5
<1>13. WantedFits'
  BY <1>1 DEF LinkInv, WantedFits
<1> QED BY <1>11, <1>12, <1>13 DEF LinkInv

LEMMA LinksReceive ==
  ASSUME TypeOK, LinkInv, NEW f \in frames, Receive(f)
  PROVE  LinkInv'
<1>1. CASE f.kind = "event"
  BY <1>1, EventCallIsSilent, LinksAreSignals
<1>2. CASE f.kind = "online"
  BY <1>2, ReceiveCases, LinksSkipped, LinksCalledOnline
<1>3. CASE f.kind = "wanted"
  BY <1>3, ReceiveCases, LinksSkipped, LinksCalledWanted
<1>4. f.kind \in {"online", "wanted", "event"}
  BY DEF TypeOK, FrameSet
<1> QED BY <1>1, <1>2, <1>3, <1>4

\* The reply and the online frame it answers, when both are done with c.
LEMMA RepliedFacts ==
  ASSUME TypeOK, LinkInv, NEW f \in frames, Replied(f)
  PROVE  \E g \in Signals :
           /\ f \in Signals /\ f.kind = "online" /\ f.at \in Contexts /\ f.from \in Contexts
           /\ g.kind = "wanted" /\ g.from = f.at /\ g.cause = f.from /\ g.at = Nobody
           /\ g.ok /\ g.left = <<>>
           /\ \A x \in Signals : x.kind = "wanted" /\ x.from = f.at /\ x.cause = f.from => x = g
           /\ \A d \in Contexts : \A i \in DOMAIN queue[d] : queue[d][i] # f /\ queue[d][i] # g
           /\ Signals' = (Signals \ {f, g}) \union {Resumed(f, TRUE)}
           /\ Resumed(f, TRUE).kind = f.kind /\ Resumed(f, TRUE).from = f.from
           /\ Resumed(f, TRUE).cause = f.cause /\ Resumed(f, TRUE).left = f.left
           /\ Resumed(f, TRUE).at = Nobody /\ Resumed(f, TRUE).ok
<1>1. PICK g \in Awaited("wanted", f.at, f.from) :
        frames' = (frames \ {f, g}) \union {Resumed(f, g.ok)}
  BY DEF Replied
<1>2. f \in Signals /\ f.kind = "online" /\ f.at \in Contexts /\ f.from \in Contexts
  <2>1. f \in Signals /\ f.kind = "online" /\ f.at # Nobody
    BY DEF Replied, Signals
  <2> QED BY <2>1, SignalTyped
<1>3. /\ g \in Signals /\ g.kind = "wanted" /\ g.from = f.at /\ g.cause = f.from /\ g.at = Nobody
      /\ g.ok => g.left = <<>>
      /\ \A x \in Signals : x.kind = "wanted" /\ x.from = f.at /\ x.cause = f.from => x = g
      /\ \A d \in Contexts : \A i \in DOMAIN queue[d] : queue[d][i] # g
  BY <1>1, AwaitedFacts
<1>4. g.ok
  BY <1>2, <1>3, NobodyElse DEF LinkInv, SignalsFit, SignalFits
<1>5. g.ok = TRUE
  BY <1>3, <1>4, SignalTyped
<1>6. /\ Resumed(f, TRUE).kind = f.kind /\ Resumed(f, TRUE).from = f.from
      /\ Resumed(f, TRUE).cause = f.cause /\ Resumed(f, TRUE).left = f.left
      /\ Resumed(f, TRUE).at = Nobody /\ Resumed(f, TRUE).ok
  BY <1>2, ResumedTyped, SignalTyped
<1>7. Signals' = (Signals \ {f, g}) \union {Resumed(f, TRUE)}
  BY <1>1, <1>2, <1>5, <1>6 DEF Signals
<1>8. \A d \in Contexts : \A i \in DOMAIN queue[d] : queue[d][i] # f
  BY <1>2 DEF LinkInv, QueueFits
<1> QED BY <1>2, <1>3, <1>4, <1>6, <1>7, <1>8

LEMMA LinksReplied ==
  ASSUME TypeOK, LinkInv, NEW f \in frames, Replied(f)
  PROVE  LinkInv'
<1> DEFINE h == Resumed(f, TRUE)
<1>1. PICK g \in Signals :
        /\ f \in Signals /\ f.kind = "online" /\ f.at \in Contexts /\ f.from \in Contexts
        /\ g.kind = "wanted" /\ g.from = f.at /\ g.cause = f.from
        /\ \A x \in Signals : x.kind = "wanted" /\ x.from = f.at /\ x.cause = f.from => x = g
        /\ \A d \in Contexts : \A i \in DOMAIN queue[d] : queue[d][i] # f /\ queue[d][i] # g
        /\ Signals' = (Signals \ {f, g}) \union {h}
        /\ h.kind = f.kind /\ h.from = f.from /\ h.cause = f.cause /\ h.at = Nobody /\ h.ok
  BY RepliedFacts
<1> HIDE DEF h
<1>2. UNCHANGED <<phase, withdrawn, leaked, group, wanted, queue, change>>
  BY DEF Replied, lifeVars, demandVars
<1>3. SignalsFit'
  <2>1. \A x \in Signals : SignalFits(x) /\ x.from \in Contexts
    BY SignalTyped DEF LinkInv, SignalsFit
  <2>2. \A x \in Signals' : SignalFits(x)'
    BY <1>1, <1>2, <2>1 DEF SignalFits
  <2>3. \A x, y \in Signals : x.kind = y.kind /\ x.from = y.from /\ x.cause = y.cause => x = y
    BY DEF LinkInv, SignalsFit
  <2>4. \A x, y \in Signals' : x.kind = y.kind /\ x.from = y.from /\ x.cause = y.cause => x = y
    BY <1>1, <2>3
  <2>5. ASSUME NEW k \in Signals', IsReply(k)
        PROVE  \E x \in Signals' : Answers(k, x)
    <3>1. k \in Signals /\ k # g
      BY <1>1, <2>5 DEF IsReply
    <3>2. PICK x \in Signals : Answers(k, x)
      BY <2>5, <3>1 DEF LinkInv, SignalsFit
    <3>3. x # f /\ x # g
      BY <1>1, <2>5, <3>1, <3>2 DEF Answers, IsReply
    <3> QED BY <1>1, <3>2, <3>3
  <2> QED BY <2>2, <2>4, <2>5 DEF SignalsFit
<1>4. ASSUME NEW d \in Contexts
      PROVE  (QueueFits(d) /\ ChangeFits(d) /\ PhaseFits(d) /\ GroupFits(d))'
  <2>1. QueueFits(d) /\ ChangeFits(d) /\ PhaseFits(d) /\ GroupFits(d)
    BY DEF LinkInv
  <2>2. (QueueFits(d) /\ ChangeFits(d))'
    BY <1>1, <1>2, <2>1 DEF QueueFits, ChangeFits
  <2>3. PhaseFits(d)'
    BY <1>1, <1>2, <2>1, NobodyElse DEF PhaseFits
  <2>4. GroupFits(d)'
    BY <1>1, <1>2, <2>1 DEF GroupFits, Attached, Reaches
  <2> QED BY <2>2, <2>3, <2>4
<1>5. WantedFits'
  BY <1>2 DEF LinkInv, WantedFits
<1> QED BY <1>3, <1>4, <1>5 DEF LinkInv

LEMMA QueueShrinks ==
  ASSUME NEW S, NEW s \in Seq(S), s # <<>>
  PROVE  /\ Head(s) = s[1] /\ 1 \in DOMAIN s /\ DOMAIN s = 1 .. Len(s) /\ Len(s) \in Nat
         /\ DOMAIN Tail(s) = 1 .. Len(s) - 1
         /\ \A i \in 1 .. Len(s) - 1 : Tail(s)[i] = s[i + 1] /\ i + 1 \in 1 .. Len(s) /\ i + 1 # 1
<1>1. /\ Len(s) \in Nat /\ Len(s) # 0 /\ DOMAIN s = 1 .. Len(s) /\ Head(s) = s[1]
      /\ Tail(s) \in Seq(S) /\ Len(Tail(s)) = Len(s) - 1
      /\ \A i \in 1 .. Len(s) - 1 : Tail(s)[i] = s[i + 1]
  OBVIOUS
<1>2. DOMAIN Tail(s) = 1 .. Len(s) - 1
  BY <1>1
<1> QED BY <1>1, <1>2

\* A transition that settles resumes the frame that has caused it.
LEMMA SettledFacts ==
  ASSUME TypeOK, LinkInv, NEW c \in Contexts, Commit(c) \/ FailChange(c)
  PROVE  LET f == Head(queue[c]) IN
         /\ queue[c] \in Seq(FrameSet) /\ queue[c] # <<>>
         /\ f \in Signals /\ f.kind = "wanted" /\ f.at = c /\ f.from \in Contexts
         /\ f = queue[c][1] /\ 1 \in DOMAIN queue[c]
         /\ UNCHANGED <<phase, withdrawn, leaked, group>>
         /\ queue' = [queue EXCEPT ![c] = Tail(@)] /\ change' = [change EXCEPT ![c] = NoChange]
         /\ \E ok \in BOOLEAN :
              /\ Signals' = (Signals \ {f}) \union {Resumed(f, ok)}
              /\ \/ ok = TRUE /\ wanted' = [wanted EXCEPT ![c][f.from] = f.types]
                 \/ ok = FALSE /\ f.cause = "close" /\ wanted' = wanted
<1> DEFINE f == Head(queue[c])
<1>1. Removed(c) /\ change[c].stage = "remove"
  BY DEF Commit, FailChange, Removed
<1>2. queue[c] \in Seq(FrameSet) /\ queue[c] # <<>>
  <2>1. change[c] # NoChange
    BY <1>1 DEF NoChange
  <2> QED BY <2>1 DEF TypeOK
<1>3. f = queue[c][1] /\ 1 \in DOMAIN queue[c]
  BY <1>2
<1>4. f \in Signals /\ f.kind = "wanted" /\ f.at = c
  BY <1>3 DEF LinkInv, QueueFits
<1>5. f \in FrameSet /\ f.from \in Contexts
  BY <1>4, SignalTyped
<1>6. change[c].failed => f.cause = "close"
  BY <1>1, <1>2 DEF LinkInv, ChangeFits, NoChange
<1>7. \E ok \in BOOLEAN :
        /\ SettleChange(c, ok)
        /\ \/ ok = TRUE /\ wanted' = [wanted EXCEPT ![c][f.from] = f.types]
           \/ ok = FALSE /\ change[c].failed /\ wanted' = wanted
  <2>1. CASE Commit(c)
    BY <2>1 DEF Commit
  <2>2. CASE FailChange(c)
    BY <2>2 DEF FailChange
  <2> QED BY <2>1, <2>2
<1>8. PICK ok \in BOOLEAN :
        /\ SettleChange(c, ok)
        /\ \/ ok = TRUE /\ wanted' = [wanted EXCEPT ![c][f.from] = f.types]
           \/ ok = FALSE /\ change[c].failed /\ wanted' = wanted
  BY <1>7
<1>9. Resumed(f, ok).kind = "wanted"
  BY <1>4, <1>5, ResumedTyped
<1>10. frames' = (frames \ {f}) \union {Resumed(f, ok)}
  BY <1>8 DEF SettleChange
<1>11. Signals' = (Signals \ {f}) \union {Resumed(f, ok)}
  BY <1>4, <1>9, <1>10 DEF Signals
<1>12. /\ UNCHANGED <<phase, withdrawn, leaked, group>>
       /\ queue' = [queue EXCEPT ![c] = Tail(@)] /\ change' = [change EXCEPT ![c] = NoChange]
  BY <1>8 DEF Commit, FailChange, SettleChange, lifeVars
<1> QED BY <1>2, <1>3, <1>4, <1>5, <1>6, <1>8, <1>11, <1>12

LEMMA LinksSettled ==
  ASSUME TypeOK, LinkInv, NEW c \in Contexts, Commit(c) \/ FailChange(c)
  PROVE  LinkInv'
<1> DEFINE f == Head(queue[c])
           q == queue[c]
<1>1. /\ q \in Seq(FrameSet) /\ q # <<>>
      /\ f \in Signals /\ f.kind = "wanted" /\ f.at = c /\ f.from \in Contexts
      /\ f = q[1] /\ 1 \in DOMAIN q
      /\ UNCHANGED <<phase, withdrawn, leaked, group>>
      /\ queue' = [queue EXCEPT ![c] = Tail(@)] /\ change' = [change EXCEPT ![c] = NoChange]
  BY SettledFacts
<1>2. PICK ok \in BOOLEAN :
        /\ Signals' = (Signals \ {f}) \union {Resumed(f, ok)}
        /\ \/ ok = TRUE /\ wanted' = [wanted EXCEPT ![c][f.from] = f.types]
           \/ ok = FALSE /\ f.cause = "close" /\ wanted' = wanted
  BY SettledFacts
<1> DEFINE h == Resumed(f, ok)
<1>3. /\ h.kind = f.kind /\ h.from = f.from /\ h.cause = f.cause /\ h.types = f.types
      /\ h.left = f.left /\ h.at = Nobody /\ h.ok = ok
  BY <1>1, SignalTyped, ResumedTyped
<1> HIDE DEF h
<1>4. Signals' = (Signals \ {f}) \union {h}
  BY <1>2 DEF h
<1>5. SignalFits(f) /\ f.ok \in BOOLEAN /\ f.types = (IF f.cause = "close" THEN {} ELSE Wants[f.from])
  BY <1>1, SignalTyped DEF LinkInv, SignalsFit, SignalFits
<1>6. h.ok = f.ok \/ (f.kind = "wanted" /\ f.cause = "close")
  BY <1>1, <1>2, <1>3, <1>5 DEF SignalFits
<1>7. SignalsFit'
  BY <1>1, <1>3, <1>4, <1>6, FitMoved DEF LinkInv
<1>8. ASSUME NEW d \in Contexts, NEW o \in Contexts
      PROVE  /\ wanted'[d][o] \subseteq Wants[o]
             /\ d # c => wanted'[d][o] = wanted[d][o]
  <2>1. wanted \in [Contexts -> [Contexts -> SUBSET Types]] /\ wanted[d][o] \subseteq Wants[o]
    BY DEF TypeOK, LinkInv, WantedFits
  <2>2. f.types \subseteq Wants[f.from]
    BY <1>5
  <2> QED BY <1>1, <1>2, <2>1, <2>2
<1>9. WantedFits'
  BY <1>8 DEF WantedFits
<1>10. queue'[c] = Tail(q) /\ \A d \in Contexts \ {c} : queue'[d] = queue[d]
  BY <1>1 DEF TypeOK
<1>11. change'[c] = NoChange /\ \A d \in Contexts \ {c} : change'[d] = change[d]
  BY <1>1 DEF TypeOK
<1>12. ASSUME NEW d \in Contexts
       PROVE  (QueueFits(d) /\ ChangeFits(d) /\ PhaseFits(d) /\ GroupFits(d))'
  <2>1. QueueFits(d) /\ ChangeFits(d) /\ PhaseFits(d) /\ GroupFits(d)
    BY DEF LinkInv
  <2>2. QueueFits(d)'
    <3>1. CASE d = c
      <4>1. /\ DOMAIN q = 1 .. Len(q) /\ Len(q) \in Nat
            /\ DOMAIN queue'[c] = 1 .. Len(q) - 1
            /\ \A i \in 1 .. Len(q) - 1 :
                 queue'[c][i] = q[i + 1] /\ i + 1 \in 1 .. Len(q) /\ i + 1 # 1
        <5>1. q \in Seq(FrameSet) /\ q # <<>> /\ queue'[c] = Tail(q)
          BY <1>1, <1>10
        <5> HIDE DEF q
        <5> QED BY <5>1, QueueShrinks
      <4>2. /\ \A i \in DOMAIN q : q[i] \in Signals /\ q[i].kind = "wanted" /\ q[i].at = c
            /\ \A i, j \in DOMAIN q : q[i] = q[j] => i = j
        BY <2>1, <3>1 DEF QueueFits
      <4>3. \A i \in DOMAIN queue'[c] :
              queue'[c][i] \in Signals' /\ queue'[c][i].kind = "wanted" /\ queue'[c][i].at = c
        BY <1>1, <1>4, <4>1, <4>2
      <4>4. \A i, j \in DOMAIN queue'[c] : queue'[c][i] = queue'[c][j] => i = j
        <5>1. SUFFICES ASSUME NEW i \in 1 .. Len(q) - 1, NEW j \in 1 .. Len(q) - 1,
                              queue'[c][i] = queue'[c][j]
                       PROVE  i = j
          BY <4>1
        <5>2. q[i + 1] = q[j + 1] /\ i + 1 \in DOMAIN q /\ j + 1 \in DOMAIN q
          BY <4>1, <5>1
        <5>3. i + 1 = j + 1
          BY <4>2, <5>2
        <5> QED BY <4>1, <5>3
      <4> QED BY <3>1, <4>3, <4>4 DEF QueueFits
    <3>2. CASE d # c
      <4>1. \A i \in DOMAIN queue[d] : queue[d][i] # f
        BY <1>1, <2>1, <3>2 DEF QueueFits
      <4> QED BY <1>4, <1>10, <2>1, <3>2, <4>1 DEF QueueFits
    <3> QED BY <3>1, <3>2
  <2>3. ChangeFits(d)'
    BY <1>10, <1>11, <2>1 DEF ChangeFits
  <2>4. PhaseFits(d)'
    BY <1>1, <1>3, <1>4, <2>1 DEF PhaseFits
  <2>5. GroupFits(d)'
    <3>1. Reaches(h, d) => Reaches(f, d)
      BY <1>3, NobodyElse DEF Reaches
    <3>2. Reaches(f, c)
      BY <1>1 DEF Reaches
    <3> QED BY <1>1, <1>3, <1>4, <1>8, <2>1, <3>1, <3>2 DEF GroupFits, Attached, Reaches
  <2> QED BY <2>2, <2>3, <2>4, <2>5
<1> QED BY <1>7, <1>9, <1>12 DEF LinkInv

LEMMA LinkInitial == Init => LinkInv
<1> SUFFICES ASSUME Init PROVE LinkInv
  OBVIOUS
<1>1. Signals = {} /\ \A c \in Contexts : phase[c] = "new" /\ wanted[c] = [o \in Contexts |-> {}]
        /\ queue[c] = <<>> /\ change[c] = NoChange
  BY DEF Init, Signals
<1>2. \A c \in Contexts : ~ Attached(c, "wanted")
  <2>1. group["wanted"] = <<>>
    BY DEF Init, Channels
  <2> QED BY <2>1 DEF Attached, ToSet
<1>3. SignalsFit /\ WantedFits
  BY <1>1 DEF SignalsFit, WantedFits
<1>4. withdrawn = {} /\ leaked = {}
  BY DEF Init
<1>5. ASSUME NEW c \in Contexts
      PROVE  QueueFits(c) /\ ChangeFits(c) /\ PhaseFits(c) /\ GroupFits(c)
  <2>1. DOMAIN queue[c] = {}
    BY <1>1
  <2>2. QueueFits(c) /\ ChangeFits(c)
    BY <1>1, <2>1 DEF QueueFits, ChangeFits
  <2>3. PhaseFits(c) /\ GroupFits(c)
    BY <1>1, <1>2, <1>4 DEF PhaseFits, GroupFits
  <2> QED BY <2>2, <2>3
<1> QED BY <1>3, <1>5 DEF LinkInv

LEMMA LinkInductive == TypeOK /\ LinkInv /\ [Next]_vars => LinkInv'
<1> SUFFICES ASSUME TypeOK, LinkInv, [Next]_vars PROVE LinkInv'
  OBVIOUS
<1>1. ASSUME NEW f \in frames, Receive(f) \/ Replied(f)
      PROVE  LinkInv'
  BY <1>1, LinksReceive, LinksReplied
<1>2. ASSUME NEW c \in Contexts, OnBus(c)
      PROVE  LinkInv'
  BY <1>2, BusIsSilent, LinksAreSignals
<1>3. ASSUME NEW c \in Contexts, Step(c)
      PROVE  LinkInv'
  BY <1>2, <1>3, LinksAttach, LinksAnnounce, LinksAnnounceWanted, LinksTaken, LinksBeginChange,
     LinksSettled, LinksWithdraw, LinksReleased, LinksClosing DEF Step, OnBus
<1>4. ASSUME NEW c \in Contexts,
             Open(c) \/ Import(c, FALSE) \/ Close(c) \/ \E t \in Types : Post(c, t)
      PROVE  LinkInv'
  BY <1>2, <1>4, LinksPhase DEF OnBus
<1>5. CASE UNCHANGED vars
  <2>1. Signals' = Signals /\ UNCHANGED linkVars
    BY <1>5 DEF vars, lifeVars, demandVars, Signals, linkVars
  <2> QED BY <2>1, LinksAreSignals
<1> QED BY <1>1, <1>3, <1>4, <1>5 DEF Next, System

-----------------------------------------------------------------------------
(* Discovery: the ways of an announcement.                                 *)

LEMMA UnderwayReceived ==
  ASSUME TypeOK, LinkInv, NEW f \in frames, Receive(f), NEW c \in Contexts, Listening(c),
         NEW g \in Signals, g.kind = "wanted", Reaches(g, c)
  PROVE  \E h \in Signals' : /\ h.kind = "wanted" /\ h.from = g.from /\ h.cause = g.cause
                             /\ h.ok = g.ok /\ Reaches(h, c)
<1>1. CASE g # f
  <2>1. g \in Signals'
    BY <1>1, ReceiveCases DEF Signals
  <2> QED BY <2>1
<1>2. CASE g = f
  <2>1. f \in frames /\ f.kind = "wanted" /\ Reaches(f, c)
    BY <1>2
  <2>2. CASE frames' = (frames \ {f}) \union {Skipped(f)} /\ ~ Listening(Head(f.left))
    <3>1. Reaches(Skipped(f), c)
      BY <2>1, <2>2, ReceivedFacts
    <3>2. /\ Skipped(f).kind = f.kind /\ Skipped(f).from = f.from /\ Skipped(f).cause = f.cause
          /\ Skipped(f).ok = f.ok
      BY ReceiveCases, CalledTyped
    <3>3. Skipped(f) \in Signals'
      BY <2>1, <2>2, <3>2 DEF Signals
    <3> QED BY <1>2, <2>1, <3>1, <3>2, <3>3
  <2>3. CASE frames' = (frames \ {f}) \union {Called(f)}
    <3>1. Reaches(Called(f), c)
      BY <2>1, ReceivedFacts
    <3>2. /\ Called(f).kind = f.kind /\ Called(f).from = f.from /\ Called(f).cause = f.cause
          /\ Called(f).ok = f.ok
      BY ReceiveCases, CalledTyped
    <3>3. Called(f) \in Signals'
      BY <2>1, <2>3, <3>2 DEF Signals
    <3> QED BY <1>2, <2>1, <3>1, <3>2, <3>3
  <2> QED BY <2>1, <2>2, <2>3, ReceiveCases
<1> QED BY <1>1, <1>2

\* A transition settles: what was on its way to c is applied or still comes.
LEMMA UnderwaySettled ==
  ASSUME TypeOK, LinkInv, NEW d \in Contexts, Commit(d) \/ FailChange(d),
         NEW c \in Contexts, NEW g \in Signals, g.kind = "wanted", Reaches(g, c),
         ~ (d = c /\ g = Head(queue[c]))
  PROVE  \E h \in Signals' : /\ h.kind = "wanted" /\ h.from = g.from /\ h.cause = g.cause
                             /\ Reaches(h, c)
<1> DEFINE f == Head(queue[d])
<1>1. f \in Signals /\ f.at = d
  BY SettledFacts
<1>2. PICK ok \in BOOLEAN : Signals' = (Signals \ {f}) \union {Resumed(f, ok)}
  BY SettledFacts
<1>3. CASE g # f
  BY <1>2, <1>3
<1>4. CASE g = f
  <2>1. c \in ToSet(f.left)
    BY <1>1, <1>4 DEF Reaches
  <2>2. /\ Resumed(f, ok).kind = f.kind /\ Resumed(f, ok).from = f.from
        /\ Resumed(f, ok).cause = f.cause /\ Resumed(f, ok).left = f.left
    <3>1. f \in FrameSet
      BY <1>1, SignalTyped
    <3> HIDE DEF f
    <3> QED BY <3>1, ResumedTyped
  <2>3. Reaches(Resumed(f, ok), c)
    BY <2>1, <2>2 DEF Reaches
  <2> QED BY <1>2, <1>4, <2>2, <2>3
<1> QED BY <1>3, <1>4

LEMMA DiscoverySame ==
  ASSUME NEW c \in Contexts, NEW o \in Contexts, Discovery(c, o), wanted'[c][o] = wanted[c][o],
         c # o /\ phase'[o] \in {"announcing", "open"}
           /\ phase'[c] \in {"online", "announcing", "open"} =>
             /\ phase'[o] = phase[o] /\ phase'[c] = phase[c]
             /\ phase[o] = "announcing" /\ Underway(c, o, "open") => Underway(c, o, "open")'
             /\ Asking(c, o) /\ phase[c] = "online" => Asking(c, o)'
  PROVE  Discovery(c, o)'
BY DEF Discovery

\* Steps that take no announcement from c's or o's way.
LEMMA DiscoveryMonotone ==
  ASSUME NEW c \in Contexts, NEW o \in Contexts, Discovery(c, o), wanted'[c][o] = wanted[c][o],
         Signals \subseteq Signals',
         c # o /\ phase'[o] \in {"announcing", "open"}
           /\ phase'[c] \in {"online", "announcing", "open"} =>
             phase'[o] = phase[o] /\ phase'[c] = phase[c]
  PROVE  Discovery(c, o)'
<1>1. \A k : Underway(c, o, k) => Underway(c, o, k)'
  BY DEF Underway, Reaches
<1>2. Asking(c, o) => Asking(c, o)'
  BY <1>1 DEF Asking
<1> QED BY <1>1, <1>2, DiscoverySame

LEMMA DiscoveryOpens ==
  ASSUME TypeOK, LinkInv, DiscoveryInv, NEW d \in Contexts, Announce(d) \/ AnnounceWanted(d),
         NEW c \in Contexts, NEW o \in Contexts
  PROVE  Discovery(c, o)'
<1>0. Discovery(c, o) /\ wanted' = wanted /\ group' = group
  BY DEF DiscoveryInv, Announce, AnnounceWanted, demandVars
<1>1. c # o /\ phase[c] \in {"online", "announcing", "open"} =>
        Attached(c, "wanted") /\ Attached(c, "status")
  BY DEF LinkInv, GroupFits
<1>2. c # o /\ phase[o] \in {"online", "announcing", "open"} =>
        Attached(o, "wanted") /\ Attached(o, "status")
  BY DEF LinkInv, GroupFits
<1>3. group["wanted"] \in Seq(Contexts) /\ group["status"] \in Seq(Contexts)
  BY DEF TypeOK, Channels
<1>4. CASE Announce(d)
  <2>1. /\ phase[d] = "attaching" /\ phase'[d] = "online"
        /\ \A e \in Contexts \ {d} : phase'[e] = phase[e]
    BY <1>4, PhaseMoves DEF Announce
  <2>2. OnlineFrame(d) \in Signals' /\ Signals \subseteq Signals'
    BY <1>4, SignalFields DEF Announce, Signals
  <2>3. CASE d = c /\ c # o
    <3>1. phase[o] \in {"announcing", "open"} => o \in ToSet(OnlineFrame(c).left)
      <4>1. phase[o] \in {"announcing", "open"} => o \in ToSet(group["status"])
        BY <1>2, <2>3 DEF Attached
      <4>2. OnlineFrame(c).left = Without(group["status"], c)
        BY SignalFields
      <4> QED BY <1>3, <2>3, <4>1, <4>2, WithoutKeeps
    <3>2. phase[o] \in {"announcing", "open"} => Asking(c, o)'
      BY <2>2, <2>3, <3>1, SignalFields DEF Asking
    <3> QED BY <2>1, <2>3, <3>2 DEF Discovery
  <2>4. CASE d # c \/ c = o
    BY <1>0, <2>1, <2>2, <2>4, DiscoveryMonotone
  <2> QED BY <2>3, <2>4
<1>5. CASE AnnounceWanted(d)
  <2>1. /\ phase[d] = "online" /\ phase'[d] = "announcing"
        /\ \A e \in Contexts \ {d} : phase'[e] = phase[e]
    BY <1>5, PhaseMoves DEF AnnounceWanted
  <2> DEFINE W == WantedFrame(d, "open")
  <2>2. PICK f \in Awaited("online", d, "open") : frames' = (frames \ {f}) \union {W}
    BY <1>5 DEF AnnounceWanted
  <2>3. /\ f \in Signals /\ f.kind = "online" /\ f.from = d /\ f.at = Nobody /\ f.cause = "open"
        /\ f.ok => f.left = <<>>
        /\ \A g \in Signals : g.kind = "online" /\ g.from = d /\ g.cause = "open" => g = f
    BY <2>2, AwaitedFacts
  <2>4. f.ok /\ f.left = <<>>
    BY <2>3 DEF LinkInv, SignalsFit, SignalFits
  <2>5. /\ W.kind = "wanted" /\ W.from = d /\ W.cause = "open"
        /\ W.left = Without(group["wanted"], d)
    BY SignalFields
  <2> HIDE DEF W
  <2>6. Signals' = (Signals \ {f}) \union {W}
    BY <2>2, <2>5 DEF Signals
  <2>7. \A k : Underway(c, o, k) => Underway(c, o, k)'
    BY <2>3, <2>6 DEF Underway, Reaches
  <2>8. CASE d = c /\ c # o
    <3>1. ~ Asking(c, o)
      <4>1. \A g \in Signals : g.kind = "online" /\ g.from = c => g = f
        BY <2>3, <2>8 DEF LinkInv, SignalsFit, SignalFits
      <4>2. o \notin ToSet(f.left) /\ f.at # o
        BY <2>3, <2>4, NobodyElse DEF ToSet
      <4> QED BY <4>1, <4>2 DEF Asking
    <3> QED BY <1>0, <2>1, <2>7, <2>8, <3>1 DEF Discovery
  <2>9. CASE d = o /\ c # o
    <3>1. phase[c] \in {"online", "announcing", "open"} => c \in ToSet(W.left)
      BY <1>1, <1>3, <2>5, <2>9, WithoutKeeps DEF Attached
    <3>2. phase[c] \in {"online", "announcing", "open"} => Underway(c, o, "open")'
      BY <2>5, <2>6, <2>9, <3>1 DEF Underway, Reaches
    <3> QED BY <2>1, <2>9, <3>2 DEF Discovery
  <2>10. CASE d # c /\ d # o
    <3>1. Asking(c, o) => Asking(c, o)'
      BY <2>3, <2>6, <2>7, <2>10 DEF Asking
    <3> QED BY <1>0, <2>1, <2>7, <2>10, <3>1, DiscoverySame
  <2>11. CASE c = o
    BY <2>11 DEF Discovery
  <2> QED BY <2>8, <2>9, <2>10, <2>11
<1> QED BY <1>4, <1>5

LEMMA DiscoveryTaken ==
  ASSUME TypeOK, LinkInv, DiscoveryInv, NEW d \in Contexts, Ready(d) \/ Withdrawn(d),
         NEW c \in Contexts, NEW o \in Contexts
  PROVE  Discovery(c, o)'
<1>0. Discovery(c, o) /\ wanted' = wanted
  BY DEF DiscoveryInv, Ready, Withdrawn, demandVars
<1>1. CASE Ready(d)
  <2>1. PICK f \in Awaited("wanted", d, "open") : frames' = frames \ {f}
    BY <1>1 DEF Ready
  <2>2. /\ f \in Signals /\ f.kind = "wanted" /\ f.from = d /\ f.at = Nobody /\ f.cause = "open"
        /\ f.ok => f.left = <<>>
        /\ \A g \in Signals : g.kind = "wanted" /\ g.from = d /\ g.cause = "open" => g = f
    BY <2>1, AwaitedFacts
  <2>3. ~ Reaches(f, c)
    <3>1. f.ok
      BY <2>2 DEF LinkInv, SignalsFit, SignalFits
    <3> QED BY <2>2, <3>1, NobodyElse DEF Reaches, ToSet
  <2>4. Signals' = Signals \ {f}
    BY <2>1 DEF Signals
  <2>5. \A k : Underway(c, o, k) => Underway(c, o, k)'
    BY <2>3, <2>4 DEF Underway, Reaches
  <2>6. Asking(c, o) => Asking(c, o)'
    BY <2>2, <2>4, <2>5 DEF Asking
  <2>7. /\ phase[d] = "announcing" /\ phase'[d] = "open"
        /\ \A e \in Contexts \ {d} : phase'[e] = phase[e]
    BY <1>1, PhaseMoves DEF Ready
  <2>8. d = o => ~ Underway(c, o, "open")
    BY <2>2, <2>3 DEF Underway
  <2> QED BY <1>0, <2>5, <2>6, <2>7, <2>8 DEF Discovery
<1>2. CASE Withdrawn(d)
  <2>1. PICK f \in Awaited("wanted", d, "close") : frames' = frames \ {f}
    BY <1>2 DEF Withdrawn
  <2>2. f \in Signals /\ f.kind = "wanted" /\ f.from = d /\ f.cause = "close"
    BY <2>1, AwaitedFacts
  <2>3. Signals' = Signals \ {f}
    BY <2>1 DEF Signals
  <2>4. \A k \in {"open", c} : Underway(c, o, k) => Underway(c, o, k)'
    BY <2>2, <2>3, NobodyElse DEF Underway, Reaches
  <2>5. Asking(c, o) => Asking(c, o)'
    BY <2>2, <2>3, <2>4 DEF Asking
  <2>6. phase'[d] = "releasing" /\ \A e \in Contexts \ {d} : phase'[e] = phase[e]
    BY <1>2, PhaseMoves DEF Withdrawn
  <2> QED BY <1>0, <2>4, <2>5, <2>6, DiscoverySame
<1> QED BY <1>1, <1>2

\* The other steps of a context take no announcement away.
Quiet(d) ==
  \/ OnBus(d) \/ Open(d) \/ Close(d) \/ Attach(d) \/ Released(d) \/ BeginChange(d)
  \/ \E t \in Types : \/ RemoveStarts(d, t) \/ RemoveEnds(d, t)
                      \/ ReleaseStarts(d, t) \/ ReleaseEnds(d, t)

LEMMA QuietKeeps ==
  ASSUME TypeOK, NEW d \in Contexts, Quiet(d)
  PROVE  Signals' = Signals /\ wanted' = wanted /\ UNCHANGED withdrawn
<1>1. CASE OnBus(d)
  BY <1>1, BusIsSilent DEF linkVars
<1>2. CASE ~ OnBus(d)
  <2>1. frames' = frames /\ wanted' = wanted /\ UNCHANGED withdrawn
    BY <1>2 DEF Quiet, Open, Close, Attach, Released, BeginChange, RemoveStarts, RemoveEnds,
       ReleaseStarts, ReleaseEnds, lifeVars, demandVars
  <2> QED BY <2>1 DEF Signals
<1> QED BY <1>1, <1>2

LEMMA QuietPhases ==
  ASSUME TypeOK, NEW d \in Contexts, Quiet(d)
  PROVE  /\ \A e \in Contexts \ {d} : phase'[e] = phase[e]
         /\ \/ phase'[d] = phase[d]
            \/ phase[d] = "new" /\ phase'[d] = "attaching" /\ Open(d)
            \/ phase'[d] = "closing"
            \/ phase[d] = "releasing" /\ phase'[d] \in {"failed", "closed"}
<1>1. CASE OnBus(d)
  BY <1>1, BusIsSilent DEF linkVars
<1>2. CASE Open(d) \/ Close(d)
  BY <1>2, PhaseMoves DEF Open, Close
<1>3. CASE Released(d)
  BY <1>3, PhaseMoves DEF Released
<1>4. CASE ~ (OnBus(d) \/ Open(d) \/ Close(d) \/ Released(d))
  <2>1. phase' = phase
    BY <1>4 DEF Quiet, Attach, BeginChange, RemoveStarts, RemoveEnds, ReleaseStarts, ReleaseEnds,
       lifeVars
  <2> QED BY <2>1
<1> QED BY <1>1, <1>2, <1>3, <1>4

LEMMA DiscoveryKept ==
  ASSUME TypeOK, LinkInv, DiscoveryInv, NEW d \in Contexts, Quiet(d) \/ Withdraw(d),
         NEW c \in Contexts, NEW o \in Contexts
  PROVE  Discovery(c, o)'
<1>1. Discovery(c, o)
  BY DEF DiscoveryInv
<1>2. wanted' = wanted /\ Signals \subseteq Signals'
  <2>1. CASE Quiet(d)
    BY <2>1, QuietKeeps
  <2>2. CASE Withdraw(d)
    BY <2>2 DEF Withdraw, Signals, demandVars
  <2> QED BY <2>1, <2>2
<1>3. /\ \A e \in Contexts \ {d} : phase'[e] = phase[e]
      /\ phase'[d] = phase[d] \/ phase'[d] \notin {"online", "announcing", "open"}
  <2>1. CASE Quiet(d)
    BY <2>1, QuietPhases
  <2>2. CASE Withdraw(d)
    BY <2>2, PhaseMoves DEF Withdraw
  <2> QED BY <2>1, <2>2
<1> QED BY <1>1, <1>2, <1>3, DiscoveryMonotone

LEMMA DiscoveryReceived ==
  ASSUME TypeOK, LinkInv, DiscoveryInv, NEW f \in frames, Receive(f),
         NEW c \in Contexts, NEW o \in Contexts
  PROVE  Discovery(c, o)'
<1>1. Discovery(c, o) /\ wanted' = wanted /\ phase' = phase
  BY ReceiveCases DEF DiscoveryInv, lifeVars
<1>2. SUFFICES ASSUME c # o, phase[o] \in {"announcing", "open"},
                      phase[c] \in {"online", "announcing", "open"}
               PROVE  Discovery(c, o)'
  BY <1>1 DEF Discovery
<1>3. Listening(c) /\ Listening(o)
  BY <1>2 DEF Listening
<1>4. \A k : Underway(c, o, k) => Underway(c, o, k)'
  BY <1>3, UnderwayReceived DEF Underway, Reaches
<1>5. ASSUME Asking(c, o)
      PROVE  Asking(c, o)'
  <2>1. PICK x \in Signals :
          /\ x.kind = "online" /\ x.from = c
          /\ o \in ToSet(x.left) \/ (x.at = o /\ Underway(c, o, c))
    BY <1>5 DEF Asking
  <2>2. CASE x # f
    <3>1. x \in Signals'
      BY <2>2, ReceiveCases DEF Signals
    <3> QED BY <1>4, <2>1, <3>1 DEF Asking
  <2>3. CASE x = f
    <3>1. f.kind = "online" /\ f.from = c /\ f.at = Nobody /\ f \in FrameSet /\ f.left # <<>>
      BY <2>1, <2>3, ReceiveCases
    <3>2. o \in ToSet(f.left) /\ Reaches(f, o)
      BY <2>1, <2>3, <3>1, NobodyElse DEF Reaches
    <3>3. CASE ~ Listening(Head(f.left)) /\ frames' = (frames \ {f}) \union {Skipped(f)}
      <4>1. Reaches(Skipped(f), o)
        BY <1>3, <3>1, <3>2, <3>3, ReceivedFacts
      <4>2. Skipped(f).kind = "online" /\ Skipped(f).from = c /\ Skipped(f).at = Nobody
        BY <3>1, CalledTyped
      <4>3. o \in ToSet(Skipped(f).left)
        BY <4>1, <4>2, NobodyElse DEF Reaches
      <4>4. Skipped(f) \in Signals'
        BY <3>3, <4>2 DEF Signals
      <4> QED BY <4>2, <4>3, <4>4 DEF Asking
    <3>4. CASE frames' = (frames \ {f}) \union {Called(f), WantedFrame(Head(f.left), f.from)}
      <4>1. Reaches(Called(f), o)
        BY <1>3, <3>1, <3>2, ReceivedFacts
      <4>2. Called(f).kind = "online" /\ Called(f).from = c /\ Called(f).at = Head(f.left)
        BY <3>1, CalledTyped
      <4>3. Called(f) \in Signals'
        BY <3>4, <4>2 DEF Signals
      <4>4. CASE o \in ToSet(Called(f).left)
        BY <4>2, <4>3, <4>4 DEF Asking
      <4>5. CASE Head(f.left) = o
        <5> DEFINE W == WantedFrame(o, c)
        <5>1. W.kind = "wanted" /\ W.from = o /\ W.cause = c /\ W.left = Without(group["wanted"], o)
          BY SignalFields
        <5> HIDE DEF W
        <5>2. W \in Signals'
          BY <3>1, <3>4, <4>5, <5>1 DEF Signals, W
        <5>3. c \in ToSet(group["wanted"]) /\ group["wanted"] \in Seq(Contexts)
          BY <1>2 DEF LinkInv, GroupFits, Attached, TypeOK, Channels
        <5>4. c \in ToSet(W.left)
          BY <1>2, <5>1, <5>3, WithoutKeeps
        <5>5. Underway(c, o, c)'
          BY <5>1, <5>2, <5>4 DEF Underway, Reaches
        <5> QED BY <4>2, <4>3, <4>5, <5>5 DEF Asking
      <4> QED BY <4>1, <4>2, <4>4, <4>5 DEF Reaches
    <3> QED BY <3>1, <3>3, <3>4, ReceiveCases
  <2> QED BY <2>2, <2>3
<1> QED BY <1>1, <1>4, <1>5, DiscoverySame

LEMMA DiscoveryReplied ==
  ASSUME TypeOK, LinkInv, DiscoveryInv, NEW f \in frames, Replied(f),
         NEW c \in Contexts, NEW o \in Contexts
  PROVE  Discovery(c, o)'
<1> DEFINE h == Resumed(f, TRUE)
<1>1. PICK g \in Signals :
        /\ f \in Signals /\ f.kind = "online" /\ f.at \in Contexts /\ f.from \in Contexts
        /\ g.kind = "wanted" /\ g.from = f.at /\ g.cause = f.from /\ g.at = Nobody
        /\ g.ok /\ g.left = <<>>
        /\ \A x \in Signals : x.kind = "wanted" /\ x.from = f.at /\ x.cause = f.from => x = g
        /\ \A d \in Contexts : \A i \in DOMAIN queue[d] : queue[d][i] # f /\ queue[d][i] # g
        /\ Signals' = (Signals \ {f, g}) \union {h}
        /\ h.kind = f.kind /\ h.from = f.from
        /\ h.cause = f.cause /\ h.left = f.left
        /\ h.at = Nobody /\ h.ok
  BY RepliedFacts, Zenon
<1> HIDE DEF h
<1>2. Discovery(c, o) /\ wanted' = wanted /\ phase' = phase
  BY DEF DiscoveryInv, Replied, lifeVars, demandVars
<1>3. ~ Reaches(g, c)
  BY <1>1, NobodyElse DEF Reaches, ToSet
<1>4. \A k : Underway(c, o, k) => Underway(c, o, k)'
  BY <1>1, <1>3 DEF Underway, Reaches
<1>5. ASSUME Asking(c, o)
      PROVE  Asking(c, o)'
  <2>1. PICK x \in Signals :
          /\ x.kind = "online" /\ x.from = c
          /\ o \in ToSet(x.left) \/ (x.at = o /\ Underway(c, o, c))
    BY <1>5 DEF Asking
  <2>2. CASE x # f
    <3>1. x \in Signals'
      BY <1>1, <2>1, <2>2
    <3> QED BY <1>4, <2>1, <3>1 DEF Asking
  <2>3. CASE x = f
    <3>1. ~ (f.at = o /\ Underway(c, o, c))
      BY <1>1, <1>3, <2>1, <2>3 DEF Underway
    <3>2. o \in ToSet(h.left) /\ h.from = c /\ h.kind = "online" /\ h \in Signals'
      BY <1>1, <2>1, <2>3, <3>1
    <3> QED BY <3>2 DEF Asking
  <2> QED BY <2>2, <2>3
<1> QED BY <1>2, <1>4, <1>5, DiscoverySame

LEMMA DiscoverySettled ==
  ASSUME TypeOK, LinkInv, DiscoveryInv, NEW d \in Contexts, Commit(d) \/ FailChange(d),
         NEW c \in Contexts, NEW o \in Contexts
  PROVE  Discovery(c, o)'
<1> DEFINE f == Head(queue[d])
<1>1. f \in Signals /\ f.kind = "wanted" /\ f.at = d /\ f.from \in Contexts /\ phase' = phase
  BY SettledFacts
<1>2. PICK ok \in BOOLEAN :
        /\ Signals' = (Signals \ {f}) \union {Resumed(f, ok)}
        /\ \/ ok = TRUE /\ wanted' = [wanted EXCEPT ![d][f.from] = f.types]
           \/ ok = FALSE /\ f.cause = "close" /\ wanted' = wanted
  BY SettledFacts
<1>3. SignalFits(f) /\ Discovery(c, o) /\ wanted \in [Contexts -> [Contexts -> SUBSET Types]]
  BY <1>1 DEF LinkInv, SignalsFit, DiscoveryInv, TypeOK
<1> HIDE DEF f
<1>4. CASE d = c /\ f.from = o
  <2>1. phase[o] \in {"announcing", "open"} => f.cause # "close" /\ f.types = Wants[o]
    BY <1>1, <1>3, <1>4 DEF SignalFits
  <2>2. phase[o] \in {"announcing", "open"} => wanted'[c][o] = Wants[o]
    BY <1>2, <1>3, <1>4, <2>1
  <2> QED BY <1>1, <2>2 DEF Discovery
<1>5. CASE ~ (d = c /\ f.from = o)
  <2>1. wanted'[c][o] = wanted[c][o]
    BY <1>1, <1>2, <1>3, <1>5
  <2>2. \A g \in Signals : g.from = o => ~ (d = c /\ g = Head(queue[c]))
    BY <1>5 DEF f
  <2>3. \A k : Underway(c, o, k) => Underway(c, o, k)'
    BY <2>2, UnderwaySettled DEF Underway, Reaches
  <2>4. Asking(c, o) => Asking(c, o)'
    BY <1>1, <1>2, <2>3 DEF Asking
  <2> QED BY <1>1, <1>3, <2>1, <2>3, <2>4, DiscoverySame
<1> QED BY <1>4, <1>5

LEMMA DiscoveryInitial == Init => DiscoveryInv
BY DEF Init, DiscoveryInv, Discovery

LEMMA DiscoveryInductive == TypeOK /\ LinkInv /\ DiscoveryInv /\ [Next]_vars => DiscoveryInv'
<1> SUFFICES ASSUME TypeOK, LinkInv, DiscoveryInv, [Next]_vars, NEW c \in Contexts, NEW o \in Contexts
             PROVE  Discovery(c, o)'
  BY DEF DiscoveryInv
<1>1. ASSUME NEW f \in frames, Receive(f) \/ Replied(f)
      PROVE  Discovery(c, o)'
  BY <1>1, DiscoveryReceived, DiscoveryReplied
<1>2. ASSUME NEW d \in Contexts, Quiet(d)
      PROVE  Discovery(c, o)'
  BY <1>2, DiscoveryKept
<1>3. ASSUME NEW d \in Contexts, Step(d)
      PROVE  Discovery(c, o)'
  BY <1>2, <1>3, DiscoveryOpens, DiscoveryTaken, DiscoverySettled, DiscoveryKept
     DEF Step, Quiet, OnBus
<1>4. ASSUME NEW d \in Contexts,
             Open(d) \/ Import(d, FALSE) \/ Close(d) \/ \E t \in Types : Post(d, t)
      PROVE  Discovery(c, o)'
  BY <1>2, <1>4 DEF Quiet, OnBus
<1>5. CASE UNCHANGED vars
  BY <1>5, DiscoveryMonotone
     DEF DiscoveryInv, vars, lifeVars, demandVars, Signals
<1> QED BY <1>1, <1>3, <1>4, <1>5 DEF Next, System

-----------------------------------------------------------------------------
(* Forgetting: the ways of a withdrawal.                                   *)

LEMMA ForgettingSame ==
  ASSUME NEW c \in Contexts, NEW o \in Contexts, Forgetting(c, o), wanted'[c][o] = wanted[c][o],
         c # o /\ Listening(c)' =>
           /\ Listening(c)
           /\ o \in withdrawn' => o \in withdrawn
           /\ phase'[o] = "withdrawing" => phase[o] = "withdrawing"
           /\ Leaving(c, o) /\ phase'[o] = "withdrawing" => Leaving(c, o)'
  PROVE  Forgetting(c, o)'
BY DEF Forgetting

LEMMA ForgettingKept ==
  ASSUME TypeOK, LinkInv, ForgettingInv, NEW d \in Contexts, Quiet(d),
         NEW c \in Contexts, NEW o \in Contexts
  PROVE  Forgetting(c, o)'
<1>1. Forgetting(c, o) /\ Signals' = Signals /\ wanted' = wanted /\ withdrawn' = withdrawn
  BY QuietKeeps DEF ForgettingInv
<1>2. Leaving(c, o) => Leaving(c, o)'
  BY <1>1 DEF Leaving, Reaches
<1>3. CASE phase[d] = "new" /\ phase'[d] = "attaching" /\ Open(d)
  <2>1. CASE d = c
    <3>1. wanted[c][o] = {}
      BY <1>3, <2>1 DEF LinkInv, GroupFits
    <3> QED BY <1>1, <3>1 DEF Forgetting
  <2>2. CASE d # c
    <3>1. phase'[c] = phase[c] /\ (phase'[o] = "withdrawing" => phase[o] = "withdrawing")
      BY <1>3, <2>2, QuietPhases
    <3> QED BY <1>1, <1>2, <3>1, ForgettingSame DEF Listening
  <2> QED BY <2>1, <2>2
<1>4. CASE ~ (phase[d] = "new" /\ phase'[d] = "attaching" /\ Open(d))
  <2>1. /\ \A e \in Contexts \ {d} : phase'[e] = phase[e]
        /\ phase'[d] = phase[d] \/ phase'[d] \in {"closing", "failed", "closed"}
    BY <1>4, QuietPhases
  <2>2. Listening(c)' => Listening(c)
    BY <2>1 DEF Listening
  <2>3. phase'[o] = "withdrawing" => phase[o] = "withdrawing"
    BY <2>1
  <2> QED BY <1>1, <1>2, <2>2, <2>3, ForgettingSame
<1> QED BY <1>3, <1>4

LEMMA ForgettingOpens ==
  ASSUME TypeOK, LinkInv, ForgettingInv, NEW d \in Contexts,
         Announce(d) \/ AnnounceWanted(d) \/ Ready(d),
         NEW c \in Contexts, NEW o \in Contexts
  PROVE  Forgetting(c, o)'
<1>1. Forgetting(c, o) /\ wanted' = wanted /\ withdrawn' = withdrawn
  BY DEF ForgettingInv, Announce, AnnounceWanted, Ready, demandVars
<1>2. /\ \A e \in Contexts \ {d} : phase'[e] = phase[e]
      /\ phase[d] \in {"attaching", "online", "announcing"}
      /\ phase'[d] \in {"online", "announcing", "open"}
  BY PhaseMoves DEF Announce, AnnounceWanted, Ready
<1>3. \A g \in Signals : g.kind = "wanted" /\ g.cause = "close" => g \in Signals'
  <2>1. CASE Announce(d)
    BY <2>1 DEF Announce, Signals
  <2>2. CASE AnnounceWanted(d)
    BY <2>2 DEF AnnounceWanted, Awaited, Signals
  <2>3. CASE Ready(d)
    BY <2>3 DEF Ready, Awaited, Signals
  <2> QED BY <2>1, <2>2, <2>3
<1>4. Leaving(c, o) => Leaving(c, o)'
  BY <1>3 DEF Leaving, Reaches
<1>5. (Listening(c)' => Listening(c)) /\ (phase'[o] = "withdrawing" => phase[o] = "withdrawing")
  BY <1>2 DEF Listening
<1> QED BY <1>1, <1>4, <1>5, ForgettingSame

LEMMA ForgettingWithdraws ==
  ASSUME TypeOK, LinkInv, ForgettingInv, NEW d \in Contexts, Withdraw(d),
         NEW c \in Contexts, NEW o \in Contexts
  PROVE  Forgetting(c, o)'
<1>1. Forgetting(c, o) /\ wanted' = wanted /\ withdrawn' = withdrawn /\ Signals \subseteq Signals'
  BY DEF ForgettingInv, Withdraw, demandVars, Signals
<1>2. /\ \A e \in Contexts \ {d} : phase'[e] = phase[e]
      /\ phase'[d] = (IF d \in withdrawn THEN "releasing" ELSE "withdrawing")
  BY PhaseMoves DEF Withdraw
<1>3. Leaving(c, o) => Leaving(c, o)'
  BY <1>1 DEF Leaving, Reaches
<1>4. Listening(c)' => Listening(c) /\ d # c
  BY <1>2 DEF Listening
<1>5. CASE d = o /\ d \notin withdrawn /\ d # c /\ Listening(c)
  <2> DEFINE W == WantedFrame(o, "close")
  <2>1. W.kind = "wanted" /\ W.from = o /\ W.cause = "close" /\ W.left = Without(group["wanted"], o)
    BY SignalFields
  <2>2. W \in Signals'
    BY <1>5, <2>1 DEF Withdraw, Signals
  <2> HIDE DEF W
  <2>3. CASE Attached(c, "wanted")
    <3>1. c \in ToSet(W.left)
      <4>1. group["wanted"] \in Seq(Contexts)
        BY DEF TypeOK, Channels
      <4> QED BY <1>5, <2>1, <2>3, <4>1, WithoutKeeps DEF Attached
    <3>2. Leaving(c, o)'
      BY <2>1, <2>2, <3>1 DEF Leaving, Reaches
    <3> QED BY <1>1, <1>5, <3>2 DEF Forgetting
  <2>4. CASE ~ Attached(c, "wanted")
    <3>1. wanted[c][o] = {}
      BY <1>5, <2>4 DEF LinkInv, GroupFits, Listening
    <3> QED BY <1>1, <3>1 DEF Forgetting
  <2> QED BY <2>3, <2>4
<1>6. CASE ~ (d = o /\ d \notin withdrawn)
  <2>1. phase'[o] = "withdrawing" => phase[o] = "withdrawing"
    BY <1>2, <1>6
  <2> QED BY <1>1, <1>3, <1>4, <2>1, ForgettingSame
<1>7. CASE ~ Listening(c)'
  BY <1>7 DEF Forgetting
<1> QED BY <1>4, <1>5, <1>6, <1>7

LEMMA ForgettingWithdrawn ==
  ASSUME TypeOK, LinkInv, ForgettingInv, NEW d \in Contexts, Withdrawn(d),
         NEW c \in Contexts, NEW o \in Contexts
  PROVE  Forgetting(c, o)'
<1>1. PICK f \in Awaited("wanted", d, "close") :
        /\ frames' = frames \ {f}
        /\ withdrawn' = IF f.ok THEN withdrawn \union {d} ELSE withdrawn
  BY DEF Withdrawn
<1>2. /\ f \in Signals /\ f.kind = "wanted" /\ f.from = d /\ f.cause = "close" /\ f.at = Nobody
      /\ f.ok => f.left = <<>>
      /\ \A g \in Signals : g.kind = "wanted" /\ g.from = d /\ g.cause = "close" => g = f
  BY <1>1, AwaitedFacts
<1>3. /\ phase[d] = "withdrawing" /\ phase'[d] = "releasing"
      /\ \A e \in Contexts \ {d} : phase'[e] = phase[e]
  BY PhaseMoves DEF Withdrawn
<1>4. Forgetting(c, o) /\ wanted' = wanted /\ Signals' = Signals \ {f}
  BY <1>1 DEF ForgettingInv, Withdrawn, demandVars, Signals
<1>5. Listening(c)' => Listening(c)
  BY <1>3 DEF Listening
<1>6. CASE d # o
  <2>1. Leaving(c, o) => Leaving(c, o)'
    BY <1>2, <1>4, <1>6 DEF Leaving, Reaches
  <2>2. (o \in withdrawn' => o \in withdrawn) /\ phase'[o] = phase[o]
    BY <1>1, <1>3, <1>6
  <2> QED BY <1>4, <1>5, <2>1, <2>2, ForgettingSame
<1>7. CASE d = o /\ f.ok /\ c # o /\ Listening(c)
  <2>1. ~ Reaches(f, c)
    BY <1>2, <1>7, NobodyElse DEF Reaches, ToSet
  <2>2. ~ Leaving(c, o)
    BY <1>2, <1>7, <2>1 DEF Leaving
  <2>3. wanted[c][o] = {}
    BY <1>3, <1>4, <1>7, <2>2 DEF Forgetting
  <2> QED BY <1>4, <2>3 DEF Forgetting
<1>8. CASE d = o /\ ~ f.ok
  <2>1. phase'[o] # "withdrawing" /\ (o \in withdrawn' => o \in withdrawn)
    BY <1>1, <1>3, <1>8
  <2> QED BY <1>4, <1>5, <2>1, ForgettingSame
<1>9. CASE c = o \/ ~ Listening(c)'
  BY <1>9 DEF Forgetting
<1> QED BY <1>5, <1>6, <1>7, <1>8, <1>9

LEMMA ForgettingReceived ==
  ASSUME TypeOK, LinkInv, ForgettingInv, NEW f \in frames, Receive(f),
         NEW c \in Contexts, NEW o \in Contexts
  PROVE  Forgetting(c, o)'
<1>1. Forgetting(c, o) /\ wanted' = wanted /\ phase' = phase /\ withdrawn' = withdrawn
  BY ReceiveCases DEF ForgettingInv, lifeVars
<1>2. ASSUME Listening(c), Leaving(c, o)
      PROVE  Leaving(c, o)'
  <2>1. PICK g \in Signals :
          /\ g.kind = "wanted" /\ g.from = o /\ g.cause = "close"
          /\ Reaches(g, c) \/ (~ g.ok /\ g.at = Nobody)
    BY <1>2 DEF Leaving
  <2>2. CASE Reaches(g, c)
    <3>1. PICK h \in Signals' : /\ h.kind = "wanted" /\ h.from = o /\ h.cause = "close"
                                /\ Reaches(h, c)
      BY <1>2, <2>1, <2>2, UnderwayReceived
    <3> QED BY <3>1 DEF Leaving, Reaches
  <2>3. CASE ~ g.ok /\ g.at = Nobody
    <3>1. g # f
      BY <2>3 DEF Receive, Settled
    <3>2. g \in Signals'
      BY <3>1, ReceiveCases DEF Signals
    <3> QED BY <2>1, <2>3, <3>2 DEF Leaving
  <2> QED BY <2>1, <2>2, <2>3
<1>3. Listening(c)' => Listening(c)
  BY <1>1 DEF Listening
<1> QED BY <1>1, <1>2, <1>3, ForgettingSame

LEMMA ForgettingReplied ==
  ASSUME TypeOK, LinkInv, ForgettingInv, NEW f \in frames, Replied(f),
         NEW c \in Contexts, NEW o \in Contexts
  PROVE  Forgetting(c, o)'
<1>1. PICK g \in Signals : /\ f.kind = "online" /\ f.from \in Contexts /\ g.cause = f.from
                           /\ Signals' = (Signals \ {f, g}) \union {Resumed(f, TRUE)}
  BY RepliedFacts
<1>2. /\ Forgetting(c, o) /\ wanted' = wanted /\ phase' = phase /\ withdrawn' = withdrawn
  BY DEF ForgettingInv, Replied, lifeVars, demandVars
<1>3. Leaving(c, o) => Leaving(c, o)'
  BY <1>1, NobodyElse DEF Leaving, Reaches
<1>4. Listening(c)' => Listening(c)
  BY <1>2 DEF Listening
<1> QED BY <1>2, <1>3, <1>4, ForgettingSame

\* An origin that withdraws, or has, waits for no other announcement of its own.
LEMMA WithdrawalsAreLast ==
  ASSUME LinkInv, NEW f \in Signals, f.kind = "wanted", NEW o \in Contexts, f.from = o,
         f.cause \in Contexts \union {"open", "close"}
  PROVE  /\ o \notin withdrawn
         /\ phase[o] = "withdrawing" => f.cause = "close" /\ f.types = {}
<1>1. SignalFits(f) /\ PhaseFits(o)
  BY DEF LinkInv, SignalsFit
<1>2. CASE f.cause \in {"open", "close"}
  BY <1>1, <1>2 DEF SignalFits, PhaseFits
<1>3. CASE f.cause \in Contexts
  <2>1. PICK x \in Signals : Answers(f, x)
    BY <1>3 DEF LinkInv, SignalsFit, IsReply
  <2> QED BY <1>1, <2>1 DEF PhaseFits, Answers
<1> QED BY <1>2, <1>3

LEMMA ForgettingSettled ==
  ASSUME TypeOK, LinkInv, ForgettingInv, NEW d \in Contexts, Commit(d) \/ FailChange(d),
         NEW c \in Contexts, NEW o \in Contexts
  PROVE  Forgetting(c, o)'
<1> DEFINE f == Head(queue[d])
<1>1. /\ f \in Signals /\ f.kind = "wanted" /\ f.at = d /\ f.from \in Contexts
      /\ phase' = phase /\ withdrawn' = withdrawn
  BY SettledFacts
<1>2. PICK ok \in BOOLEAN :
        /\ Signals' = (Signals \ {f}) \union {Resumed(f, ok)}
        /\ \/ ok = TRUE /\ wanted' = [wanted EXCEPT ![d][f.from] = f.types]
           \/ ok = FALSE /\ f.cause = "close" /\ wanted' = wanted
  BY SettledFacts
<1>3. Forgetting(c, o) /\ wanted \in [Contexts -> [Contexts -> SUBSET Types]]
  BY DEF ForgettingInv, TypeOK
<1> HIDE DEF f
<1>4. f \in FrameSet /\ f.cause \in Contexts \union {"open", "close"}
  BY <1>1, SignalTyped
<1>5. Listening(c)' => Listening(c)
  BY <1>1 DEF Listening
<1>6. CASE d = c /\ f.from = o
  <2>1. o \notin withdrawn /\ (phase[o] = "withdrawing" => f.cause = "close" /\ f.types = {})
    BY <1>1, <1>4, <1>6, WithdrawalsAreLast
  <2>2. CASE phase[o] = "withdrawing" /\ ok = TRUE
    <3>1. wanted'[c][o] = {}
      BY <1>2, <1>3, <1>6, <2>1, <2>2
    <3> QED BY <3>1 DEF Forgetting
  <2>3. CASE phase[o] = "withdrawing" /\ ok = FALSE
    <3>1. /\ Resumed(f, ok).kind = "wanted" /\ Resumed(f, ok).from = o
          /\ Resumed(f, ok).cause = "close" /\ ~ Resumed(f, ok).ok /\ Resumed(f, ok).at = Nobody
      BY <1>1, <1>4, <1>6, <2>1, <2>3, ResumedTyped
    <3>2. Leaving(c, o)'
      BY <1>2, <3>1 DEF Leaving
    <3> QED BY <1>1, <2>1, <3>2 DEF Forgetting
  <2>4. CASE phase[o] # "withdrawing"
    BY <1>1, <2>1, <2>4 DEF Forgetting
  <2> QED BY <2>2, <2>3, <2>4
<1>7. CASE ~ (d = c /\ f.from = o)
  <2>1. wanted'[c][o] = wanted[c][o]
    BY <1>1, <1>2, <1>3, <1>7
  <2>2. ASSUME Leaving(c, o)
        PROVE  Leaving(c, o)'
    <3>1. PICK g \in Signals :
            /\ g.kind = "wanted" /\ g.from = o /\ g.cause = "close"
            /\ Reaches(g, c) \/ (~ g.ok /\ g.at = Nobody)
      BY <2>2 DEF Leaving
    <3>2. CASE Reaches(g, c)
      <4>1. ~ (d = c /\ g = Head(queue[c]))
        BY <1>7, <3>1 DEF f
      <4>2. PICK h \in Signals' : /\ h.kind = "wanted" /\ h.from = o /\ h.cause = "close"
                                  /\ Reaches(h, c)
        BY <3>1, <3>2, <4>1, UnderwaySettled
      <4> QED BY <4>2 DEF Leaving, Reaches
    <3>3. CASE ~ g.ok /\ g.at = Nobody
      <4>1. g # f
        BY <1>1, <3>3, NobodyElse
      <4> QED BY <1>2, <3>1, <3>3, <4>1 DEF Leaving
    <3> QED BY <3>1, <3>2, <3>3
  <2> QED BY <1>1, <1>3, <1>5, <2>1, <2>2, ForgettingSame
<1> QED BY <1>6, <1>7

LEMMA ForgettingInitial == Init => ForgettingInv
BY DEF Init, ForgettingInv, Forgetting

LEMMA ForgettingInductive == TypeOK /\ LinkInv /\ ForgettingInv /\ [Next]_vars => ForgettingInv'
<1> SUFFICES ASSUME TypeOK, LinkInv, ForgettingInv, [Next]_vars, NEW c \in Contexts, NEW o \in Contexts
             PROVE  Forgetting(c, o)'
  BY DEF ForgettingInv
<1>1. ASSUME NEW f \in frames, Receive(f) \/ Replied(f)
      PROVE  Forgetting(c, o)'
  BY <1>1, ForgettingReceived, ForgettingReplied
<1>2. ASSUME NEW d \in Contexts, Quiet(d)
      PROVE  Forgetting(c, o)'
  BY <1>2, ForgettingKept
<1>3. ASSUME NEW d \in Contexts, Step(d)
      PROVE  Forgetting(c, o)'
  BY <1>2, <1>3, ForgettingOpens, ForgettingSettled, ForgettingWithdraws, ForgettingWithdrawn
     DEF Step, Quiet, OnBus
<1>4. ASSUME NEW d \in Contexts,
             Open(d) \/ Import(d, FALSE) \/ Close(d) \/ \E t \in Types : Post(d, t)
      PROVE  Forgetting(c, o)'
  BY <1>2, <1>4 DEF Quiet, OnBus
<1>5. CASE UNCHANGED vars
  BY <1>5 DEF ForgettingInv, Forgetting, Listening, Leaving, Reaches,
     vars, lifeVars, demandVars, Signals
<1> QED BY <1>1, <1>3, <1>4, <1>5 DEF Next, System

-----------------------------------------------------------------------------
(* Exports: the publishers follow the recorded demand.                     *)

\* Contexts whose publishers no close() takes away.
Exporting(c) == phase[c] = "new" \/ Listening(c)

LEMMA ExportsSame ==
  ASSUME NEW c \in Contexts, ExportsFit(c),
         Exporting(c)' /\ spoiled'[c] = {} => Exporting(c) /\ spoiled[c] = {},
         publisher'[c] = publisher[c], wanted'[c] = wanted[c], change'[c] = change[c],
         change[c].stage = "remove" => Head(queue'[c]) = Head(queue[c])
  PROVE  ExportsFit(c)'
BY DEF ExportsFit, Exporting

LEMMA ExportsMoved ==
  ASSUME TypeOK, NEW c \in Contexts, ExportsFit(c), NEW d \in Contexts,
         \/ Open(d) \/ Attach(d) \/ Announce(d) \/ AnnounceWanted(d) \/ Ready(d)
         \/ Close(d) \/ Withdraw(d) \/ Withdrawn(d)
  PROVE  ExportsFit(c)'
<1>1. UNCHANGED <<publisher, wanted, change, queue, spoiled>>
  BY DEF Open, Attach, Announce, AnnounceWanted, Ready, Close, Withdraw, Withdrawn, demandVars
<1>2. Exporting(c)' => Exporting(c)
  <2>1. CASE Attach(d)
    BY <2>1 DEF Attach, lifeVars, Exporting, Listening
  <2>2. CASE ~ Attach(d)
    <3>1. /\ \A e \in Contexts \ {d} : phase'[e] = phase[e]
          /\ \/ phase[d] \in {"new", "attaching", "online", "announcing"}
             \/ phase'[d] \in {"closing", "releasing", "withdrawing"}
      BY <2>2, PhaseMoves
         DEF Open, Announce, AnnounceWanted, Ready, Close, Withdraw, Withdrawn
    <3> QED BY <3>1 DEF Exporting, Listening
  <2> QED BY <2>1, <2>2
<1> QED BY <1>1, <1>2, ExportsSame

LEMMA ExportsOnBus ==
  ASSUME TypeOK, NEW c \in Contexts, ExportsFit(c), NEW d \in Contexts, OnBus(d)
  PROVE  ExportsFit(c)'
<1>1. UNCHANGED linkVars /\ publisher' = publisher
  BY BusIsSilent
<1>2. spoiled'[c] = {} => spoiled[c] = {}
  <2>1. CASE Published(d)
    <3>1. PICK f \in frames :
            spoiled' = IF f.ok THEN spoiled ELSE [spoiled EXCEPT ![d] = @ \union f.types]
      BY <2>1 DEF Published, Awaited
    <3> QED BY <3>1 DEF TypeOK
  <2>2. CASE ~ Published(d)
    <3>1. spoiled' = spoiled
      BY <2>2 DEF OnBus, Find, Publish, Refuse, Import, Post
    <3> QED BY <3>1
  <2> QED BY <2>1, <2>2
<1> QED BY <1>1, <1>2, ExportsSame DEF linkVars, Exporting, Listening

LEMMA ExportsReceived ==
  ASSUME TypeOK, LinkInv, NEW c \in Contexts, ExportsFit(c), NEW f \in frames,
         Receive(f) \/ Replied(f)
  PROVE  ExportsFit(c)'
<1>1. UNCHANGED <<phase, publisher, wanted, change, spoiled>>
  BY ReceiveCases DEF Replied, lifeVars, demandVars
<1>2. change[c].stage = "remove" => queue[c] # <<>>
  BY DEF TypeOK, NoChange
<1>3. queue[c] # <<>> => Head(queue'[c]) = Head(queue[c])
  <2>1. CASE queue' = queue
    BY <2>1
  <2>2. CASE Receive(f) /\ queue' = [queue EXCEPT ![Head(f.left)] = Append(@, Called(f))]
    <3>1. Called(f) \in FrameSet /\ queue[c] \in Seq(FrameSet)
      BY <2>2, ReceiveCases, CalledTyped DEF TypeOK
    <3>2. queue[c] # <<>> => Head(Append(queue[c], Called(f))) = Head(queue[c])
      BY <3>1, QueueGrows
    <3>3. queue'[c] = queue[c] \/ queue'[c] = Append(queue[c], Called(f))
      BY <2>2 DEF TypeOK
    <3> QED BY <3>2, <3>3
  <2>3. Replied(f) => queue' = queue
    BY DEF Replied, demandVars
  <2> QED BY <2>1, <2>2, <2>3, ReceiveCases
<1> QED BY <1>1, <1>2, <1>3, ExportsSame DEF Exporting, Listening

\* Another context's publishers, demand and transitions stay as they are.
LEMMA ExportsOfOthers ==
  ASSUME TypeOK, NEW c \in Contexts, ExportsFit(c), NEW d \in Contexts \ {c},
         \/ Released(d) \/ BeginChange(d) \/ Commit(d) \/ FailChange(d)
         \/ \E t \in Types : \/ RemoveStarts(d, t) \/ RemoveEnds(d, t)
                             \/ ReleaseStarts(d, t) \/ ReleaseEnds(d, t)
  PROVE  ExportsFit(c)'
<1>1. publisher'[c] = publisher[c]
  BY DEF TypeOK, Released, BeginChange, Commit, FailChange, RemoveStarts, RemoveEnds,
     ReleaseStarts, ReleaseEnds, StartsClosing, EndsClosing
<1>2. wanted'[c] = wanted[c] /\ change'[c] = change[c] /\ queue'[c] = queue[c]
  BY DEF TypeOK, Released, BeginChange, Commit, FailChange, RemoveStarts, RemoveEnds,
     ReleaseStarts, ReleaseEnds, SettleChange
<1>3. phase'[c] = phase[c] /\ spoiled' = spoiled
  BY DEF TypeOK, Released, BeginChange, Commit, FailChange, RemoveStarts, RemoveEnds,
     ReleaseStarts, ReleaseEnds, lifeVars
<1> QED BY <1>1, <1>2, <1>3, ExportsSame DEF Exporting, Listening

LEMMA ExportsReleased ==
  ASSUME TypeOK, NEW c \in Contexts,
         Released(c) \/ \E t \in Types : ReleaseStarts(c, t) \/ ReleaseEnds(c, t)
  PROVE  ExportsFit(c)'
<1>1. phase'[c] \in {"releasing", "failed", "closed"}
  BY PhaseMoves DEF Released, ReleaseStarts, ReleaseEnds, lifeVars
<1> QED BY <1>1 DEF ExportsFit, Listening

LEMMA ExportsBegin ==
  ASSUME TypeOK, LinkInv, NEW c \in Contexts, ExportsFit(c), BeginChange(c)
  PROVE  ExportsFit(c)'
<1> DEFINE f == Head(queue[c])
           previous == wanted[c][f.from]
           elsewhere == Elsewhere(c, f.from)
           add == (f.types \intersect Known(c)) \ (previous \union elsewhere)
           removed == {t \in previous \ (f.types \union elsewhere) : publisher[c][t] # "none"}
<1>1. /\ publisher' = [publisher EXCEPT ![c] = [t \in Types |-> IF t \in add THEN "on" ELSE @[t]]]
      /\ change' = [change EXCEPT ![c] = [stage |-> "remove", left |-> removed,
                      removed |-> removed, failed |-> FALSE]]
      /\ UNCHANGED <<phase, wanted, queue, spoiled>>
  BY DEF BeginChange, lifeVars
<1>2. f.from \in Contexts /\ f.types \in SUBSET Types
  BY HeadTyped DEF BeginChange
<1>3. \A t : t \in elsewhere <=> \E o \in Contexts \ {f.from} : t \in wanted[c][o]
  BY DEF Elsewhere
<1>4. previous \in SUBSET Types
  BY <1>2 DEF TypeOK
<1>5. /\ change'[c].stage = "remove" /\ change'[c].left = removed
      /\ change'[c].removed = removed /\ change'[c].failed = FALSE
  BY <1>1 DEF TypeOK
<1>6. \A t \in Types : publisher'[c][t] = IF t \in add THEN "on" ELSE publisher[c][t]
  BY <1>1 DEF TypeOK
<1>7. change[c] = NoChange
  BY DEF BeginChange, LinkInv, ChangeFits
<1>8. SUFFICES ASSUME Exporting(c), spoiled[c] = {}
               PROVE  ExportsFit(c)'
  BY <1>1 DEF ExportsFit, Exporting, Listening
<1>9. \A t \in Types :
        /\ publisher[c][t] \in {"on", "none"}
        /\ publisher[c][t] = "on" <=> t \in Known(c) /\ (t \in previous \/ t \in elsewhere)
  <2>1. \A t \in Types :
          /\ publisher[c][t] \in {"on", "none"}
          /\ publisher[c][t] = "on" <=> t \in Known(c) /\ \E o \in Contexts : t \in wanted[c][o]
    BY <1>7, <1>8 DEF ExportsFit, Exporting
  <2>2. \A t : (\E o \in Contexts : t \in wanted[c][o]) <=> (t \in previous \/ t \in elsewhere)
    BY <1>2, <1>3
  <2> QED BY <2>1, <2>2
<1>10. \A t \in removed : /\ t \in Types /\ t \in previous /\ t \notin f.types /\ t \notin elsewhere
                          /\ publisher[c][t] # "none"
  BY <1>4
<1>11. \A t \in previous \ (f.types \union elsewhere) : t \notin removed => publisher[c][t] = "none"
  OBVIOUS
<1>12. \A t : t \in add <=> /\ t \in f.types /\ t \in Known(c)
                            /\ t \notin previous /\ t \notin elsewhere
  OBVIOUS
<1>13. Head(queue'[c]) = f /\ wanted'[c] = wanted[c]
  BY <1>1
<1> DEFINE Demanded(t) == t \in f.types \/ t \in elsewhere
<1> HIDE DEF f, previous, elsewhere, add, removed
<1>14. \A t \in Types \ removed :
         /\ publisher'[c][t] \in {"on", "none"}
         /\ publisher'[c][t] = "on" <=> t \in Known(c) /\ Demanded(t)
  BY <1>6, <1>9, <1>11, <1>12
<1>15. \A t \in removed : ~ Demanded(t) /\ publisher'[c][t] \in {"on", "closing"}
  BY <1>6, <1>9, <1>10, <1>12
<1>16. change'[c] # NoChange
  BY <1>5 DEF NoChange
<1>17. \A t : Demanded(t) <=> t \in f.types \/ \E o \in Contexts \ {f.from} : t \in wanted'[c][o]
  BY <1>3, <1>13
<1> HIDE DEF Demanded
<1> QED BY <1>5, <1>13, <1>14, <1>15, <1>16, <1>17 DEF ExportsFit, Known

LEMMA ExportsRemoving ==
  ASSUME TypeOK, LinkInv, NEW c \in Contexts, ExportsFit(c), NEW t \in Types,
         RemoveStarts(c, t) \/ RemoveEnds(c, t)
  PROVE  ExportsFit(c)'
<1> DEFINE f == Head(queue[c])
           Demanded(s) == s \in f.types \/ \E o \in Contexts \ {f.from} : s \in wanted[c][o]
<1>1. t \in change[c].left /\ change[c] # NoChange /\ UNCHANGED <<phase, wanted, queue, spoiled>>
  BY DEF RemoveStarts, RemoveEnds, NoChange, lifeVars
<1>2. change[c].stage = "remove" /\ change[c].left \subseteq change[c].removed
  BY <1>1 DEF LinkInv, ChangeFits
<1>3. SUFFICES ASSUME Exporting(c), spoiled[c] = {}
               PROVE  ExportsFit(c)'
  BY <1>1 DEF ExportsFit, Exporting, Listening
<1>4. /\ ~ change[c].failed
      /\ \A s \in Types \ change[c].removed :
           /\ publisher[c][s] \in {"on", "none"}
           /\ publisher[c][s] = "on" <=> s \in Known(c) /\ Demanded(s)
      /\ \A s \in change[c].removed : ~ Demanded(s)
      /\ \A s \in change[c].left : publisher[c][s] \in {"on", "closing"}
      /\ \A s \in change[c].removed \ change[c].left : publisher[c][s] = "off"
  BY <1>2, <1>3 DEF ExportsFit, Exporting
<1>5. \A s : Demanded(s) <=>
        \/ s \in Head(queue'[c]).types
        \/ \E o \in Contexts \ {Head(queue'[c]).from} : s \in wanted'[c][o]
  BY <1>1
<1> HIDE DEF f, Demanded
<1>6. /\ publisher \in [Contexts -> [Types -> {"none", "on", "closing", "off", "stuck"}]]
      /\ change[c] \in [stage : {"none", "remove"}, left : SUBSET Types,
                        removed : SUBSET Types, failed : BOOLEAN]
  BY DEF TypeOK
<1>7. CASE RemoveStarts(c, t)
  <2>1. change'[c] = change[c] /\ publisher' = [publisher EXCEPT ![c][t] = "closing"]
    BY <1>7 DEF RemoveStarts, StartsClosing
  <2>2. publisher'[c][t] = "closing" /\ \A s \in Types \ {t} : publisher'[c][s] = publisher[c][s]
    BY <1>6, <2>1
  <2> QED BY <1>1, <1>2, <1>4, <1>5, <1>6, <2>1, <2>2 DEF ExportsFit, Known
<1>8. CASE RemoveEnds(c, t)
  <2>1. publisher' = [publisher EXCEPT ![c][t] = "off"]
    <3>1. publisher[c][t] \notin {"off", "stuck"}
      BY <1>1, <1>4
    <3>2. EndsClosing(c, t, "off")
      BY <1>8, <3>1 DEF RemoveEnds
    <3> QED BY <1>3, <3>2 DEF EndsClosing
  <2>2. publisher'[c][t] = "off" /\ \A s \in Types \ {t} : publisher'[c][s] = publisher[c][s]
    BY <1>6, <2>1
  <2>3. /\ change'[c].stage = "remove" /\ change'[c].left = change[c].left \ {t}
        /\ change'[c].removed = change[c].removed /\ ~ change'[c].failed
    <3>1. change' = [change EXCEPT ![c].left = @ \ {t},
                                   ![c].failed = @ \/ publisher'[c][t] = "stuck"]
      BY <1>8 DEF RemoveEnds
    <3>2. change'[c].failed = (change[c].failed \/ publisher'[c][t] = "stuck")
      BY <3>1 DEF TypeOK
    <3>3. /\ change'[c].stage = change[c].stage /\ change'[c].left = change[c].left \ {t}
          /\ change'[c].removed = change[c].removed
      BY <3>1 DEF TypeOK
    <3> QED BY <1>2, <1>4, <2>2, <3>2, <3>3
  <2>4. change'[c] # NoChange
    BY <2>3 DEF NoChange
  <2> QED BY <1>1, <1>2, <1>4, <1>5, <1>6, <2>2, <2>3, <2>4 DEF ExportsFit, Known
<1> QED BY <1>7, <1>8

LEMMA ExportsSettled ==
  ASSUME TypeOK, LinkInv, NEW c \in Contexts, ExportsFit(c), Commit(c) \/ FailChange(c)
  PROVE  ExportsFit(c)'
<1> DEFINE f == Head(queue[c])
           Demanded(t) == t \in f.types \/ \E o \in Contexts \ {f.from} : t \in wanted[c][o]
<1>1. /\ change[c].stage = "remove" /\ change[c].left = {}
      /\ change' = [change EXCEPT ![c] = NoChange] /\ UNCHANGED <<phase, spoiled>>
  BY DEF Commit, FailChange, Removed, SettleChange, lifeVars
<1>2. change'[c] = NoChange
  BY <1>1 DEF TypeOK
<1>3. SUFFICES ASSUME Exporting(c), spoiled[c] = {}
               PROVE  ExportsFit(c)'
  BY <1>1 DEF ExportsFit, Exporting, Listening
<1>4. /\ ~ change[c].failed
      /\ \A t \in Types \ change[c].removed :
           /\ publisher[c][t] \in {"on", "none"}
           /\ publisher[c][t] = "on" <=> t \in Known(c) /\ Demanded(t)
      /\ \A t \in change[c].removed : ~ Demanded(t)
  BY <1>1, <1>3 DEF ExportsFit, Exporting
<1>5. /\ publisher' = [publisher EXCEPT ![c] =
                         [t \in Types |-> IF t \in change[c].removed THEN "none" ELSE @[t]]]
      /\ wanted' = [wanted EXCEPT ![c][f.from] = f.types]
  BY <1>4 DEF Commit, FailChange
<1>6. f.from \in Contexts
  BY SettledFacts
<1>7. \A t \in Types :
        publisher'[c][t] = IF t \in change[c].removed THEN "none" ELSE publisher[c][t]
  BY <1>5 DEF TypeOK
<1>8. /\ wanted'[c][f.from] = f.types
      /\ \A o \in Contexts \ {f.from} : wanted'[c][o] = wanted[c][o]
  BY <1>5, <1>6 DEF TypeOK
<1>9. \A t : Demanded(t) <=> \E o \in Contexts : t \in wanted'[c][o]
  BY <1>6, <1>8
<1> HIDE DEF f, Demanded
<1>10. change'[c].stage # "remove"
  BY <1>2 DEF NoChange
<1> QED BY <1>4, <1>7, <1>9, <1>10 DEF ExportsFit, Known

LEMMA DemandInitial == Init => DemandInv
BY DEF Init, DemandInv, ExportsFit, NoChange

LEMMA DemandInductive == TypeOK /\ LinkInv /\ DemandInv /\ [Next]_vars => DemandInv'
<1> SUFFICES ASSUME TypeOK, LinkInv, DemandInv, [Next]_vars, NEW c \in Contexts
             PROVE  ExportsFit(c)'
  BY DEF DemandInv
<1>0. ExportsFit(c)
  BY DEF DemandInv
<1>1. ASSUME NEW f \in frames, Receive(f) \/ Replied(f)
      PROVE  ExportsFit(c)'
  BY <1>0, <1>1, ExportsReceived
<1>2. ASSUME NEW d \in Contexts, OnBus(d)
      PROVE  ExportsFit(c)'
  BY <1>0, <1>2, ExportsOnBus
<1>3. ASSUME NEW d \in Contexts,
             \/ Released(d) \/ BeginChange(d) \/ Commit(d) \/ FailChange(d)
             \/ \E t \in Types : \/ RemoveStarts(d, t) \/ RemoveEnds(d, t)
                                 \/ ReleaseStarts(d, t) \/ ReleaseEnds(d, t)
      PROVE  ExportsFit(c)'
  <2>1. CASE d = c
    BY <1>0, <1>3, <2>1, ExportsReleased, ExportsBegin, ExportsRemoving, ExportsSettled
  <2>2. CASE d # c
    BY <1>0, <1>3, <2>2, ExportsOfOthers
  <2> QED BY <2>1, <2>2
<1>4. ASSUME NEW d \in Contexts, Step(d)
      PROVE  ExportsFit(c)'
  BY <1>0, <1>2, <1>3, <1>4, ExportsMoved DEF Step, OnBus
<1>5. ASSUME NEW d \in Contexts,
             Open(d) \/ Import(d, FALSE) \/ Close(d) \/ \E t \in Types : Post(d, t)
      PROVE  ExportsFit(c)'
  BY <1>0, <1>2, <1>5, ExportsMoved DEF OnBus
<1>6. CASE UNCHANGED vars
  BY <1>0, <1>6, ExportsSame DEF vars, lifeVars, demandVars, Exporting, Listening
<1> QED BY <1>1, <1>4, <1>5, <1>6 DEF Next, System

-----------------------------------------------------------------------------
(* Closing: a closed broker has let go of the transport.                   *)

\* Contexts whose callbacks and transitions have settled, and stay settled.
Quiesced(c) == phase[c] \in {"new", "withdrawing", "releasing", "failed", "closed"}

DetachFits(c) ==
  /\ Quiesced(c) => Accepted(c) = {} /\ queue[c] = <<>>
  /\ phase[c] \in {"failed", "closed"} =>
       /\ \A ch \in Channels : ~ Attached(c, ch)
       /\ \A t \in Types : publisher[c][t] \in {"none", "stuck"}
  /\ phase[c] = "closed" => \A t \in Types : publisher[c][t] = "none"

DetachInv ==
  /\ \A ch \in Channels : Once(group[ch])
  /\ \A c \in Contexts : DetachFits(c)

\* The steps of open() and close(), and those that move publishers.
InLife(c) ==
  \/ Open(c) \/ Attach(c) \/ Announce(c) \/ AnnounceWanted(c) \/ Ready(c)
  \/ Close(c) \/ Withdraw(c) \/ Withdrawn(c) \/ Released(c)

OnDemand(c) ==
  \/ BeginChange(c) \/ Commit(c) \/ FailChange(c)
  \/ \E t \in Types : \/ RemoveStarts(c, t) \/ RemoveEnds(c, t)
                      \/ ReleaseStarts(c, t) \/ ReleaseEnds(c, t)

\* A step that calls nobody and leaves c's phase, publishers and group alone.
LEMMA DetachSame ==
  ASSUME NEW c \in Contexts, DetachFits(c), Accepted(c)' \subseteq Accepted(c),
         Quiesced(c)' => Quiesced(c) \/ Drained(c), queue'[c] = queue[c],
         phase'[c] \in {"failed", "closed"} =>
           /\ phase'[c] = phase[c] /\ publisher'[c] = publisher[c]
           /\ \A ch \in Channels : Attached(c, ch)' => Attached(c, ch)
  PROVE  DetachFits(c)'
BY DEF DetachFits, Drained, Quiesced

\* A context with a transition under way has a wanted set to apply.
LEMMA ChangingQueue ==
  ASSUME TypeOK, NEW c \in Contexts,
         \/ BeginChange(c) \/ Commit(c) \/ FailChange(c)
         \/ \E t \in Types : RemoveStarts(c, t) \/ RemoveEnds(c, t)
  PROVE  queue[c] # <<>>
<1>1. CASE BeginChange(c)
  BY <1>1 DEF BeginChange
<1>2. CASE ~ BeginChange(c)
  <2>1. change[c].stage = "remove" \/ change[c].left # {}
    BY <1>2 DEF Commit, FailChange, RemoveStarts, RemoveEnds, Removed
  <2>2. change[c] # NoChange
    BY <2>1 DEF NoChange
  <2> QED BY <2>2 DEF TypeOK
<1> QED BY <1>1, <1>2

\* Only a call makes a frame wait for a context.
LEMMA NothingAccepted ==
  ASSUME TypeOK, NEW c \in Contexts, NEW d \in Contexts,
         InLife(d) \/ OnDemand(d) \/ OnBus(d)
  PROVE  Accepted(c)' \subseteq Accepted(c)
<1>1. \E new : frames' \subseteq frames \union {new} /\ new.at = Nobody
  <2>1. /\ OnlineFrame(d).at = Nobody
        /\ \A cause : WantedFrame(d, cause).at = Nobody
        /\ \A item : EventFrame(d, item).at = Nobody
        /\ \A f \in FrameSet, ok \in BOOLEAN : Resumed(f, ok).at = Nobody
    BY SignalFields, ResumedTyped DEF EventFrame, Frame
  <2>2. CASE Announce(d) \/ AnnounceWanted(d) \/ Withdraw(d)
    <3>1. \/ frames' \subseteq frames \union {OnlineFrame(d)}
          \/ \E cause : frames' \subseteq frames \union {WantedFrame(d, cause)}
      BY <2>2 DEF Announce, AnnounceWanted, Withdraw
    <3> QED BY <2>1, <3>1
  <2>3. CASE Publish(d)
    BY <2>1, <2>3 DEF Publish
  <2>4. ASSUME NEW ok \in BOOLEAN, Import(d, ok)
        PROVE  \E new : frames' \subseteq frames \union {new} /\ new.at = Nobody
    <3>1. Head(bus[d]).frame \in FrameSet
      BY <2>4, WorkTyped DEF Import, At
    <3>2. frames' \subseteq frames \union {Resumed(Head(bus[d]).frame, ok)}
      BY <2>4 DEF Import
    <3> QED BY <2>1, <3>1, <3>2
  <2>5. CASE Commit(d) \/ FailChange(d)
    <3>1. queue[d] # <<>>
      BY <2>5, ChangingQueue
    <3>2. Head(queue[d]) \in FrameSet
      BY <3>1, HeadTyped
    <3>3. \E ok \in BOOLEAN : frames' \subseteq frames \union {Resumed(Head(queue[d]), ok)}
      BY <2>5 DEF Commit, FailChange, SettleChange
    <3> QED BY <2>1, <3>2, <3>3
  <2>6. CASE frames' \subseteq frames
    BY <2>1, <2>6
  <2>7. \/ Announce(d) \/ AnnounceWanted(d) \/ Withdraw(d) \/ Publish(d)
        \/ Import(d, TRUE) \/ Import(d, FALSE) \/ Commit(d) \/ FailChange(d)
        \/ frames' \subseteq frames
    <3>1. OnBus(d) =>
            \/ Publish(d) \/ Import(d, TRUE) \/ Import(d, FALSE) \/ frames' \subseteq frames
      BY DEF OnBus, Find, Refuse, Published, Post
    <3>2. Open(d) \/ Attach(d) \/ Close(d) \/ Released(d) \/ BeginChange(d)
            => frames' \subseteq frames
      BY DEF Open, Attach, Close, Released, BeginChange
    <3>3. Ready(d) \/ Withdrawn(d) => frames' \subseteq frames
      BY DEF Ready, Withdrawn
    <3>4. (\E t \in Types : \/ RemoveStarts(d, t) \/ RemoveEnds(d, t)
                            \/ ReleaseStarts(d, t) \/ ReleaseEnds(d, t))
            => frames' \subseteq frames
      BY DEF RemoveStarts, RemoveEnds, ReleaseStarts, ReleaseEnds
    <3> QED BY <3>1, <3>2, <3>3, <3>4 DEF InLife, OnDemand
  <2> QED BY <2>2, <2>3, <2>4, <2>5, <2>6, <2>7
<1> QED BY <1>1, NobodyElse DEF Accepted

LEMMA DetachMoved ==
  ASSUME TypeOK, DetachInv, NEW c \in Contexts, NEW d \in Contexts, InLife(d), ~ Released(d)
  PROVE  DetachFits(c)'
<1>1. DetachFits(c) /\ Accepted(c)' \subseteq Accepted(c)
  BY NothingAccepted DEF DetachInv
<1>2. queue'[c] = queue[c] /\ publisher'[c] = publisher[c]
  BY DEF InLife, Open, Attach, Announce, AnnounceWanted, Ready, Close, Withdraw, Withdrawn, demandVars
<1>3. /\ Quiesced(c)' => Quiesced(c) \/ Drained(c)
      /\ phase'[c] \in {"failed", "closed"} => phase'[c] = phase[c]
  <2>1. CASE Attach(d)
    BY <2>1 DEF Attach, lifeVars, Quiesced
  <2>2. CASE ~ Attach(d)
    <3>1. CASE c # d
      <4>1. phase'[c] = phase[c]
        BY <2>2, <3>1, PhaseMoves
           DEF InLife, Open, Attach, Announce, AnnounceWanted, Ready, Close, Withdraw, Withdrawn
      <4> QED BY <4>1 DEF Quiesced
    <3>2. CASE c = d
      <4>1. \/ phase'[c] \in {"attaching", "online", "announcing", "open", "closing"}
            \/ Withdraw(c) /\ phase'[c] \in {"withdrawing", "releasing"}
            \/ phase[c] = "withdrawing" /\ phase'[c] = "releasing"
        BY <2>2, <3>2, PhaseMoves
           DEF InLife, Open, Attach, Announce, AnnounceWanted, Ready, Close, Withdraw, Withdrawn
      <4> QED BY <4>1 DEF Quiesced, Withdraw
    <3> QED BY <3>1, <3>2
  <2> QED BY <2>1, <2>2
<1>4. phase'[c] \in {"failed", "closed"} =>
        \A ch \in Channels : Attached(c, ch)' => Attached(c, ch)
  <2>1. CASE Attach(d) /\ c # d
    <3>1. PICK ch \in NextChannels(d) : group' = [group EXCEPT ![ch] = Append(@, d)]
      BY <2>1 DEF Attach
    <3>2. \A x \in Channels : group'[x] = group[x] \/ group'[x] = Append(group[x], d)
      BY <3>1 DEF TypeOK
    <3>3. \A x \in Channels : group[x] \in Seq(Contexts)
      BY DEF TypeOK
    <3> QED BY <2>1, <3>2, <3>3, AppendKeeps DEF Attached
  <2>2. CASE Attach(d) /\ c = d
    BY <2>2 DEF Attach, lifeVars
  <2>3. CASE ~ Attach(d)
    BY <2>3 DEF InLife, Open, Attach, Announce, AnnounceWanted, Ready, Close, Withdraw, Withdrawn, Attached
  <2> QED BY <2>1, <2>2, <2>3
<1> QED BY <1>1, <1>2, <1>3, <1>4, DetachSame

LEMMA DetachReleased ==
  ASSUME TypeOK, DetachInv, NEW c \in Contexts, NEW d \in Contexts, Released(d)
  PROVE  DetachFits(c)'
<1>1. /\ DetachFits(c) /\ Accepted(c)' \subseteq Accepted(c) /\ queue'[c] = queue[c]
      /\ group' = Left(d)
  BY NothingAccepted DEF DetachInv, InLife, Released
<1>2. \A ch \in Channels : group[ch] \in Seq(Contexts) /\ Once(group[ch])
  BY DEF TypeOK, DetachInv
<1>3. \A ch \in Channels : group'[ch] = Without(group[ch], d)
  BY <1>1 DEF Left
<1>4. CASE c # d
  <2>1. phase'[c] = phase[c] /\ publisher'[c] = publisher[c]
    BY <1>4 DEF Released, TypeOK
  <2>2. \A ch \in Channels : Attached(c, ch)' => Attached(c, ch)
    BY <1>2, <1>3, <1>4, WithoutKeeps DEF Attached
  <2> QED BY <1>1, <2>1, <2>2, DetachSame DEF Quiesced
<1>5. CASE c = d
  <2>1. phase[c] = "releasing" /\ phase'[c] \in {"failed", "closed"}
    BY <1>5 DEF Released, TypeOK
  <2>2. Accepted(c)' = {} /\ queue'[c] = <<>>
    BY <1>1, <2>1 DEF DetachFits, Quiesced
  <2>3. \A ch \in Channels : ~ Attached(c, ch)'
    BY <1>2, <1>3, <1>5, WithoutRemoves DEF Attached
  <2>4. \A t \in Types :
          /\ publisher[c][t] \in {"none", "off", "stuck"}
          /\ publisher'[c][t] = IF publisher[c][t] = "off" THEN "none" ELSE publisher[c][t]
    BY <1>5 DEF Released, TypeOK
  <2>5. phase'[c] = "closed" => \A t \in Types : publisher[c][t] # "stuck"
    BY <1>5 DEF Released, TypeOK
  <2> QED BY <2>2, <2>3, <2>4, <2>5 DEF DetachFits
<1> QED BY <1>4, <1>5

\* A context with a transition has not quiesced, nor is one failed or closed
\* that releases its publishers.
LEMMA DetachChanged ==
  ASSUME TypeOK, DetachInv, NEW c \in Contexts, NEW d \in Contexts, OnDemand(d)
  PROVE  DetachFits(c)'
<1>1. DetachFits(c) /\ Accepted(c)' \subseteq Accepted(c)
  BY NothingAccepted DEF DetachInv
<1>2. phase' = phase /\ group' = group
  BY DEF OnDemand, BeginChange, Commit, FailChange, RemoveStarts, RemoveEnds, ReleaseStarts,
     ReleaseEnds, lifeVars
<1>3. CASE c # d
  <2>1. publisher'[c] = publisher[c] /\ queue'[c] = queue[c]
    BY <1>3 DEF OnDemand, BeginChange, Commit, FailChange, RemoveStarts, RemoveEnds, ReleaseStarts,
       ReleaseEnds, StartsClosing, EndsClosing, SettleChange, TypeOK
  <2> QED BY <1>1, <1>2, <2>1, DetachSame DEF Quiesced, Attached
<1>4. CASE c = d /\ \E t \in Types : ReleaseStarts(d, t) \/ ReleaseEnds(d, t)
  <2>1. phase[c] = "releasing" /\ queue' = queue
    BY <1>4 DEF ReleaseStarts, ReleaseEnds
  <2> QED BY <1>1, <1>2, <2>1, DetachSame DEF Quiesced
<1>5. CASE c = d /\ ~ \E t \in Types : ReleaseStarts(d, t) \/ ReleaseEnds(d, t)
  <2>1. queue[c] # <<>>
    BY <1>5, ChangingQueue DEF OnDemand
  <2>2. ~ Quiesced(c)
    BY <1>1, <2>1 DEF DetachFits
  <2> QED BY <1>2, <2>2 DEF DetachFits, Quiesced
<1> QED BY <1>3, <1>4, <1>5

LEMMA DetachReceived ==
  ASSUME TypeOK, DetachInv, NEW c \in Contexts, NEW f \in frames, Receive(f) \/ Replied(f)
  PROVE  DetachFits(c)'
<1>1. DetachFits(c)
  BY DEF DetachInv
<1>2. UNCHANGED <<phase, publisher, group>>
  BY ReceiveCases DEF Replied, lifeVars, demandVars
<1>3. CASE Replied(f)
  <2>1. PICK g \in Awaited("wanted", f.at, f.from) :
          frames' = (frames \ {f, g}) \union {Resumed(f, g.ok)}
    BY <1>3 DEF Replied
  <2>2. Resumed(f, g.ok).at = Nobody
    <3>1. f \in FrameSet /\ g \in FrameSet
      BY <2>1 DEF TypeOK, Awaited
    <3>2. g.ok \in BOOLEAN
      BY <3>1 DEF FrameSet
    <3> QED BY <3>1, <3>2, ResumedTyped
  <2>3. Accepted(c)' \subseteq Accepted(c) /\ queue' = queue
    BY <1>3, <2>1, <2>2, NobodyElse DEF Accepted, Replied, demandVars
  <2> QED BY <1>1, <1>2, <2>3, DetachSame DEF Quiesced, Attached
<1>4. CASE Receive(f) /\ ~ Quiesced(c)
  BY <1>2, <1>4 DEF DetachFits, Quiesced
<1>5. CASE Receive(f) /\ Quiesced(c)
  <2>1. /\ f \in FrameSet /\ f.left # <<>> /\ f.at = Nobody
        /\ Listening(Head(f.left)) => c # Head(f.left)
    BY <1>5, ReceiveCases DEF Quiesced, Listening
  <2>2. /\ Called(f).at = Head(f.left) /\ Skipped(f).at = Nobody
        /\ WantedFrame(Head(f.left), f.from).at = Nobody
    BY <2>1, CalledTyped, SignalFields
  <2>3. queue'[c] = queue[c]
    BY <1>5, <2>1, ReceiveCases DEF TypeOK
  <2>4. Accepted(c)' \subseteq Accepted(c)
    <3>1. \/ frames' = (frames \ {f}) \union {Skipped(f)}
          \/ /\ c # Head(f.left)
             /\ frames' \subseteq frames \union {Called(f), WantedFrame(Head(f.left), f.from)}
      <4>1. CASE Listening(Head(f.left))
        <5>1. \/ frames' = (frames \ {f}) \union {Called(f)}
              \/ frames' = (frames \ {f}) \union {Called(f), WantedFrame(Head(f.left), f.from)}
          BY <1>5, <4>1, ReceiveCases
        <5> QED BY <2>1, <4>1, <5>1
      <4>2. CASE ~ Listening(Head(f.left))
        BY <1>5, <4>2, ReceiveCases
      <4> QED BY <4>1, <4>2
    <3> QED BY <2>2, <3>1, NobodyElse DEF Accepted
  <2> QED BY <1>1, <1>2, <2>3, <2>4, DetachSame DEF Quiesced, Attached
<1> QED BY <1>3, <1>4, <1>5

LEMMA DetachOnBus ==
  ASSUME TypeOK, DetachInv, NEW c \in Contexts, NEW d \in Contexts, OnBus(d)
  PROVE  DetachFits(c)'
<1>1. DetachFits(c) /\ Accepted(c)' \subseteq Accepted(c)
  BY NothingAccepted DEF DetachInv
<1>2. UNCHANGED <<phase, group, queue, publisher>>
  BY BusIsSilent DEF linkVars
<1> QED BY <1>1, <1>2, DetachSame DEF Quiesced, Attached

\* A context attaches to a channel that it is not attached to.
LEMMA GroupsOnce ==
  ASSUME TypeOK, DetachInv, [Next]_vars
  PROVE  \A ch \in Channels : Once(group'[ch])
<1>1. \A ch \in Channels : group[ch] \in Seq(Contexts) /\ Once(group[ch])
  BY DEF TypeOK, DetachInv
<1>2. ASSUME NEW d \in Contexts, Attach(d)
      PROVE  \A ch \in Channels : Once(group'[ch])
  <2>1. PICK x \in NextChannels(d) : group' = [group EXCEPT ![x] = Append(@, d)]
    BY <1>2 DEF Attach
  <2>2. ~ Attached(d, x)
    BY <2>1 DEF NextChannels
  <2>3. \A ch \in Channels : group'[ch] = IF ch = x THEN Append(group[ch], d) ELSE group[ch]
    BY <2>1 DEF TypeOK
  <2> QED BY <1>1, <2>2, <2>3, AppendOnce DEF Attached
<1>3. ASSUME NEW d \in Contexts, Released(d)
      PROVE  \A ch \in Channels : Once(group'[ch])
  <2>1. \A ch \in Channels : group'[ch] = Without(group[ch], d)
    BY <1>3 DEF Released, Left
  <2> QED BY <1>1, <2>1, WithoutRemoves
<1>4. CASE group' = group
  BY <1>1, <1>4
<1>5. \/ group' = group
      \/ \E d \in Contexts : Attach(d) \/ Released(d)
  <2>1. ASSUME NEW f \in frames, Receive(f) \/ Replied(f)
        PROVE  group' = group
    BY <2>1 DEF Receive, Replied
  <2>2. ASSUME NEW d \in Contexts, Step(d), ~ Attach(d), ~ Released(d)
        PROVE  group' = group
    <3>1. Announce(d) \/ AnnounceWanted(d) \/ Ready(d) \/ Withdraw(d) \/ Withdrawn(d)
            => group' = group
      BY DEF Announce, AnnounceWanted, Ready, Withdraw, Withdrawn
    <3>2. BeginChange(d) \/ Commit(d) \/ FailChange(d) => group' = group
      BY DEF BeginChange, Commit, FailChange
    <3>3. OnBus(d) => group' = group
      BY BusIsSilent DEF linkVars
    <3>4. (\E t \in Types : \/ RemoveStarts(d, t) \/ RemoveEnds(d, t)
                            \/ ReleaseStarts(d, t) \/ ReleaseEnds(d, t)) => group' = group
      BY DEF RemoveStarts, RemoveEnds, ReleaseStarts, ReleaseEnds
    <3> QED BY <2>2, <3>1, <3>2, <3>3, <3>4 DEF Step, OnBus
  <2>3. ASSUME NEW d \in Contexts,
               Open(d) \/ Import(d, FALSE) \/ Close(d) \/ \E t \in Types : Post(d, t)
        PROVE  group' = group
    BY <2>3 DEF Open, Import, Close, Post
  <2> QED BY <2>1, <2>2, <2>3 DEF Next, System, vars
<1> QED BY <1>2, <1>3, <1>4, <1>5

LEMMA DetachInitial == Init => DetachInv
BY DEF Init, DetachInv, DetachFits, Once, Accepted, Quiesced

LEMMA DetachInductive == TypeOK /\ DetachInv /\ [Next]_vars => DetachInv'
<1> SUFFICES ASSUME TypeOK, DetachInv, [Next]_vars, NEW c \in Contexts
             PROVE  DetachFits(c)'
  BY GroupsOnce DEF DetachInv
<1>1. ASSUME NEW f \in frames, Receive(f) \/ Replied(f)
      PROVE  DetachFits(c)'
  BY <1>1, DetachReceived
<1>2. ASSUME NEW d \in Contexts, Step(d)
      PROVE  DetachFits(c)'
  BY <1>2, DetachMoved, DetachReleased, DetachChanged, DetachOnBus
     DEF Step, InLife, OnDemand, OnBus
<1>3. ASSUME NEW d \in Contexts,
             Open(d) \/ Import(d, FALSE) \/ Close(d) \/ \E t \in Types : Post(d, t)
      PROVE  DetachFits(c)'
  BY <1>3, DetachMoved, DetachReleased, DetachOnBus DEF InLife, OnBus
<1>4. CASE UNCHANGED vars
  <2>1. DetachFits(c)
    BY DEF DetachInv
  <2> QED BY <1>4, <2>1 DEF vars, lifeVars, demandVars, DetachFits, Quiesced, Accepted, Attached
<1> QED BY <1>1, <1>2, <1>3, <1>4 DEF Next, System

-----------------------------------------------------------------------------
(* Publications: a publisher closes after what it has accepted.            *)

Events == {f \in frames : f.kind = "event"}
Publications(c) == {f \in Events : f.from = c}

\* An event to be imported is a call that waits for it; only the first work of
\* a bus is being dispatched.
ImportsFit(c) ==
  /\ \A i \in DOMAIN bus[c] :
       /\ bus[c][i].step = "import" => bus[c][i].frame \in Events /\ bus[c][i].frame.at = c
       /\ i # 1 => bus[c][i].step \in {"queued", "import"}
  /\ \A i, j \in DOMAIN bus[c] :
       bus[c][i].step = "import" /\ bus[c][j].step = "import" /\ bus[c][i].frame = bus[c][j].frame
         => i = j

\* The one publication of a context is that of the event being dispatched, and
\* its publisher waits for it; a transition knows which publishers are closed.
PublicationFits(c) ==
  /\ \A f \in Publications(c) :
       /\ At(c, "publishing") /\ f.types = {Head(bus[c]).type}
       /\ publisher[c][Head(bus[c]).type] \in {"on", "closing"}
  /\ \A f, g \in Publications(c) : f = g
  /\ At(c, "found") => publisher[c][Head(bus[c]).type] = "on"
  /\ \A t \in change[c].removed \ change[c].left : publisher[c][t] \in {"off", "stuck"}

PublicationInv == \A c \in Contexts : ImportsFit(c) /\ PublicationFits(c)

\* No publication of c is new, and none that waits for c vanishes.
Carried(c) ==
  /\ \A h \in Publications(c)' : \E f \in Publications(c) : h.types = f.types
  /\ \A g, h \in Publications(c)' : g = h
Kept(c) == \A f \in Events : f.at = c => f \in Events'

LEMMA EventsSame ==
  ASSUME NEW c \in Contexts, PublicationFits(c), Events' = Events
  PROVE  Carried(c) /\ Kept(c)
BY DEF PublicationFits, Carried, Kept, Publications

LEMMA EventsReplaced ==
  ASSUME NEW c \in Contexts, PublicationFits(c), NEW f \in Events, NEW g,
         g.from = f.from, g.types = f.types, Events' = (Events \ {f}) \union {g}
  PROVE  Carried(c) /\ (f.at # c => Kept(c))
BY DEF PublicationFits, Carried, Kept, Publications

LEMMA EventsSilent ==
  ASSUME TypeOK, LinkInv, NEW d \in Contexts, InLife(d) \/ OnDemand(d)
  PROVE  Events' = Events
<1>1. /\ OnlineFrame(d).kind = "online"
      /\ \A cause : WantedFrame(d, cause).kind = "wanted"
  BY SignalFields
<1>2. CASE Announce(d)
  BY <1>1, <1>2 DEF Announce, Events
<1>3. CASE AnnounceWanted(d)
  <2>1. PICK f \in Awaited("online", d, "open") :
          frames' = (frames \ {f}) \union {WantedFrame(d, "open")}
    BY <1>3 DEF AnnounceWanted
  <2> QED BY <1>1, <2>1 DEF Awaited, Events
<1>4. CASE Withdraw(d)
  <2>1. frames' = frames \/ frames' = frames \union {WantedFrame(d, "close")}
    BY <1>4 DEF Withdraw
  <2> QED BY <1>1, <2>1 DEF Events
<1>5. CASE Ready(d)
  <2>1. PICK f \in Awaited("wanted", d, "open") : frames' = frames \ {f}
    BY <1>5 DEF Ready
  <2> QED BY <2>1 DEF Awaited, Events
<1>6. CASE Withdrawn(d)
  <2>1. PICK f \in Awaited("wanted", d, "close") : frames' = frames \ {f}
    BY <1>6 DEF Withdrawn
  <2> QED BY <2>1 DEF Awaited, Events
<1>7. CASE Commit(d) \/ FailChange(d)
  <2> DEFINE f == Head(queue[d])
  <2>1. f \in FrameSet /\ f.kind = "wanted"
    BY <1>7, SettledFacts, SignalTyped
  <2>2. PICK ok \in BOOLEAN : frames' = (frames \ {f}) \union {Resumed(f, ok)}
    BY <1>7 DEF Commit, FailChange, SettleChange
  <2>3. Resumed(f, ok).kind = "wanted"
    BY <2>1, ResumedTyped
  <2> QED BY <2>1, <2>2, <2>3 DEF Events
<1>8. CASE Open(d) \/ Attach(d) \/ Close(d) \/ Released(d) \/ BeginChange(d)
  <2>1. frames' = frames
    BY <1>8 DEF Open, Attach, Close, Released, BeginChange
  <2> QED BY <2>1 DEF Events
<1>9. CASE \E t \in Types : \/ RemoveStarts(d, t) \/ RemoveEnds(d, t)
                            \/ ReleaseStarts(d, t) \/ ReleaseEnds(d, t)
  <2>1. frames' = frames
    BY <1>9 DEF RemoveStarts, RemoveEnds, ReleaseStarts, ReleaseEnds
  <2> QED BY <2>1 DEF Events
<1> QED BY <1>2, <1>3, <1>4, <1>5, <1>6, <1>7, <1>8, <1>9 DEF InLife, OnDemand

LEMMA EventsReceived ==
  ASSUME TypeOK, NEW f \in frames, Receive(f) \/ Replied(f)
  PROVE  \/ Events' = Events /\ bus' = bus
         \/ /\ Receive(f) /\ f \in Events /\ f.at = Nobody /\ bus' = bus
            /\ Events' = (Events \ {f}) \union {Skipped(f)}
         \/ /\ Receive(f) /\ f \in Events /\ f.at = Nobody
            /\ Events' = (Events \ {f}) \union {Called(f)}
            /\ bus' = [bus EXCEPT ![Head(f.left)] =
                         Append(@, [step |-> "import", frame |-> Called(f)])]
<1>0. f \in FrameSet
  BY DEF TypeOK
<1>1. CASE Replied(f)
  <2>1. f.kind = "online" /\ bus' = bus
    BY <1>1 DEF Replied
  <2>2. PICK g \in Awaited("wanted", f.at, f.from) :
          frames' = (frames \ {f, g}) \union {Resumed(f, g.ok)}
    BY <1>1 DEF Replied
  <2>3. g.kind = "wanted" /\ g.ok \in BOOLEAN
    <3>1. g \in FrameSet /\ g.kind = "wanted"
      BY <2>2 DEF TypeOK, Awaited
    <3> QED BY <3>1 DEF FrameSet
  <2>4. Resumed(f, g.ok).kind = "online"
    BY <1>0, <2>1, <2>3, ResumedTyped
  <2> QED BY <2>1, <2>2, <2>3, <2>4 DEF Events
<1>2. CASE Receive(f) /\ f.kind # "event"
  <2>1. /\ Called(f).kind # "event" /\ Skipped(f).kind # "event"
        /\ WantedFrame(Head(f.left), f.from).kind # "event"
    BY <1>2, ReceiveCases, CalledTyped, SignalFields
  <2>2. bus' = bus
    BY <1>2, ReceiveCases
  <2>3. \/ frames' = (frames \ {f}) \union {Skipped(f)}
        \/ frames' = (frames \ {f}) \union {Called(f)}
        \/ frames' = (frames \ {f}) \union {Called(f), WantedFrame(Head(f.left), f.from)}
    BY <1>2, ReceiveCases
  <2> QED BY <1>2, <2>1, <2>2, <2>3 DEF Events
<1>3. CASE Receive(f) /\ f.kind = "event"
  <2>1. /\ Called(f).kind = "event" /\ Skipped(f).kind = "event"
        /\ f \in Events /\ f.at = Nobody
    BY <1>3, ReceiveCases, CalledTyped DEF Events
  <2>2. \/ frames' = (frames \ {f}) \union {Skipped(f)} /\ bus' = bus
        \/ /\ frames' = (frames \ {f}) \union {Called(f)}
           /\ bus' = [bus EXCEPT ![Head(f.left)] =
                        Append(@, [step |-> "import", frame |-> Called(f)])]
    BY <1>3, ReceiveCases
  <2> QED BY <1>3, <2>1, <2>2 DEF Events
<1> QED BY <1>1, <1>2, <1>3

LEMMA EventsImported ==
  ASSUME TypeOK, NEW d \in Contexts, ImportsFit(d), NEW ok \in BOOLEAN, Import(d, ok)
  PROVE  \E f \in Events : \E g :
           /\ f = Head(bus[d]).frame /\ f.at = d /\ g.from = f.from /\ g.types = f.types
           /\ Events' = (Events \ {f}) \union {g}
<1> DEFINE f == Head(bus[d]).frame
           g == Resumed(f, ok)
<1>1. bus[d] # <<>> /\ Head(bus[d]).step = "import" /\ bus[d] \in Seq(Work)
  BY DEF Import, At, TypeOK
<1>2. Head(bus[d]) = bus[d][1] /\ 1 \in DOMAIN bus[d]
  BY <1>1
<1>3. f \in Events /\ f.at = d
  BY <1>1, <1>2 DEF ImportsFit
<1>4. f \in FrameSet /\ f.kind = "event"
  BY <1>3 DEF Events, TypeOK
<1>5. g.kind = "event" /\ g.from = f.from /\ g.types = f.types
  BY <1>4, ResumedTyped
<1>6. frames' = (frames \ {f}) \union {g}
  BY DEF Import
<1> HIDE DEF f, g
<1>7. Events' = (Events \ {f}) \union {g}
  BY <1>4, <1>5, <1>6 DEF Events
<1>8. f = Head(bus[d]).frame
  BY DEF f
<1> QED BY <1>3, <1>5, <1>7, <1>8

LEMMA EventsOnBus ==
  ASSUME TypeOK, NEW d \in Contexts, ImportsFit(d), OnBus(d)
  PROVE  \/ Events' = Events
         \/ Publish(d) /\ Events' = Events \union {EventFrame(d, Head(bus[d]))}
         \/ /\ Published(d)
            /\ \E f \in Publications(d) : f.at = Nobody /\ Events' = Events \ {f}
         \/ /\ Import(d, TRUE) \/ Import(d, FALSE)
            /\ \E f \in Events : \E g :
                 /\ f = Head(bus[d]).frame /\ f.at = d /\ g.from = f.from /\ g.types = f.types
                 /\ Events' = (Events \ {f}) \union {g}
<1>1. CASE Publish(d)
  <2>1. EventFrame(d, Head(bus[d])).kind = "event"
    BY DEF EventFrame, Frame
  <2>2. frames' = frames \union {EventFrame(d, Head(bus[d]))}
    BY <1>1 DEF Publish
  <2> QED BY <1>1, <2>1, <2>2 DEF Events
<1>2. CASE Published(d)
  <2>1. PICK f \in Awaited("event", d, "open") : frames' = frames \ {f}
    BY <1>2 DEF Published
  <2>2. f \in Publications(d) /\ f.at = Nobody
    BY <2>1 DEF Awaited, Settled, Publications, Events
  <2>3. Events' = Events \ {f}
    BY <2>1 DEF Events
  <2> QED BY <1>2, <2>2, <2>3
<1>3. CASE Import(d, TRUE) \/ Import(d, FALSE)
  BY <1>3, EventsImported
<1>4. CASE Find(d) \/ Refuse(d) \/ \E t \in Types : Post(d, t)
  <2>1. frames' = frames
    BY <1>4 DEF Find, Refuse, Post
  <2> QED BY <2>1 DEF Events
<1> QED BY <1>1, <1>2, <1>3, <1>4 DEF OnBus

LEMMA KeptOnBus ==
  ASSUME TypeOK, NEW c \in Contexts, NEW d \in Contexts, ImportsFit(d), OnBus(d),
         c # d \/ ~ (Import(d, TRUE) \/ Import(d, FALSE))
  PROVE  Kept(c)
<1>1. CASE Events \subseteq Events'
  BY <1>1 DEF Kept
<1>2. CASE \E f \in Events : \E g : f.at # c /\ Events' = (Events \ {f}) \union {g}
  BY <1>2 DEF Kept
<1>3. CASE \E f \in Publications(d) : f.at = Nobody /\ Events' = Events \ {f}
  BY <1>3, NobodyElse DEF Kept
<1>4. \/ Events \subseteq Events'
      \/ \E f \in Publications(d) : f.at = Nobody /\ Events' = Events \ {f}
      \/ c # d /\ \E f \in Events : \E g : f.at = d /\ Events' = (Events \ {f}) \union {g}
  <2>1. CASE Import(d, TRUE) \/ Import(d, FALSE)
    <3>1. \E f \in Events : \E g :
            /\ f = Head(bus[d]).frame /\ f.at = d /\ g.from = f.from /\ g.types = f.types
            /\ Events' = (Events \ {f}) \union {g}
      BY <2>1, EventsImported
    <3> QED BY <2>1, <3>1
  <2>2. CASE ~ (Import(d, TRUE) \/ Import(d, FALSE))
    <3>1. \/ Events' = Events
          \/ Events' = Events \union {EventFrame(d, Head(bus[d]))}
          \/ \E f \in Publications(d) : f.at = Nobody /\ Events' = Events \ {f}
      BY <2>2, EventsOnBus
    <3> QED BY <3>1
  <2> QED BY <2>1, <2>2
<1> QED BY <1>1, <1>2, <1>3, <1>4

\* The head of c's bus moves, is done with, or gets work behind it.
LEMMA HeadMoves ==
  ASSUME TypeOK, NEW c \in Contexts, NEW x \in Moving, bus[c] # <<>>, Head(bus[c]).step \in Moving,
         bus' = [bus EXCEPT ![c][1].step = x]
  PROVE  /\ bus'[c] # <<>> /\ Head(bus'[c]).step = x /\ Head(bus'[c]).type = Head(bus[c]).type
         /\ DOMAIN bus'[c] = DOMAIN bus[c] /\ bus'[c][1].step = x
         /\ \A i \in DOMAIN bus[c] : i # 1 => bus'[c][i] = bus[c][i]
         /\ \A d \in Contexts \ {c} : bus'[d] = bus[d]
<1> DEFINE s == bus[c]
           r == [s EXCEPT ![1].step = x]
<1>1. /\ s \in Seq(Work) /\ s # <<>> /\ r \in Seq(Work)
      /\ bus' = [bus EXCEPT ![c] = r] /\ bus \in [Contexts -> Seq(Work)]
  BY BusMoves DEF TypeOK
<1>2. bus'[c] = r /\ \A d \in Contexts \ {c} : bus'[d] = bus[d]
  BY <1>1
<1>3. DOMAIN r = DOMAIN s /\ \A i \in DOMAIN s : i # 1 => r[i] = s[i]
  OBVIOUS
<1>4. s[1] \in Work /\ s[1] = Head(s) /\ 1 \in DOMAIN s
  BY <1>1
<1>5. s[1] \in [step : Moving, type : Types, event : Nat]
  BY <1>4 DEF Work, Moving
<1>6. r[1] = [s[1] EXCEPT !.step = x]
  BY <1>4
<1>7. r[1].step = x /\ r[1].type = s[1].type
  BY <1>5, <1>6
<1>8. r # <<>> /\ Head(r) = r[1]
  <2> HIDE DEF r, s
  <2>1. 1 \in DOMAIN r
    BY <1>3, <1>4
  <2> QED BY <1>1, <2>1
<1> QED BY <1>2, <1>3, <1>4, <1>7, <1>8

LEMMA HeadDone ==
  ASSUME TypeOK, NEW c \in Contexts, bus[c] # <<>>, Done(c)
  PROVE  /\ \A i \in DOMAIN bus'[c] :
              i + 1 \in DOMAIN bus[c] /\ i + 1 # 1 /\ i \in Int /\ bus'[c][i] = bus[c][i + 1]
         /\ bus'[c] # <<>> => 1 \in DOMAIN bus'[c] /\ Head(bus'[c]) = bus'[c][1]
         /\ Head(bus[c]) = bus[c][1] /\ 1 \in DOMAIN bus[c]
         /\ \A d \in Contexts \ {c} : bus'[d] = bus[d]
<1>1. /\ bus[c] \in Seq(Work) /\ bus'[c] = Tail(bus[c])
      /\ \A d \in Contexts \ {c} : bus'[d] = bus[d]
  BY DEF Done, TypeOK
<1>2. Tail(bus[c]) \in Seq(Work)
  BY <1>1
<1> QED BY <1>1, <1>2, QueueShrinks

LEMMA WorkAdded ==
  ASSUME TypeOK, NEW c \in Contexts, NEW w \in Work, bus' = [bus EXCEPT ![c] = Append(@, w)]
  PROVE  /\ bus'[c] # <<>> /\ DOMAIN bus'[c] = 1 .. Len(bus[c]) + 1
         /\ DOMAIN bus[c] = 1 .. Len(bus[c]) /\ Len(bus[c]) \in Nat
         /\ bus'[c][Len(bus[c]) + 1] = w
         /\ \A i \in 1 .. Len(bus[c]) : bus'[c][i] = bus[c][i]
         /\ bus[c] # <<>> => Head(bus'[c]) = Head(bus[c])
         /\ bus[c] = <<>> => Head(bus'[c]) = w
         /\ \A d \in Contexts \ {c} : bus'[d] = bus[d]
<1>1. /\ bus[c] \in Seq(Work) /\ bus'[c] = Append(bus[c], w)
      /\ \A d \in Contexts \ {c} : bus'[d] = bus[d]
  BY DEF TypeOK
<1>2. bus[c] = <<>> => Head(Append(bus[c], w)) = w
  OBVIOUS
<1> QED BY <1>1, <1>2, QueueGrows

LEMMA ImportsSame ==
  ASSUME NEW c \in Contexts, ImportsFit(c), Kept(c), bus'[c] = bus[c]
  PROVE  ImportsFit(c)'
BY DEF ImportsFit, Kept

LEMMA ImportsDone ==
  ASSUME TypeOK, NEW c \in Contexts, ImportsFit(c), bus[c] # <<>>, Done(c),
         \A i \in DOMAIN bus[c] :
           i # 1 /\ bus[c][i].step = "import" => bus[c][i].frame \in Events'
  PROVE  ImportsFit(c)'
<1>1. \A i \in DOMAIN bus'[c] :
        i + 1 \in DOMAIN bus[c] /\ i + 1 # 1 /\ i \in Int /\ bus'[c][i] = bus[c][i + 1]
  BY HeadDone
<1>2. ASSUME NEW i \in DOMAIN bus'[c]
      PROVE  /\ bus'[c][i].step = "import" =>
                  bus'[c][i].frame \in Events' /\ bus'[c][i].frame.at = c
             /\ bus'[c][i].step \in {"queued", "import"}
  BY <1>1 DEF ImportsFit
<1>3. ASSUME NEW i \in DOMAIN bus'[c], NEW j \in DOMAIN bus'[c], bus'[c][i].step = "import",
             bus'[c][j].step = "import", bus'[c][i].frame = bus'[c][j].frame
      PROVE  i = j
  <2>1. i + 1 = j + 1
    BY <1>1, <1>3 DEF ImportsFit
  <2> QED BY <1>1, <2>1
<1> QED BY <1>2, <1>3 DEF ImportsFit

LEMMA ImportsOnBus ==
  ASSUME TypeOK, PublicationInv, NEW c \in Contexts, NEW d \in Contexts, OnBus(d)
  PROVE  ImportsFit(c)'
<1>1. ImportsFit(c) /\ ImportsFit(d) /\ PublicationFits(c)
  BY DEF PublicationInv
<1>2. CASE c # d
  <2>1. bus'[c] = bus[c]
    BY <1>2 DEF OnBus, Find, Publish, Refuse, Published, Import, Post, Done, TypeOK
  <2>2. Kept(c)
    BY <1>1, <1>2, KeptOnBus
  <2> QED BY <1>1, <2>1, <2>2, ImportsSame
<1>3. CASE c = d /\ (Import(c, TRUE) \/ Import(c, FALSE))
  <2>1. bus[c] # <<>> /\ Done(c) /\ Head(bus[c]).step = "import"
    BY <1>3 DEF Import, At
  <2>2. Head(bus[c]) = bus[c][1] /\ 1 \in DOMAIN bus[c]
    BY <2>1, HeadDone
  <2>3. PICK f \in Events : f = Head(bus[c]).frame /\ \E g : Events' = (Events \ {f}) \union {g}
    <3>1. PICK ok \in BOOLEAN : Import(c, ok)
      BY <1>3
    <3>2. \E f \in Events : \E g :
            /\ f = Head(bus[c]).frame /\ f.at = c /\ g.from = f.from /\ g.types = f.types
            /\ Events' = (Events \ {f}) \union {g}
      BY <1>1, <3>1, EventsImported
    <3> QED BY <3>2
  <2>4. ASSUME NEW i \in DOMAIN bus[c], i # 1, bus[c][i].step = "import"
        PROVE  bus[c][i].frame \in Events'
    BY <1>1, <2>1, <2>2, <2>3, <2>4 DEF ImportsFit
  <2> QED BY <1>1, <2>1, <2>4, ImportsDone
<1>4. CASE c = d /\ ~ (Import(c, TRUE) \/ Import(c, FALSE))
  <2>1. Kept(c)
    BY <1>1, <1>4, KeptOnBus
  <2>2. CASE \E x \in Moving : /\ bus[c] # <<>> /\ Head(bus[c]).step \in Moving
                               /\ bus' = [bus EXCEPT ![c][1].step = x]
    <3>1. PICK x \in Moving : /\ bus[c] # <<>> /\ Head(bus[c]).step \in Moving
                              /\ bus' = [bus EXCEPT ![c][1].step = x]
      BY <2>2
    <3>2. /\ DOMAIN bus'[c] = DOMAIN bus[c] /\ bus'[c][1].step = x /\ x # "import"
          /\ \A i \in DOMAIN bus[c] : i # 1 => bus'[c][i] = bus[c][i]
      BY <3>1, HeadMoves DEF Moving
    <3> QED BY <1>1, <2>1, <3>2 DEF ImportsFit, Kept
  <2>3. CASE bus[c] # <<>> /\ Done(c)
    BY <1>1, <2>1, <2>3, ImportsDone DEF ImportsFit, Kept
  <2>4. CASE \E t \in Types : Post(c, t)
    <3>1. PICK t \in Types : Post(c, t)
      BY <2>4
    <3> DEFINE w == [step |-> "queued", type |-> t, event |-> posts']
    <3>2. w \in Work /\ bus' = [bus EXCEPT ![c] = Append(@, w)]
      BY <3>1 DEF Post, Work, TypeOK
    <3>3. w.step = "queued"
      OBVIOUS
    <3> HIDE DEF w
    <3> QED BY <1>1, <2>1, <3>2, <3>3, WorkAdded DEF ImportsFit, Kept
  <2>5. CASE Find(c) \/ Publish(c) \/ Refuse(c) \/ Published(c)
    BY <2>2, <2>3, <2>5 DEF Find, Publish, Refuse, Published, At, Moving
  <2> QED BY <1>4, <2>4, <2>5 DEF OnBus
<1> QED BY <1>2, <1>3, <1>4

LEMMA ImportsReceived ==
  ASSUME TypeOK, PublicationInv, NEW c \in Contexts, NEW f \in frames, Receive(f) \/ Replied(f)
  PROVE  ImportsFit(c)'
<1>1. ImportsFit(c) /\ PublicationFits(c)
  BY DEF PublicationInv
<1>2. CASE bus' = bus
  <2>1. Kept(c)
    BY <1>2, EventsReceived, NobodyElse DEF Kept
  <2> QED BY <1>1, <1>2, <2>1, ImportsSame
<1>3. CASE bus' # bus
  <2> DEFINE r == Head(f.left)
             h == Called(f)
             w == [step |-> "import", frame |-> h]
  <2>1. /\ Receive(f) /\ f \in Events /\ f.at = Nobody
        /\ Events' = (Events \ {f}) \union {h}
        /\ bus' = [bus EXCEPT ![r] = Append(@, w)]
    BY <1>3, EventsReceived
  <2>2. f \in FrameSet /\ f.left # <<>> /\ r \in Contexts
    BY <2>1, ReceiveCases
  <2>3. h \in FrameSet /\ h.kind = "event" /\ h.at = r /\ h.from = f.from
    BY <2>1, <2>2, CalledTyped DEF Events
  <2>4. w \in Work /\ w.step = "import" /\ w.frame = h
    BY <2>3 DEF Work
  <2>5. Kept(c)
    BY <2>1, NobodyElse DEF Kept
  <2>6. CASE c # r
    <3>1. bus'[c] = bus[c]
      BY <2>1, <2>2, <2>6 DEF TypeOK
    <3> QED BY <1>1, <2>5, <3>1, ImportsSame
  <2>7. CASE c = r
    <3>1. h \notin Events
      <4>1. SUFFICES ASSUME h \in Events PROVE FALSE
        OBVIOUS
      <4>2. f.from \in Contexts
        BY <2>2 DEF FrameSet
      <4>3. h = f
        BY <2>1, <2>3, <4>1, <4>2 DEF PublicationInv, PublicationFits, Publications
      <4> QED BY <2>1, <2>2, <2>3, <4>3, NobodyElse
    <3> HIDE DEF h, w, r
    <3> QED BY <1>1, <2>1, <2>2, <2>3, <2>4, <2>5, <2>7, <3>1, WorkAdded DEF ImportsFit, Kept
  <2> QED BY <2>6, <2>7
<1> QED BY <1>2, <1>3

LEMMA ImportsOnDemand ==
  ASSUME TypeOK, LinkInv, PublicationInv, NEW c \in Contexts, NEW d \in Contexts,
         InLife(d) \/ OnDemand(d)
  PROVE  ImportsFit(c)'
<1>1. ImportsFit(c) /\ PublicationFits(c)
  BY DEF PublicationInv
<1>2. Kept(c)
  BY <1>1, EventsSilent, EventsSame
<1>3. CASE bus'[c] = bus[c]
  BY <1>1, <1>2, <1>3, ImportsSame
<1>4. CASE bus'[c] # bus[c]
  <2>1. PICK t \in Types : RemoveStarts(d, t) \/ ReleaseStarts(d, t)
    BY <1>4 DEF InLife, OnDemand, Open, Attach, Announce, AnnounceWanted, Ready, Close, Withdraw,
       Withdrawn, Released, BeginChange, Commit, FailChange, RemoveEnds, ReleaseEnds
  <2>2. At(d, "found") /\ bus' = [bus EXCEPT ![d][1].step = "fenced"]
    BY <1>4, <2>1 DEF RemoveStarts, ReleaseStarts, StartsClosing
  <2>3. c = d
    BY <1>4, <2>2 DEF TypeOK
  <2> QED BY <1>1, <1>2, <2>2, <2>3, HeadMoves DEF ImportsFit, Kept, Moving, At
<1> QED BY <1>3, <1>4

\* The event that is being exported stays at the head, and none gets there.
HeadKept(c) ==
  /\ At(c, "publishing") => At(c, "publishing")' /\ Head(bus'[c]).type = Head(bus[c]).type
  /\ At(c, "found")' => At(c, "found") /\ Head(bus'[c]).type = Head(bus[c]).type

LEMMA HeadSame ==
  ASSUME TypeOK, NEW c \in Contexts,
         \/ bus'[c] = bus[c]
         \/ \E w \in Work : w.step \in {"queued", "import"} /\ bus' = [bus EXCEPT ![c] = Append(@, w)]
  PROVE  HeadKept(c)
<1>1. CASE bus'[c] = bus[c]
  BY <1>1 DEF HeadKept, At
<1>2. ASSUME NEW w \in Work, w.step \in {"queued", "import"},
             bus' = [bus EXCEPT ![c] = Append(@, w)]
      PROVE  HeadKept(c)
  BY <1>2, WorkAdded DEF HeadKept, At
<1> QED BY <1>1, <1>2

LEMMA PublicationsSame ==
  ASSUME NEW c \in Contexts, PublicationFits(c), Carried(c), HeadKept(c),
         publisher'[c] = publisher[c], change'[c] = change[c]
  PROVE  PublicationFits(c)'
BY DEF PublicationFits, Carried, HeadKept

LEMMA PublicationsOver ==
  ASSUME NEW c \in Contexts, PublicationFits(c), Publications(c)' = {}, ~ At(c, "found")',
         publisher'[c] = publisher[c], change'[c] = change[c]
  PROVE  PublicationFits(c)'
BY DEF PublicationFits

LEMMA PublicationsOnBus ==
  ASSUME TypeOK, PublicationInv, NEW c \in Contexts, NEW d \in Contexts, OnBus(d)
  PROVE  PublicationFits(c)'
<1>1. ImportsFit(c) /\ ImportsFit(d) /\ PublicationFits(c)
  BY DEF PublicationInv
<1>2. publisher'[c] = publisher[c] /\ change'[c] = change[c]
  BY BusIsSilent DEF linkVars
<1>3. ~ At(c, "publishing") => Publications(c) = {}
  BY <1>1 DEF PublicationFits
<1>4. ASSUME ~ Publish(d) \/ c # d
      PROVE  Carried(c)
  <2>1. CASE Events' = Events
    BY <1>1, <2>1, EventsSame
  <2>2. CASE Import(d, TRUE) \/ Import(d, FALSE)
    <3>1. \E f \in Events : \E g : /\ g.from = f.from /\ g.types = f.types
                               /\ Events' = (Events \ {f}) \union {g}
      BY <1>1, <2>2, EventsImported
    <3> QED BY <1>1, <3>1, EventsReplaced
  <2>3. CASE Publications(c)' \subseteq Publications(c)
    BY <1>1, <2>3 DEF PublicationFits, Carried
  <2>4. CASE c # d /\ Publish(d)
    <3>1. EventFrame(d, Head(bus[d])).from = d
      BY DEF EventFrame, Frame
    <3>2. frames' = frames \union {EventFrame(d, Head(bus[d]))}
      BY <2>4 DEF Publish
    <3> QED BY <2>3, <2>4, <3>1, <3>2 DEF Publications, Events
  <2>5. CASE Published(d)
    <3>1. frames' \subseteq frames
      BY <2>5 DEF Published
    <3> QED BY <2>3, <3>1 DEF Publications, Events
  <2>6. CASE Find(d) \/ Refuse(d) \/ \E t \in Types : Post(d, t)
    <3>1. frames' = frames
      BY <2>6 DEF Find, Refuse, Post
    <3> QED BY <2>1, <3>1 DEF Events
  <2> QED BY <1>4, <2>2, <2>4, <2>5, <2>6 DEF OnBus
<1>5. CASE c # d
  <2>1. bus'[c] = bus[c]
    BY <1>5 DEF OnBus, Find, Publish, Refuse, Published, Import, Post, Done, TypeOK
  <2> QED BY <1>1, <1>2, <1>4, <1>5, <2>1, HeadSame, PublicationsSame
<1>6. ASSUME bus[c] # <<>>, Done(c)
      PROVE  ~ At(c, "found")'
  BY <1>1, <1>6, HeadDone DEF ImportsFit, At
<1>7. CASE Publish(c)
  <2> DEFINE h == EventFrame(c, Head(bus[c]))
  <2>1. /\ At(c, "found") /\ frames' = frames \union {h}
        /\ bus' = [bus EXCEPT ![c][1].step = "publishing"]
    BY <1>7 DEF Publish
  <2>2. h.types = {Head(bus[c]).type}
    BY DEF EventFrame, Frame
  <2>3. /\ At(c, "publishing")' /\ ~ At(c, "found")'
        /\ Head(bus'[c]).type = Head(bus[c]).type
    BY <2>1, HeadMoves DEF At, Moving
  <2>4. ~ At(c, "publishing") /\ publisher[c][Head(bus[c]).type] = "on"
    BY <1>1, <2>1 DEF At, PublicationFits
  <2> HIDE DEF h
  <2>5. \A f \in Publications(c)' : f = h
    BY <1>3, <2>1, <2>4 DEF Publications, Events
  <2> QED BY <1>1, <1>2, <2>2, <2>3, <2>4, <2>5 DEF PublicationFits
<1>8. CASE c = d /\ Find(c)
  <2>1. At(c, "queued") /\ bus[c] # <<>> /\ Head(bus[c]).step = "queued" /\ frames' = frames
    BY <1>8 DEF Find, At
  <2>2. Publications(c)' = {}
    BY <1>3, <2>1 DEF At, Publications, Events
  <2>3. CASE Done(c)
    BY <1>1, <1>2, <1>6, <2>1, <2>2, <2>3, PublicationsOver
  <2>4. CASE bus' = [bus EXCEPT ![c][1].step = "fenced"]
    <3>1. ~ At(c, "found")'
      BY <2>1, <2>4, HeadMoves DEF At, Moving
    <3> QED BY <1>1, <1>2, <2>2, <3>1, PublicationsOver
  <2>5. CASE publisher[c][Head(bus[c]).type] = "on" /\ bus' = [bus EXCEPT ![c][1].step = "found"]
    <3>1. Head(bus'[c]).type = Head(bus[c]).type
      BY <2>1, <2>5, HeadMoves DEF Moving
    <3> QED BY <1>1, <1>2, <2>2, <2>5, <3>1 DEF PublicationFits
  <2> QED BY <1>8, <2>3, <2>4, <2>5 DEF Find
<1>9. CASE c = d /\ (Refuse(c) \/ Import(c, TRUE) \/ Import(c, FALSE))
  <2>1. Done(c) /\ bus[c] # <<>> /\ ~ At(c, "publishing")
    BY <1>9 DEF Refuse, Import, At
  <2>2. CASE Refuse(c)
    <3>1. Publications(c)' = {}
      BY <1>3, <2>1, <2>2 DEF Refuse, Publications, Events
    <3> QED BY <1>1, <1>2, <1>6, <2>1, <3>1, PublicationsOver
  <2>3. CASE Import(c, TRUE) \/ Import(c, FALSE)
    <3>1. \E f \in Events : \E g : /\ g.from = f.from /\ g.types = f.types
                               /\ Events' = (Events \ {f}) \union {g}
      BY <1>1, <2>3, EventsImported
    <3>2. Publications(c)' = {}
      BY <1>1, <1>3, <2>1, <3>1, EventsReplaced DEF Carried
    <3> QED BY <1>1, <1>2, <1>6, <2>1, <3>2, PublicationsOver
  <2> QED BY <1>9, <2>2, <2>3
<1>10. CASE c = d /\ Published(c)
  <2>1. Done(c) /\ bus[c] # <<>>
    BY <1>10 DEF Published, At
  <2>2. PICK f \in Awaited("event", c, "open") : frames' = frames \ {f}
    BY <1>10 DEF Published
  <2>3. f \in Publications(c)
    BY <2>2 DEF Awaited, Publications, Events
  <2>4. Publications(c)' = {}
    BY <1>1, <2>2, <2>3 DEF PublicationFits, Publications, Events
  <2> QED BY <1>1, <1>2, <1>6, <2>1, <2>4, PublicationsOver
<1>11. CASE c = d /\ ~ Publish(c) /\ \E t \in Types : Post(c, t)
  <2>1. PICK t \in Types : Post(c, t)
    BY <1>11
  <2> DEFINE w == [step |-> "queued", type |-> t, event |-> posts']
  <2>2. w \in Work /\ w.step = "queued" /\ bus' = [bus EXCEPT ![c] = Append(@, w)]
    BY <2>1 DEF Post, Work, TypeOK
  <2> HIDE DEF w
  <2>3. HeadKept(c)
    BY <2>2, HeadSame
  <2> QED BY <1>1, <1>2, <1>4, <1>11, <2>3, PublicationsSame
<1> QED BY <1>5, <1>7, <1>8, <1>9, <1>10, <1>11 DEF OnBus

LEMMA PublicationsReceived ==
  ASSUME TypeOK, PublicationInv, NEW c \in Contexts, NEW f \in frames, Receive(f) \/ Replied(f)
  PROVE  PublicationFits(c)'
<1>1. PublicationFits(c)
  BY DEF PublicationInv
<1>2. publisher'[c] = publisher[c] /\ change'[c] = change[c]
  BY ReceiveCases DEF Replied, demandVars
<1>3. CASE Events' = Events /\ bus' = bus
  BY <1>1, <1>2, <1>3, EventsSame, HeadSame, PublicationsSame
<1>4. CASE ~ (Events' = Events /\ bus' = bus)
  <2>1. Receive(f) /\ f \in Events
    BY <1>4, EventsReceived
  <2>2. f \in FrameSet /\ f.left # <<>> /\ Head(f.left) \in Contexts
    BY <2>1, ReceiveCases
  <2>3. /\ Called(f).from = f.from /\ Called(f).types = f.types /\ Called(f).kind = f.kind
        /\ Skipped(f).from = f.from /\ Skipped(f).types = f.types /\ Called(f) \in FrameSet
    BY <2>2, CalledTyped
  <2>4. Carried(c)
    <3>1. \E g \in {Called(f), Skipped(f)} : Events' = (Events \ {f}) \union {g}
      BY <1>4, EventsReceived
    <3> QED BY <1>1, <2>1, <2>3, <3>1, EventsReplaced
  <2>5. HeadKept(c)
    <3> DEFINE w == [step |-> "import", frame |-> Called(f)]
    <3>1. bus' = bus \/ bus' = [bus EXCEPT ![Head(f.left)] = Append(@, w)]
      BY <1>4, EventsReceived
    <3>2. w \in Work /\ w.step = "import"
      BY <2>1, <2>3 DEF Work, Events
    <3> HIDE DEF w
    <3>3. CASE c = Head(f.left)
      BY <3>1, <3>2, <3>3, HeadSame
    <3>4. CASE c # Head(f.left)
      <4>1. bus'[c] = bus[c]
        BY <2>2, <3>1, <3>4 DEF TypeOK
      <4> QED BY <4>1, HeadSame
    <3> QED BY <3>3, <3>4
  <2> QED BY <1>1, <1>2, <2>4, <2>5, PublicationsSame
<1> QED BY <1>3, <1>4

LEMMA PublicationsOfOthers ==
  ASSUME TypeOK, LinkInv, PublicationInv, NEW c \in Contexts, NEW d \in Contexts,
         InLife(d) \/ OnDemand(d), c # d \/ (InLife(d) /\ ~ Released(d))
  PROVE  PublicationFits(c)'
<1>1. PublicationFits(c)
  BY DEF PublicationInv
<1>2. Carried(c)
  BY <1>1, EventsSilent, EventsSame
<1>3. CASE InLife(d) /\ ~ Released(d)
  <2>1. publisher' = publisher /\ change' = change /\ bus' = bus
    BY <1>3 DEF InLife, Open, Attach, Announce, AnnounceWanted, Ready, Close, Withdraw,
       Withdrawn, demandVars
  <2> QED BY <1>1, <1>2, <2>1, HeadSame, PublicationsSame
<1>4. CASE c # d /\ (Released(d) \/ OnDemand(d))
  <2>1. CASE Released(d) \/ BeginChange(d) \/ Commit(d) \/ FailChange(d)
    <3>1. publisher'[c] = publisher[c]
      BY <1>4, <2>1 DEF TypeOK, Released, BeginChange, Commit, FailChange
    <3>2. change'[c] = change[c]
      BY <1>4, <2>1 DEF TypeOK, Released, BeginChange, Commit, FailChange, SettleChange
    <3>3. bus' = bus
      BY <2>1 DEF Released, BeginChange, Commit, FailChange
    <3> QED BY <1>1, <1>2, <3>1, <3>2, <3>3, HeadSame, PublicationsSame
  <2>2. CASE \E t \in Types : \/ RemoveStarts(d, t) \/ RemoveEnds(d, t)
                              \/ ReleaseStarts(d, t) \/ ReleaseEnds(d, t)
    <3>1. publisher'[c] = publisher[c] /\ bus'[c] = bus[c]
      BY <1>4, <2>2 DEF TypeOK, RemoveStarts, RemoveEnds, ReleaseStarts, ReleaseEnds,
         StartsClosing, EndsClosing
    <3>2. change'[c] = change[c]
      BY <1>4, <2>2 DEF TypeOK, RemoveStarts, RemoveEnds, ReleaseStarts, ReleaseEnds
    <3> QED BY <1>1, <1>2, <3>1, <3>2, HeadSame, PublicationsSame
  <2> QED BY <1>4, <2>1, <2>2 DEF OnDemand
<1> QED BY <1>3, <1>4

\* The fence: a publisher that closes refuses the event that has found it, and
\* has closed only when no publication of its type is left.
LEMMA PublicationsClosing ==
  ASSUME TypeOK, PublicationInv, NEW c \in Contexts, NEW t \in Types, Events' = Events,
         \/ RemoveStarts(c, t) \/ RemoveEnds(c, t) \/ ReleaseStarts(c, t) \/ ReleaseEnds(c, t)
  PROVE  PublicationFits(c)'
<1> DEFINE h == Head(bus[c]).type
           closed == change[c].removed \ change[c].left
<1>1. PublicationFits(c) /\ Publications(c)' = Publications(c)
  BY DEF PublicationInv, Publications
<1>2. /\ publisher[c] \in [Types -> {"none", "on", "closing", "off", "stuck"}]
      /\ change[c].removed \subseteq Types /\ publisher \in PublisherStates
  BY DEF TypeOK, PublisherStates
<1>3. At(c, "found") \/ At(c, "publishing") => h \in Types
  BY WorkTyped DEF At, Moving
<1>4. CASE RemoveStarts(c, t) \/ ReleaseStarts(c, t)
  <2>1. StartsClosing(c, t) /\ change' = change
    BY <1>4 DEF RemoveStarts, ReleaseStarts
  <2>2. /\ publisher[c][t] = "on" /\ publisher'[c][t] = "closing"
        /\ \A s \in Types \ {t} : publisher'[c][s] = publisher[c][s]
    BY <1>2, <2>1 DEF StartsClosing, PublisherStates
  <2>3. \A s \in closed : publisher'[c][s] \in {"off", "stuck"}
    BY <1>1, <1>2, <2>2 DEF PublicationFits
  <2>4. CASE At(c, "found") /\ h = t
    <3>1. bus' = [bus EXCEPT ![c][1].step = "fenced"]
      BY <2>1, <2>4 DEF StartsClosing
    <3>2. ~ At(c, "found")'
      BY <2>4, <3>1, HeadMoves DEF At, Moving
    <3>3. Publications(c) = {}
      BY <1>1, <2>4 DEF PublicationFits, At
    <3> QED BY <1>1, <2>1, <2>3, <3>2, <3>3 DEF PublicationFits
  <2>5. CASE ~ (At(c, "found") /\ h = t)
    <3>1. bus' = bus
      BY <2>1, <2>5 DEF StartsClosing
    <3>2. At(c, "found") => publisher'[c][h] = "on"
      BY <1>1, <1>3, <2>2, <2>5 DEF PublicationFits
    <3>3. \A f \in Publications(c) : publisher'[c][h] \in {"on", "closing"}
      BY <1>1, <1>3, <2>2 DEF PublicationFits
    <3> QED BY <1>1, <2>1, <2>3, <3>1, <3>2, <3>3 DEF PublicationFits, At
  <2> QED BY <2>4, <2>5
<1>5. CASE RemoveEnds(c, t) /\ publisher' = publisher
  <2>1. /\ publisher[c][t] \in {"off", "stuck"} /\ bus' = bus
        /\ change'[c].removed = change[c].removed /\ change'[c].left = change[c].left \ {t}
    <3>1. change' = [change EXCEPT ![c].left = @ \ {t},
                                   ![c].failed = @ \/ publisher'[c][t] = "stuck"]
      BY <1>5 DEF RemoveEnds
    <3>2. change'[c].removed = change[c].removed /\ change'[c].left = change[c].left \ {t}
      BY <3>1 DEF TypeOK
    <3>3. publisher[c][t] # "closing" \/ publisher'[c][t] # "closing"
      BY <1>2, <1>5 DEF RemoveEnds, EndsClosing, PublisherStates
    <3> QED BY <1>5, <3>2, <3>3 DEF RemoveEnds, EndsClosing
  <2> QED BY <1>1, <1>5, <2>1 DEF PublicationFits, At
<1>6. CASE (RemoveEnds(c, t) /\ publisher' # publisher) \/ ReleaseEnds(c, t)
  <2>1. PICK to \in {"off", "none"} : /\ EndsClosing(c, t, to) /\ bus' = bus
                                      /\ to = "off" \/ change' = change
    BY <1>6 DEF RemoveEnds, ReleaseEnds
  <2>2. /\ publisher[c][t] = "closing" /\ ~ Publishing(c, t)
        /\ publisher'[c][t] \in {to, "stuck"}
        /\ \A s \in Types \ {t} : publisher'[c][s] = publisher[c][s]
    BY <1>2, <2>1 DEF EndsClosing, PublisherStates
  <2>3. \A f \in Publications(c) : h # t
    BY <1>1, <2>2 DEF PublicationFits, Publishing, Publications, Events
  <2>4. At(c, "found") => h # t
    BY <1>1, <2>2 DEF PublicationFits
  <2>5. /\ \A f \in Publications(c) : publisher'[c][h] \in {"on", "closing"}
        /\ At(c, "found") => publisher'[c][h] = "on"
    BY <1>1, <1>3, <2>2, <2>3, <2>4 DEF PublicationFits
  <2>6. \A s \in change'[c].removed \ change'[c].left : publisher'[c][s] \in {"off", "stuck"}
    <3>1. \A s \in closed : publisher'[c][s] \in {"off", "stuck"}
      BY <1>1, <1>2, <2>2 DEF PublicationFits
    <3>2. CASE change' = change
      BY <3>1, <3>2
    <3>3. CASE change' # change
      <4>1. to = "off" /\ RemoveEnds(c, t)
        BY <1>6, <2>1, <3>3 DEF ReleaseEnds
      <4>2. change' = [change EXCEPT ![c].left = @ \ {t},
                                     ![c].failed = @ \/ publisher'[c][t] = "stuck"]
        BY <4>1 DEF RemoveEnds
      <4>3. change'[c].removed = change[c].removed /\ change'[c].left = change[c].left \ {t}
        BY <4>2 DEF TypeOK
      <4> QED BY <2>2, <3>1, <4>1, <4>3
    <3> QED BY <3>2, <3>3
  <2> QED BY <1>1, <2>1, <2>5, <2>6 DEF PublicationFits, At
<1> QED BY <1>4, <1>5, <1>6

LEMMA PublicationsChanged ==
  ASSUME TypeOK, LinkInv, DetachInv, PublicationInv, NEW c \in Contexts, Released(c) \/ OnDemand(c)
  PROVE  PublicationFits(c)'
<1> DEFINE h == Head(bus[c]).type
<1>1. PublicationFits(c)
  BY DEF PublicationInv
<1>2. Events' = Events
  BY EventsSilent DEF InLife
<1>3. Publications(c)' = Publications(c)
  BY <1>2 DEF Publications
<1>4. At(c, "found") \/ At(c, "publishing") => h \in Types
  BY WorkTyped DEF At, Moving
<1>5. CASE BeginChange(c)
  <2>1. PICK add, removed :
          /\ publisher' = [publisher EXCEPT ![c] = [t \in Types |-> IF t \in add THEN "on" ELSE @[t]]]
          /\ change' = [change EXCEPT ![c] = [stage |-> "remove", left |-> removed,
                          removed |-> removed, failed |-> FALSE]]
          /\ bus' = bus
    BY <1>5 DEF BeginChange
  <2>2. /\ \A t \in Types : publisher'[c][t] = IF t \in add THEN "on" ELSE publisher[c][t]
        /\ change'[c].removed = change'[c].left
    BY <2>1 DEF TypeOK
  <2> QED BY <1>1, <1>3, <1>4, <2>1, <2>2 DEF PublicationFits, At
<1>6. CASE Commit(c) \/ FailChange(c)
  <2>1. /\ change[c].left = {} /\ bus' = bus /\ change'[c] = NoChange
        /\ \A t \in Types : \/ publisher'[c][t] = publisher[c][t]
                            \/ t \in change[c].removed
    <3>1. change[c].left = {} /\ bus' = bus /\ change'[c] = NoChange
      BY <1>6 DEF Commit, FailChange, Removed, SettleChange, TypeOK
    <3>2. \/ publisher' = publisher
          \/ publisher' = [publisher EXCEPT ![c] =
                             [t \in Types |-> IF t \in change[c].removed THEN "none" ELSE @[t]]]
      BY <1>6 DEF Commit, FailChange
    <3>3. publisher \in PublisherStates
      BY DEF TypeOK, PublisherStates
    <3> QED BY <3>1, <3>2, <3>3 DEF PublisherStates
  <2>2. \A t \in change[c].removed : publisher[c][t] \in {"off", "stuck"}
    BY <1>1, <2>1 DEF PublicationFits
  <2> QED BY <1>1, <1>3, <1>4, <2>1, <2>2 DEF PublicationFits, At, NoChange
<1>7. CASE Released(c)
  <2>1. /\ phase[c] = "releasing" /\ change' = change /\ bus' = bus
        /\ \A t \in Types : publisher[c][t] \in {"none", "off", "stuck"}
    BY <1>7 DEF Released
  <2>2. change[c] = NoChange
    BY <2>1 DEF DetachInv, DetachFits, Quiesced, TypeOK
  <2>3. Publications(c) = {} /\ ~ At(c, "found")
    BY <1>1, <1>4, <2>1 DEF PublicationFits
  <2> QED BY <1>3, <2>1, <2>2, <2>3 DEF PublicationFits, At, NoChange
<1> QED BY <1>2, <1>5, <1>6, <1>7, PublicationsClosing DEF OnDemand

LEMMA PublicationInitial == Init => PublicationInv
BY DEF Init, PublicationInv, ImportsFit, PublicationFits, Publications, Events, At, NoChange

LEMMA PublicationInductive ==
  TypeOK /\ LinkInv /\ DetachInv /\ PublicationInv /\ [Next]_vars => PublicationInv'
<1> SUFFICES ASSUME TypeOK, LinkInv, DetachInv, PublicationInv, [Next]_vars, NEW c \in Contexts
             PROVE  (ImportsFit(c) /\ PublicationFits(c))'
  BY DEF PublicationInv
<1>1. ASSUME NEW f \in frames, Receive(f) \/ Replied(f)
      PROVE  (ImportsFit(c) /\ PublicationFits(c))'
  BY <1>1, ImportsReceived, PublicationsReceived
<1>2. ASSUME NEW d \in Contexts, OnBus(d)
      PROVE  (ImportsFit(c) /\ PublicationFits(c))'
  BY <1>2, ImportsOnBus, PublicationsOnBus
<1>3. ASSUME NEW d \in Contexts, InLife(d) \/ OnDemand(d)
      PROVE  (ImportsFit(c) /\ PublicationFits(c))'
  <2>1. CASE c # d \/ (InLife(d) /\ ~ Released(d))
    BY <1>3, <2>1, ImportsOnDemand, PublicationsOfOthers
  <2>2. CASE c = d /\ (Released(d) \/ OnDemand(d))
    BY <1>3, <2>2, ImportsOnDemand, PublicationsChanged
  <2> QED BY <1>3, <2>1, <2>2
<1>4. ASSUME NEW d \in Contexts, Step(d)
      PROVE  (ImportsFit(c) /\ PublicationFits(c))'
  BY <1>2, <1>3, <1>4 DEF Step, InLife, OnDemand, OnBus
<1>5. ASSUME NEW d \in Contexts,
             Open(d) \/ Import(d, FALSE) \/ Close(d) \/ \E t \in Types : Post(d, t)
      PROVE  (ImportsFit(c) /\ PublicationFits(c))'
  BY <1>2, <1>3, <1>5 DEF InLife, OnBus
<1>6. CASE UNCHANGED vars
  <2>1. ImportsFit(c) /\ PublicationFits(c)
    BY DEF PublicationInv
  <2>2. UNCHANGED <<frames, bus, publisher, change>>
    BY <1>6 DEF vars, demandVars
  <2> QED BY <2>1, <2>2 DEF ImportsFit, PublicationFits, Publications, Events, At
<1> QED BY <1>1, <1>4, <1>5, <1>6 DEF Next, System

-----------------------------------------------------------------------------
(* The theorems.                                                           *)

(* In every state, under every interleaving of the brokers of any contexts *)
(* that open, close, retry and exchange events: the variables have their   *)
(* types, and the announcements, publishers and recorded sets fit each     *)
(* other as the four invariants say.                                       *)
THEOREM IntegrationInvariance ==
  Spec => [](TypeOK /\ LinkInv /\ DemandInv /\ DiscoveryInv /\ ForgettingInv)
<1>1. Init => TypeOK /\ LinkInv /\ DemandInv /\ DiscoveryInv /\ ForgettingInv
  BY TypeInitial, LinkInitial, DemandInitial, DiscoveryInitial, ForgettingInitial
<1>2. TypeOK /\ LinkInv /\ DemandInv /\ DiscoveryInv /\ ForgettingInv /\ [Next]_vars =>
        (TypeOK /\ LinkInv /\ DemandInv /\ DiscoveryInv /\ ForgettingInv)'
  BY TypeInductive, LinkInductive, DemandInductive, DiscoveryInductive, ForgettingInductive
<1> QED BY <1>1, <1>2, PTL DEF Spec

(* A settled broker without a failed publication exports exactly the       *)
(* admitted types that some context wants (#replaceWanted), for every      *)
(* number of contexts and types and every overlap of their wanted sets.    *)
THEOREM ExportsFollowDemand == Spec => []ExportsMatchDemand
<1>1. TypeOK /\ DemandInv => ExportsMatchDemand
  BY DEF DemandInv, ExportsFit, ExportsMatchDemand, Origins, Listening
<1> QED BY <1>1, IntegrationInvariance, PTL

(* Two contexts whose open() has completed know each other's wanted types, *)
(* whatever the order in which their frames are called and settled.        *)
THEOREM ReadyIsDiscovered == Spec => []ReadyMeansDiscovered
<1>1. DiscoveryInv => ReadyMeansDiscovered
  BY DEF DiscoveryInv, Discovery, ReadyMeansDiscovered
<1> QED BY <1>1, IntegrationInvariance, PTL

(* No listening context keeps a wanted set of a context that has closed:   *)
(* nothing brings it back after the withdrawal (#closeOnce).               *)
THEOREM ClosedContextsForgotten == Spec => []ClosedIsForgotten
<1>1. LinkInv /\ ForgettingInv => ClosedIsForgotten
  <2> SUFFICES ASSUME LinkInv, ForgettingInv, NEW c \in Contexts, NEW o \in Contexts,
                      Listening(c), phase[o] = "closed"
               PROVE  wanted[c][o] = {}
    BY DEF ClosedIsForgotten
  <2>1. o \in withdrawn /\ c # o
    BY DEF LinkInv, PhaseFits, Listening
  <2> QED BY <2>1 DEF ForgettingInv, Forgetting
<1> QED BY <1>1, IntegrationInvariance, PTL

LEMMA ClosingInvariance == Spec => [](TypeOK /\ LinkInv /\ DetachInv /\ PublicationInv)
<1>1. Init => TypeOK /\ LinkInv /\ DetachInv /\ PublicationInv
  BY TypeInitial, LinkInitial, DetachInitial, PublicationInitial
<1>2. TypeOK /\ LinkInv /\ DetachInv /\ PublicationInv /\ [Next]_vars =>
        (TypeOK /\ LinkInv /\ DetachInv /\ PublicationInv)'
  BY TypeInductive, LinkInductive, DetachInductive, PublicationInductive
<1> QED BY <1>1, <1>2, PTL DEF Spec

(* A context exports one event at a time, that of its bus's dispatch, and  *)
(* through a publisher that is there: a publisher whose close() has been   *)
(* called keeps waiting for it, and refuses the event that had found it    *)
(* before (publish, close), whoever closes it and whatever else fails.     *)
ExportsAreAwaited ==
  \A c \in Contexts :
    \A f \in frames : f.kind = "event" /\ f.from = c =>
      /\ At(c, "publishing")
      /\ \E t \in Types : f.types = {t} /\ publisher[c][t] \in {"on", "closing"}
      /\ \A g \in frames : g.kind = "event" /\ g.from = c => g = f

THEOREM PublishersOutlastExports == Spec => []ExportsAreAwaited
<1>1. TypeOK /\ PublicationInv => ExportsAreAwaited
  <2> SUFFICES ASSUME TypeOK, PublicationInv, NEW c \in Contexts, NEW f \in frames,
                      f.kind = "event", f.from = c
               PROVE  /\ At(c, "publishing")
                      /\ \E t \in Types : f.types = {t} /\ publisher[c][t] \in {"on", "closing"}
                      /\ \A g \in frames : g.kind = "event" /\ g.from = c => g = f
    BY DEF ExportsAreAwaited
  <2>1. PublicationFits(c) /\ f \in Publications(c)
    BY DEF PublicationInv, Publications, Events
  <2>2. At(c, "publishing") /\ f.types = {Head(bus[c]).type}
        /\ publisher[c][Head(bus[c]).type] \in {"on", "closing"}
    BY <2>1 DEF PublicationFits
  <2>3. Head(bus[c]).type \in Types
    BY <2>2, WorkTyped DEF At, Moving
  <2>4. \A g \in frames : g.kind = "event" /\ g.from = c => g = f
    BY <2>1 DEF PublicationFits, Publications, Events
  <2> QED BY <2>2, <2>3, <2>4
<1> QED BY <1>1, ClosingInvariance, PTL

(* A broker whose close() has succeeded has let go of everything: it is    *)
(* subscribed to no channel, has no publisher and no publication under     *)
(* way, and no callback or transition it accepted is unsettled             *)
(* (#closeOnce), after any number of failed attempts.                      *)
ClosedIsGone ==
  \A c \in Contexts : phase[c] = "closed" =>
    /\ \A ch \in Channels : ~ Attached(c, ch)
    /\ \A t \in Types : publisher[c][t] = "none"
    /\ \A f \in frames : f.at # c /\ (f.kind = "event" => f.from # c)
    /\ queue[c] = <<>> /\ change[c] = NoChange

THEOREM ClosedLeavesNothing == Spec => []ClosedIsGone
<1>1. TypeOK /\ DetachInv /\ PublicationInv => ClosedIsGone
  <2> SUFFICES ASSUME TypeOK, DetachInv, PublicationInv, NEW c \in Contexts, phase[c] = "closed"
               PROVE  /\ \A ch \in Channels : ~ Attached(c, ch)
                      /\ \A t \in Types : publisher[c][t] = "none"
                      /\ \A f \in frames : f.at # c /\ (f.kind = "event" => f.from # c)
                      /\ queue[c] = <<>> /\ change[c] = NoChange
    BY DEF ClosedIsGone
  <2>1. /\ \A ch \in Channels : ~ Attached(c, ch)
        /\ \A t \in Types : publisher[c][t] = "none"
        /\ Accepted(c) = {} /\ queue[c] = <<>>
    BY DEF DetachInv, DetachFits, Quiesced
  <2>2. change[c] = NoChange
    BY <2>1 DEF TypeOK
  <2>3. At(c, "publishing") => Head(bus[c]).type \in Types
    BY WorkTyped DEF At, Moving
  <2>4. Publications(c) = {}
    BY <2>1, <2>3 DEF PublicationInv, PublicationFits
  <2> QED BY <2>1, <2>2, <2>4 DEF Accepted, Publications, Events
<1> QED BY <1>1, ClosingInvariance, PTL
=============================================================================
