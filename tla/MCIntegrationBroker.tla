------------------------ MODULE MCIntegrationBroker ------------------------
(* Small topologies of contexts for IntegrationBroker. *)
EXTENDS IntegrationBroker

CONSTANTS a, b, p, x, y

\* p produces; a consumes both types, b one of them.
FanOutWants == [c \in Contexts |-> IF c = a THEN {x, y} ELSE IF c = b THEN {x} ELSE {}]
FanOutEmits == [c \in Contexts |-> IF c = p THEN {x, y} ELSE {}]

\* Contexts that have opened, p first, or opened and closed, before the others
\* begin: two of the three race through open() or close(), or the third joins.
Histories ==
  {[c \in Contexts |-> IF c = b THEN "closed" ELSE "new"],
   [c \in Contexts |-> IF c = p THEN "open" ELSE IF c = a THEN "new" ELSE "closed"],
   [c \in Contexts |-> IF c = b THEN "new" ELSE "open"]}

Opened == SelectSeq(<<p, a, b>>, LAMBDA c : phase[c] = "open")

Begun ==
  /\ phase \in Histories
  /\ withdrawn = {c \in Contexts : phase[c] = "closed"}
  /\ group = [ch \in Channels |->
                SelectSeq(Opened, LAMBDA c : ch \in {"status", "wanted"} \/ ch \in Wants[c])]
  /\ wanted = [c \in Contexts |-> [o \in Contexts |->
                IF {c, o} \subseteq ToSet(Opened) /\ c # o THEN Wants[o] ELSE {}]]
  /\ publisher = [c \in Contexts |-> [t \in Types |->
                    IF t \in Known(c) /\ Origins(c, t) # {} THEN "on" ELSE "none"]]
  /\ leaked = {} /\ frames = {} /\ due = {} /\ posts = 0 /\ faults = 0 /\ retries = 0
  /\ spoiled = [c \in Contexts |-> {}]
  /\ queue = [c \in Contexts |-> <<>>]
  /\ change = [c \in Contexts |-> NoChange]
  /\ bus = [c \in Contexts |-> <<>>]

BegunSpec == Begun /\ [][Next]_vars /\ WF_vars(System)

\* a and b import from each other.
MutualWants == [c \in Contexts |-> IF c = a THEN {y} ELSE {x}]
MutualEmits == [c \in Contexts |-> IF c = a THEN {x} ELSE {y}]
=============================================================================
