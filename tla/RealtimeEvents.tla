--------------------------- MODULE RealtimeEvents ---------------------------
(***************************************************************************)
(* Realtime events: database triggers insert rows into realtime_events and *)
(* notify; every API process listens and its hub passes the events on to   *)
(* the streams of the browsers connected to it; a browser that reconnects  *)
(* says which event it saw last and is sent what came after it.            *)
(*                                                                         *)
(* An event's id is taken from a sequence when its row is inserted, and    *)
(* the row is seen when the transaction commits, so ids may be committed   *)
(* out of order.  Events older than 30 days, which are deleted, are left   *)
(* out.                                                                    *)
(***************************************************************************)
EXTENDS Naturals, Sequences, FiniteSets, SequencesExt, FiniteSetsExt

CONSTANTS
  Processes,     \* control-plane processes
  Clients,       \* browsers, each with one stream at a time
  NoProcess,     \* the browser is not connected
  MaxEvent,      \* bound of the model on event ids
  Sees,          \* Sees[c]: ids of the events the user of c may see
  Capacity,      \* of a subscriber's channel
  ReplayLimit    \* of a replay query

Events == 1..MaxEvent

ASSUME RealtimeEventsAssumption ==
  /\ NoProcess \notin Processes
  /\ MaxEvent \in Nat /\ Capacity \in Nat \ {0} /\ ReplayLimit \in Nat \ {0}
  /\ Sees \in [Clients -> SUBSET Events]

VARIABLES
  lastId,     \* the last value taken from the id sequence
  open,       \* events of transactions that have not ended
  table,      \* committed rows of realtime_events
  inbox,      \* inbox[p]: notifications on the listening connection of p
  listening,  \* processes whose listening connection is up
  conn,       \* conn[c]: the process that serves c, or NoProcess
  stage,      \* stage[c]: what the stream does next, "replay", "flush" or "loop"
  channel,    \* channel[c]: the subscriber's channel in the hub
  cursor,     \* cursor[c]: the stream's cursor
  received,   \* received[c]: ids the browser was sent, over all its streams
  start,      \* start[c]: the cursor of the browser's first stream
  dropped,    \* history: events the hub dropped because a channel was full
  excused     \* history: events a client may miss for another known reason

tableVars == <<lastId, open, table>>
relayVars == <<inbox, listening>>
streamVars == <<conn, stage, channel, cursor, received, start>>
vars == <<lastId, open, table, inbox, listening, conn, stage, channel, cursor,
          received, start, dropped, excused>>

NotStarted == MaxEvent + 1
\* localStorage, and Last-Event-ID: the id of the last message.
Saved(c) == IF received[c] = <<>> THEN 0 ELSE Last(received[c])

-----------------------------------------------------------------------------
Init ==
  /\ lastId = 0 /\ open = {} /\ table = {}
  /\ inbox = [p \in Processes |-> <<>>]
  /\ listening = Processes
  /\ conn = [c \in Clients |-> NoProcess]
  /\ stage = [c \in Clients |-> "off"]
  /\ channel = [c \in Clients |-> <<>>]
  /\ cursor = [c \in Clients |-> 0]
  /\ received = [c \in Clients |-> <<>>]
  /\ start = [c \in Clients |-> NotStarted]
  /\ dropped = [c \in Clients |-> {}]
  /\ excused = [c \in Clients |-> {}]

(* A trigger inserts an event into the transaction that changed a row.     *)
Emit ==
  /\ lastId < MaxEvent
  /\ lastId' = lastId + 1
  /\ open' = open \cup {lastId'}
  /\ UNCHANGED <<table, relayVars, streamVars, dropped, excused>>

Excuse(C, S) == excused' = [c \in Clients |-> excused[c] \cup IF c \in C THEN S ELSE {}]

\* The stream no longer reads the table: only its channel brings it events.
PastReplay(c) == stage[c] \in {"flush", "loop"}

(* The notification is sent on commit, to the processes that listen.  A    *)
(* client may miss it when its process does not and the client's stream    *)
(* has made its replay, and when a later event was committed before it.    *)
Commit(e) ==
  /\ e \in open
  /\ open' = open \ {e}
  /\ table' = table \cup {e}
  /\ inbox' = [p \in Processes |-> IF p \in listening THEN Append(inbox[p], e) ELSE inbox[p]]
  /\ Excuse(IF \E f \in table : f > e THEN Clients
            ELSE {c \in Clients : conn[c] \in Processes \ listening /\ PastReplay(c)}, {e})
  /\ UNCHANGED <<lastId, listening, streamVars, dropped>>

Abort(e) ==
  /\ e \in open
  /\ open' = open \ {e}
  /\ UNCHANGED <<lastId, table, relayVars, streamVars, dropped, excused>>

-----------------------------------------------------------------------------
\* Mutant of Subscribed: the stream subscribes after its replay.
SubscribedLate(c) == stage[c] = "loop"

Subscribed(c) == conn[c] # NoProcess

\* Mutant of Full: off by one.
FullLate(c) == Len(channel[c]) > Capacity

Full(c) == Len(channel[c]) >= Capacity

(* The relay of a process takes the next notification and loads its event. *)
(* An event it has loaded it publishes; a full channel drops it.           *)
Relay(p) ==
  LET e == Head(inbox[p])
      to == {c \in Clients : conn[c] = p /\ Subscribed(c) /\ e \in Sees[c]}
      full == {c \in to : Full(c)} IN
    /\ inbox[p] # <<>>
    /\ inbox' = [inbox EXCEPT ![p] = Tail(@)]
    /\ channel' = [c \in Clients |-> IF c \in to \ full THEN Append(channel[c], e) ELSE channel[c]]
    /\ dropped' = [c \in Clients |-> dropped[c] \cup IF c \in full THEN {e} ELSE {}]
    /\ UNCHANGED <<tableVars, listening, conn, stage, cursor, received, start, excused>>

(* An event it could not load is passed over without a word, and the relay *)
(* goes on with the next notification.                                     *)
Discard(p) ==
  /\ inbox[p] # <<>>
  /\ inbox' = [inbox EXCEPT ![p] = Tail(@)]
  /\ Excuse({c \in Clients : conn[c] = p /\ PastReplay(c)}, {Head(inbox[p])})
  /\ UNCHANGED <<tableVars, listening, streamVars, dropped>>

(* The listening connection breaks, and with it go the notifications that  *)
(* were not taken; later the relay listens again.                          *)
RelayDown(p) ==
  /\ p \in listening
  /\ listening' = listening \ {p}
  /\ inbox' = [inbox EXCEPT ![p] = <<>>]
  /\ Excuse({c \in Clients : conn[c] = p /\ PastReplay(c)}, ToSet(inbox[p]))
  /\ UNCHANGED <<tableVars, streamVars, dropped>>

RelayUp(p) ==
  /\ p \notin listening
  /\ listening' = listening \cup {p}
  /\ UNCHANGED <<tableVars, inbox, streamVars, dropped, excused>>

-----------------------------------------------------------------------------
(* The browser opens its stream: the cursor is read from the request and   *)
(* the stream subscribes to the hub.                                       *)
Connect(c, p) ==
  /\ conn[c] = NoProcess
  /\ conn' = [conn EXCEPT ![c] = p]
  /\ cursor' = [cursor EXCEPT ![c] = Saved(c)]
  /\ channel' = [channel EXCEPT ![c] = <<>>]
  /\ stage' = [stage EXCEPT ![c] = "replay"]
  /\ UNCHANGED <<tableVars, relayVars, received, start, dropped, excused>>

\* ORDER BY id LIMIT n.
Ranked(S, i) == CHOOSE e \in S : Cardinality({f \in S : f < e}) = i - 1
FirstOf(S, n) == [i \in 1..Min({n, Cardinality(S)}) |-> Ranked(S, i)]

(* Then it replays what came after the cursor, up to the limit; a browser  *)
(* without a cursor starts at the latest event.                            *)
Replay(c) ==
  LET seen == table \cap Sees[c]
      later == {e \in seen : e > cursor[c]}
      sent == FirstOf(later, ReplayLimit) IN
    /\ stage[c] = "replay"
    /\ stage' = [stage EXCEPT ![c] = "flush"]
    /\ IF cursor[c] > 0
       THEN /\ received' = [received EXCEPT ![c] = @ \o sent]
            /\ cursor' = [cursor EXCEPT ![c] = IF sent = <<>> THEN @ ELSE Last(sent)]
            /\ excused' = [excused EXCEPT ![c] = @ \cup (later \ ToSet(sent))]
            /\ UNCHANGED start
       ELSE /\ cursor' = [cursor EXCEPT ![c] = Max(seen \cup {0})]
            /\ start' = [start EXCEPT ![c] = cursor'[c]]
            /\ UNCHANGED <<received, excused>>
    /\ UNCHANGED <<tableVars, relayVars, conn, channel, dropped>>

(* The response is flushed and the stream enters its loop.                 *)
Loop(c) ==
  /\ stage[c] = "flush"
  /\ stage' = [stage EXCEPT ![c] = "loop"]
  /\ UNCHANGED <<tableVars, relayVars, conn, channel, cursor, received, start, dropped, excused>>

\* Mutants of Fresh: what the replay sent is sent again; ids are expected to
\* be consecutive.
FreshAlways(c, e) == TRUE
FreshNext(c, e) == e = cursor[c] + 1

Fresh(c, e) == e > cursor[c]

(* The stream takes an event from its channel and writes it, unless its    *)
(* cursor is past it.                                                      *)
Deliver(c) ==
  LET e == Head(channel[c]) IN
    /\ stage[c] = "loop" /\ channel[c] # <<>>
    /\ channel' = [channel EXCEPT ![c] = Tail(@)]
    /\ IF Fresh(c, e)
       THEN /\ received' = [received EXCEPT ![c] = Append(@, e)]
            /\ cursor' = [cursor EXCEPT ![c] = e]
       ELSE UNCHANGED <<received, cursor>>
    /\ UNCHANGED <<tableVars, relayVars, conn, stage, start, dropped, excused>>

(* The stream ends: the browser leaves, the network or the process fails.  *)
Disconnect(c) ==
  /\ conn[c] # NoProcess
  /\ conn' = [conn EXCEPT ![c] = NoProcess]
  /\ stage' = [stage EXCEPT ![c] = "off"]
  /\ channel' = [channel EXCEPT ![c] = <<>>]
  /\ UNCHANGED <<tableVars, relayVars, cursor, received, start, dropped, excused>>

-----------------------------------------------------------------------------
Next ==
  \/ Emit
  \/ \E e \in Events : Commit(e) \/ Abort(e)
  \/ \E p \in Processes : Relay(p) \/ Discard(p) \/ RelayDown(p) \/ RelayUp(p)
  \/ \E c \in Clients : Replay(c) \/ Loop(c) \/ Deliver(c) \/ Disconnect(c)
  \/ \E c \in Clients, p \in Processes : Connect(c, p)

(* Relays and the streams of connected browsers go on; a notification that *)
(* waits is published or passed over.                                      *)
Fairness ==
  /\ \A p \in Processes : WF_vars(Relay(p) \/ Discard(p))
  /\ \A c \in Clients : WF_vars(Replay(c)) /\ WF_vars(Loop(c)) /\ WF_vars(Deliver(c))

Spec == Init /\ [][Next]_vars
FairSpec == Spec /\ Fairness

-----------------------------------------------------------------------------
TypeOK ==
  /\ lastId \in 0..MaxEvent
  /\ open \subseteq 1..lastId /\ table \subseteq 1..lastId
  /\ inbox \in [Processes -> Seq(Events)]
  /\ listening \subseteq Processes
  /\ conn \in [Clients -> Processes \cup {NoProcess}]
  /\ stage \in [Clients -> {"off", "replay", "flush", "loop"}]
  /\ channel \in [Clients -> Seq(Events)] /\ received \in [Clients -> Seq(Events)]
  /\ \A c \in Clients : Len(channel[c]) <= Capacity
  /\ cursor \in [Clients -> 0..MaxEvent] /\ start \in [Clients -> 0..NotStarted]
  /\ dropped \in [Clients -> SUBSET Events] /\ excused \in [Clients -> SUBSET Events]

(* A browser is never sent an event twice, out of order, of another user,  *)
(* or of a transaction that did not commit, over any number of streams     *)
(* with whichever processes, and although replay and relay overlap.        *)
InOrderOnce ==
  \A c \in Clients :
    /\ \A i, j \in DOMAIN received[c] : i < j => received[c][i] < received[c][j]
    /\ ToSet(received[c]) \subseteq table \cap Sees[c]

Passed(c) == {e \in table \cap Sees[c] : start[c] < e /\ e <= Saved(c)}

(* A browser whose cursor is past an event has seen the event, unless the  *)
(* hub dropped it or it fell to one of the other known losses: commits out *)
(* of order, a relay that was down or could not load the event, a replay   *)
(* cut at its limit.  Nothing is lost between the replay of a stream and   *)
(* its subscription.  An event in one of these sets is not replayed later  *)
(* once the cursor is past it.                                             *)
NoUnexplainedGap ==
  \A c \in Clients : Passed(c) \subseteq ToSet(received[c]) \cup dropped[c] \cup excused[c]

(* A browser that stays connected is sent every event that is committed    *)
(* and neither dropped nor lost for one of these reasons.                  *)
StreamCatchesUp ==
  \A c \in Clients : \A e \in Events :
    e \in table \cap Sees[c] /\ stage[c] = "loop" /\ start[c] < e
      ~> \/ e \in ToSet(received[c]) \cup dropped[c] \cup excused[c]
         \/ conn[c] = NoProcess
=============================================================================
