--------------------------- MODULE ActivityStream ---------------------------
(***************************************************************************)
(* The activity log: handlers publish events, the broadcaster's goroutine  *)
(* (events/broadcaster.go) relays them to the channels of its clients, a   *)
(* handler per connection (handleActivityStream in api/handlers.go) writes *)
(* them to the connection, and the page (web/src/pages/Activity.tsx), with *)
(* the browser's EventSource, shows the latest ones.                       *)
(*                                                                         *)
(*   draft -> queue -> channel -> wire -> events                           *)
(*                                                                         *)
(* An event may be dropped at the queue and at a full channel, and is lost *)
(* on a connection whose WriteTimeout has passed: the server then ends it, *)
(* and the EventSource connects again.  There is one page; other pages are *)
(* other clients of the broadcaster and change nothing for this one.       *)
(***************************************************************************)
EXTENDS Integers, Sequences, Functions

CONSTANTS Publisher,   \* goroutines that call BroadcastDHCPEvent
          Conn,        \* places for connections
          QueueCap,    \* capacity of broadcast (100)
          ClientCap,   \* capacity of a client's channel (10)
          Window,      \* events a page keeps (100)
          MaxEvents,   \* events published
          Nobody,      \* who publishes the event "init" of a connection
          NoConn

ASSUME StreamAssumption ==
    /\ QueueCap \in Nat \ {0}
    /\ ClientCap \in Nat \ {0}
    /\ Window \in Nat \ {0}
    /\ MaxEvents \in Nat
    /\ Nobody \notin Publisher
    /\ NoConn \notin Conn

VARIABLES counter,    \* eventCounter
          draft,      \* of each publisher: the id of its event, before Broadcast
          queue,      \* the channel broadcast
          alive,      \* the broadcaster's goroutine runs
          clients,    \* its map
          channel,    \* each client's channel
          closed,     \* which of them are closed
          handler,    \* the handler of each connection
          late,       \* its WriteTimeout has passed
          cancelled,  \* its context is done
          wire,       \* written and not yet received
          valid,      \* the token in the page's URL is valid
          source,     \* the page's EventSource
          conn,       \* its connection
          events,     \* the page's list
          isConnected,
          due         \* history: ids given to the client of the page's
                      \* connection that the page has not received

publishers == <<counter, draft>>
page == <<source, conn, events, isConnected>>
vars == <<counter, draft, queue, alive, clients, channel, closed, handler, late,
          cancelled, wire, valid, source, conn, events, isConnected, due>>

Id == 0 .. MaxEvents
Event == [id : Id, by : Publisher \cup {Nobody}]
InitEvent == [id |-> 0, by |-> Nobody]

TypeOK ==
    /\ counter \in Id
    /\ draft \in [Publisher -> Id]
    /\ queue \in Seq(Event) /\ Len(queue) <= QueueCap
    /\ alive \in BOOLEAN
    /\ clients \subseteq Conn
    /\ channel \in [Conn -> Seq(Event)]
    /\ \A c \in Conn : Len(channel[c]) <= ClientCap
    /\ closed \in [Conn -> BOOLEAN]
    /\ handler \in [Conn -> {"free", "registering", "streaming", "leaving", "gone"}]
    /\ late \in [Conn -> BOOLEAN]
    /\ cancelled \in [Conn -> BOOLEAN]
    /\ wire \in [Conn -> Seq(Event)]
    /\ valid \in BOOLEAN
    /\ source \in {"off", "connecting", "open", "failed"}
    /\ conn \in Conn \cup {NoConn}
    /\ source = "open" <=> conn # NoConn
    /\ events \in Seq(Event) /\ Len(events) <= Window
    /\ isConnected \in BOOLEAN
    /\ due \subseteq Id

Init ==
    /\ counter = 0
    /\ draft = [p \in Publisher |-> 0]
    /\ queue = <<>>
    /\ alive = TRUE
    /\ clients = {}
    /\ channel = [c \in Conn |-> <<>>]
    /\ closed = [c \in Conn |-> FALSE]
    /\ handler = [c \in Conn |-> "free"]
    /\ late = [c \in Conn |-> FALSE]
    /\ cancelled = [c \in Conn |-> FALSE]
    /\ wire = [c \in Conn |-> <<>>]
    /\ valid = TRUE
    /\ source = "off"
    /\ conn = NoConn
    /\ events = <<>>
    /\ isConnected = FALSE
    /\ due = {}
-----------------------------------------------------------------------------
(***************************************************************************)
(* The publishers.                                                         *)
(***************************************************************************)
(* BroadcastDHCPEvent numbers the event under mu ...                       *)
BroadcastDHCPEvent(p) ==
    /\ draft[p] = 0
    /\ counter < MaxEvents
    /\ counter' = counter + 1
    /\ draft' = [draft EXCEPT ![p] = counter + 1]
    /\ UNCHANGED <<queue, alive, clients, channel, closed, handler, late,
                   cancelled, wire, valid, page, due>>

(* ... and gives it to Broadcast after that, which drops it if the queue   *)
(* is full.                                                                *)
Broadcast(p) ==
    /\ draft[p] # 0
    /\ queue' = IF Len(queue) < QueueCap
                THEN Append(queue, [id |-> draft[p], by |-> p]) ELSE queue
    /\ draft' = [draft EXCEPT ![p] = 0]
    /\ UNCHANGED <<counter, alive, clients, channel, closed, handler, late,
                   cancelled, wire, valid, page, due>>
-----------------------------------------------------------------------------
(***************************************************************************)
(* The goroutine of the broadcaster.                                       *)
(***************************************************************************)
Takes(c) == c \in clients /\ Len(channel[c]) < ClientCap

(* Mutant: an event a client has no room for is queued again.              *)
RelayAgain ==
    /\ alive /\ queue # <<>>
    /\ queue' = IF \A c \in clients : Takes(c) THEN Tail(queue)
                ELSE Append(Tail(queue), Head(queue))
    /\ channel' = [c \in Conn |-> IF Takes(c) THEN Append(channel[c], Head(queue))
                                  ELSE channel[c]]
    /\ due' = IF Takes(conn) THEN due \cup {Head(queue).id} ELSE due
    /\ UNCHANGED <<publishers, alive, clients, closed, handler, late, cancelled,
                   wire, valid, page>>

(* Mutant: a full channel makes room by losing its oldest event.           *)
RelayOverOldest ==
    /\ alive /\ queue # <<>>
    /\ queue' = Tail(queue)
    /\ channel' = [c \in Conn |->
          IF Takes(c) THEN Append(channel[c], Head(queue))
          ELSE IF c \in clients THEN Append(Tail(channel[c]), Head(queue))
          ELSE channel[c]]
    /\ due' = IF conn \in clients THEN due \cup {Head(queue).id} ELSE due
    /\ UNCHANGED <<publishers, alive, clients, closed, handler, late, cancelled,
                   wire, valid, page>>

(* An event for every client with room in its channel.                     *)
Relay ==
    /\ alive /\ queue # <<>>
    /\ queue' = Tail(queue)
    /\ channel' = [c \in Conn |-> IF Takes(c) THEN Append(channel[c], Head(queue))
                                  ELSE channel[c]]
    /\ due' = IF Takes(conn) THEN due \cup {Head(queue).id} ELSE due
    /\ UNCHANGED <<publishers, alive, clients, closed, handler, late, cancelled,
                   wire, valid, page>>

(* Register: the goroutine takes the client; its handler goes on and       *)
(* writes the event "init", unless it is too late for that.                *)
Register(c) ==
    /\ alive
    /\ handler[c] = "registering"
    /\ clients' = clients \cup {c}
    /\ handler' = [handler EXCEPT ![c] = "streaming"]
    /\ wire' = IF late[c] \/ cancelled[c] THEN wire ELSE [wire EXCEPT ![c] = Append(@, InitEvent)]
    /\ cancelled' = [cancelled EXCEPT ![c] = @ \/ late[c]]
    /\ UNCHANGED <<publishers, queue, alive, channel, closed, late, valid, page, due>>

(* Mutant: the client is not removed from the map.                         *)
UnregisterKeeps(c) ==
    /\ alive
    /\ handler[c] = "leaving"
    /\ closed' = [closed EXCEPT ![c] = @ \/ c \in clients]
    /\ handler' = [handler EXCEPT ![c] = "gone"]
    /\ UNCHANGED <<publishers, queue, alive, clients, channel, late, cancelled,
                   wire, valid, page, due>>

(* Unregister, the deferred end of the handler.                            *)
Unregister(c) ==
    /\ alive
    /\ handler[c] = "leaving"
    /\ closed' = [closed EXCEPT ![c] = @ \/ c \in clients]
    /\ clients' = clients \ {c}
    /\ handler' = [handler EXCEPT ![c] = "gone"]
    /\ UNCHANGED <<publishers, queue, alive, channel, late, cancelled, wire, valid,
                   page, due>>

(* The context of the process is done.                                     *)
Stop ==
    /\ alive
    /\ alive' = FALSE
    /\ closed' = [c \in Conn |-> closed[c] \/ c \in clients]
    /\ clients' = {}
    /\ UNCHANGED <<publishers, queue, channel, handler, late, cancelled, wire, valid,
                   page, due>>
-----------------------------------------------------------------------------
(***************************************************************************)
(* handleActivityStream.                                                   *)
(***************************************************************************)
Goto(c, stage) == handler' = [handler EXCEPT ![c] = stage]

(* It writes the next event.  After the deadline, and when the page has    *)
(* left, the event is lost, which Flush does not tell; the context is      *)
(* cancelled, and the handler goes on or sees the error of the next Write. *)
Forward(c) ==
    /\ handler[c] = "streaming"
    /\ channel[c] # <<>>
    /\ channel' = [channel EXCEPT ![c] = Tail(@)]
    /\ \/ /\ ~late[c] /\ ~cancelled[c]
          /\ wire' = [wire EXCEPT ![c] = Append(@, Head(channel[c]))]
          /\ UNCHANGED <<handler, cancelled>>
       \/ /\ late[c] \/ cancelled[c]
          /\ cancelled' = [cancelled EXCEPT ![c] = TRUE]
          /\ UNCHANGED handler \/ Goto(c, "leaving")
          /\ UNCHANGED wire
    /\ UNCHANGED <<publishers, queue, alive, clients, closed, late, valid, page, due>>

(* Mutant: the handler does not look at its context.                       *)
LeavesClosed(c) ==
    /\ handler[c] = "streaming"
    /\ channel[c] = <<>> /\ closed[c]
    /\ Goto(c, "leaving")
    /\ UNCHANGED <<publishers, queue, alive, clients, channel, closed, late,
                   cancelled, wire, valid, page, due>>

(* It ends when its context is done, or its channel closed.                *)
Leaves(c) ==
    /\ handler[c] = "streaming"
    /\ cancelled[c] \/ (channel[c] = <<>> /\ closed[c])
    /\ Goto(c, "leaving")
    /\ UNCHANGED <<publishers, queue, alive, clients, channel, closed, late,
                   cancelled, wire, valid, page, due>>

(* WriteTimeout: 10 seconds after the request, unless it has been given up *)
(* before.                                                                 *)
Deadline(c) ==
    /\ handler[c] \in {"registering", "streaming"} /\ ~late[c] /\ ~cancelled[c]
    /\ late' = [late EXCEPT ![c] = TRUE]
    /\ UNCHANGED <<publishers, queue, alive, clients, channel, closed, handler,
                   cancelled, wire, valid, page, due>>

(* The token expires.                                                      *)
Expire ==
    /\ valid
    /\ valid' = FALSE
    /\ UNCHANGED <<publishers, queue, alive, clients, channel, closed, handler, late,
                   cancelled, wire, page, due>>
-----------------------------------------------------------------------------
(***************************************************************************)
(* The page and its EventSource.                                           *)
(***************************************************************************)
(* The page is opened, and says that it is connected.                      *)
Open ==
    /\ source = "off"
    /\ source' = "connecting"
    /\ isConnected' = TRUE
    /\ UNCHANGED <<publishers, queue, alive, clients, channel, closed, handler, late,
                   cancelled, wire, valid, conn, events, due>>

(* A request with the token of the URL.  An answer other than 200 ends the *)
(* EventSource for ever.                                                   *)
Connect(c) ==
    /\ source = "connecting"
    /\ handler[c] = "free"
    /\ \/ /\ valid
          /\ source' = "open" /\ conn' = c
          /\ Goto(c, "registering")
          /\ UNCHANGED isConnected
       \/ /\ ~valid
          /\ source' = "failed" /\ isConnected' = FALSE
          /\ UNCHANGED <<conn, handler>>
    /\ UNCHANGED <<publishers, queue, alive, clients, channel, closed, late,
                   cancelled, wire, valid, events, due>>

(* The place of connection c is free again.                                *)
Release(c) ==
    /\ Goto(c, "free")
    /\ channel' = [channel EXCEPT ![c] = <<>>]
    /\ closed' = [closed EXCEPT ![c] = FALSE]
    /\ late' = [late EXCEPT ![c] = FALSE]
    /\ cancelled' = [cancelled EXCEPT ![c] = FALSE]

(* Mutant: the list keeps one event too many.                              *)
LatestTooMany(s) == IF Len(s) <= Window THEN s ELSE Tail(s)

(* What setEvents keeps to make room for one more.                         *)
Latest(s) == IF Len(s) < Window THEN s ELSE Tail(s)

(* Mutant: events are shown only while the page says it is connected.      *)
ReceiveConnected ==
    /\ source = "open" /\ wire[conn] # <<>>
    /\ wire' = [wire EXCEPT ![conn] = Tail(@)]
    /\ IF isConnected
       THEN /\ events' = Append(Latest(events), Head(wire[conn]))
            /\ due' = due \ {Head(wire[conn]).id}
       ELSE UNCHANGED <<events, due>>
    /\ UNCHANGED <<publishers, queue, alive, clients, channel, closed, handler, late,
                   cancelled, valid, source, conn, isConnected>>

(* onmessage: the event joins the latest ones.                             *)
Receive ==
    /\ source = "open" /\ wire[conn] # <<>>
    /\ wire' = [wire EXCEPT ![conn] = Tail(@)]
    /\ events' = Append(Latest(events), Head(wire[conn]))
    /\ due' = due \ {Head(wire[conn]).id}
    /\ UNCHANGED <<publishers, queue, alive, clients, channel, closed, handler, late,
                   cancelled, valid, source, conn, isConnected>>

(* The connection has ended: onerror, and the EventSource tries again.     *)
Ended ==
    /\ source = "open" /\ wire[conn] = <<>> /\ handler[conn] = "gone"
    /\ source' = "connecting" /\ conn' = NoConn
    /\ isConnected' = FALSE
    /\ Release(conn)
    /\ due' = {}
    /\ UNCHANGED <<publishers, queue, alive, clients, wire, valid, events>>

(* The page is left: its EventSource is closed, and with it the connection *)
(* it has.                                                                 *)
Close ==
    /\ source # "off"
    /\ source' = "off" /\ conn' = NoConn
    /\ isConnected' = FALSE
    /\ events' = <<>>
    /\ due' = {}
    /\ IF source = "open"
       THEN /\ cancelled' = [cancelled EXCEPT ![conn] = TRUE]
            /\ wire' = [wire EXCEPT ![conn] = <<>>]
       ELSE UNCHANGED <<cancelled, wire>>
    /\ UNCHANGED <<publishers, queue, alive, clients, channel, closed, handler, late,
                   valid>>

(* The end of a connection nobody reads.                                   *)
Free(c) ==
    /\ handler[c] = "gone" /\ c # conn
    /\ Release(c)
    /\ UNCHANGED <<publishers, queue, alive, clients, wire, valid, page, due>>

Next ==
    \/ \E p \in Publisher : BroadcastDHCPEvent(p) \/ Broadcast(p)
    \/ Relay \/ Stop \/ Expire
    \/ \E c \in Conn : \/ Register(c) \/ Unregister(c) \/ Forward(c) \/ Leaves(c)
                       \/ Deadline(c) \/ Connect(c) \/ Free(c)
    \/ Open \/ Receive \/ Ended \/ Close

Spec == Init /\ [][Next]_vars

(* select chooses among what is ready at random, so that nothing that      *)
(* stays ready waits for ever; the browser delivers what it has received   *)
(* and connects again.                                                     *)
FairSpec ==
    /\ Spec
    /\ WF_vars(Relay) /\ WF_vars(Receive) /\ WF_vars(Ended)
    /\ \A p \in Publisher : WF_vars(Broadcast(p))
    /\ \A c \in Conn : /\ WF_vars(Register(c)) /\ WF_vars(Unregister(c))
                       /\ WF_vars(Forward(c)) /\ WF_vars(Leaves(c))
                       /\ WF_vars(Free(c))
    /\ WF_vars(\E c \in Conn : Connect(c))
-----------------------------------------------------------------------------
(***************************************************************************)
(* Properties.                                                             *)
(***************************************************************************)
(* b comes after a: two events have two numbers, and those of one          *)
(* publisher are in the order of their numbers.                            *)
Later(a, b) == Nobody \notin {a.by, b.by} =>
                 a.id # b.id /\ (a.by = b.by => a.id < b.id)
Ordered(s) == \A i, j \in DOMAIN s : i < j => Later(s[i], s[j])
Before(s, u) == \A a \in Range(s), b \in Range(u) : Later(a, b)

(* On a page the events of one publisher are in the order in which it      *)
(* published them, and none is there twice, over reconnections too: two    *)
(* handlers that number their events under the mutex and queue them later  *)
(* may be out of order with each other, never with themselves              *)
(* (events/broadcaster.go:143-173, pages/Activity.tsx:44-47).              *)
EventsInOrder == Ordered(events)

(* The list of the page is the feed that ActivityFeed describes, whatever  *)
(* is dropped, lost or out of order among the handlers on the way, and     *)
(* however often the stream is lost and resumed                            *)
(* (events/broadcaster.go:79-173, pages/Activity.tsx:40-58).               *)
F == INSTANCE ActivityFeed WITH numbered <- counter, list <- events

Implements == F!Spec

(* e has its number, and a draft will come after it.                       *)
Out(e) == IF e.by = Nobody THEN e = InitEvent
          ELSE /\ e.id \in 1 .. counter
               /\ \A p \in Publisher :
                    /\ draft[p] # e.id
                    /\ p = e.by => draft[p] = 0 \/ e.id < draft[p]
NotAhead(s) == \A e \in Range(s) : Out(e)

(* The stages an event of a connection passes, each behind the next.       *)
Line(c) ==
    /\ Ordered(channel[c]) /\ NotAhead(channel[c]) /\ Before(channel[c], queue)
    /\ Ordered(wire[c]) /\ NotAhead(wire[c]) /\ Before(wire[c], queue)
    /\ Before(wire[c], channel[c])
    /\ c = conn => Before(events, wire[c]) /\ Before(events, channel[c])

InLine ==
    /\ \A p, q \in Publisher :
         draft[p] <= counter /\ (p # q /\ draft[p] # 0 => draft[p] # draft[q])
    /\ Ordered(queue) /\ NotAhead(queue) /\ \A e \in Range(queue) : e.by # Nobody
    /\ Ordered(events) /\ NotAhead(events) /\ Before(events, queue)
    /\ \A c \in Conn : Line(c)

(* No event is sent to a closed channel, and none is closed twice: what    *)
(* would be a panic of the server.  Only a handler that has registered and *)
(* not yet unregistered has its client in the map.                         *)
ChannelsSafe ==
    \A c \in clients : ~closed[c] /\ handler[c] \in {"streaming", "leaving"}

(* What the client of the page's connection has been given and is not on   *)
(* its way any more has reached the page, as long as the connection is not *)
(* past its WriteTimeout: gaps are only the events that were dropped at a  *)
(* full queue or channel.                                                  *)
Ids(s) == {e.id : e \in Range(s)}
NothingLost ==
    source = "open" /\ ~late[conn] =>
      due = (Ids(wire[conn]) \cup Ids(channel[conn])) \ {0}

(* What becomes of a connection: it is clean before it is used, only the   *)
(* page's has anything to be received, the others are given up, and the    *)
(* page's is given up only after its deadline.                             *)
Connections ==
    /\ conn = NoConn => due = {}
    /\ \A c \in Conn :
         /\ closed[c] => handler[c] # "registering"
         /\ handler[c] = "free" => /\ c # conn /\ channel[c] = <<>>
                                   /\ ~closed[c] /\ ~late[c] /\ ~cancelled[c]
         /\ c # conn => wire[c] = <<>> /\ (handler[c] = "free" \/ cancelled[c])
         /\ c = conn /\ cancelled[c] => late[c]

(* The inductive invariant.                                                *)
IInv ==
    /\ TypeOK
    /\ InLine
    /\ ChannelsSafe
    /\ Connections
    /\ NothingLost

(* The server gets rid of the handler of a page that has been left, also   *)
(* of one that waits for its registration: connections do not pile up.     *)
HandlersLeave == \A c \in Conn : []<>~(alive /\ cancelled[c])

(* An event that the client of a connection has been given arrives, or     *)
(* that connection ends.                                                   *)
EventsArrive ==
    \A c \in Conn, i \in 1 .. MaxEvents :
      []<>~(conn = c /\ i \in due /\ ~late[c])
=============================================================================
