------------------------ MODULE ActivityStreamProofs ------------------------
(***************************************************************************)
(* Proofs about ActivityStream: its inductive invariant, hence the order   *)
(* of a page's events, that no channel is used after its end, and that     *)
(* nothing a client has been given is lost before the write timeout.       *)
(***************************************************************************)
EXTENDS ActivityStream, TLAPS

-----------------------------------------------------------------------------
(***************************************************************************)
(* Sequences of events.                                                    *)
(***************************************************************************)
LEMMA Empty ==
    /\ <<>> \in Seq(Event) /\ Len(<<>>) = 0
    /\ Range(<<>>) = {}
    /\ Ordered(<<>>)
BY DEF Range, Ordered

(* The elements of a sequence are its head and those of its tail.          *)
LEMMA Tails ==
    ASSUME NEW s \in Seq(Event), s # <<>>
    PROVE  /\ Head(s) \in Event /\ Tail(s) \in Seq(Event)
           /\ Len(Tail(s)) = Len(s) - 1
           /\ Range(s) = {Head(s)} \cup Range(Tail(s))
           /\ Ordered(s) => /\ Ordered(Tail(s))
                            /\ \A b \in Range(Tail(s)) : Later(Head(s), b)
<1> DEFINE n == Len(s)
<1>1. n \in Nat /\ n >= 1 /\ DOMAIN s = 1 .. n
  OBVIOUS
<1>2. /\ Head(s) = s[1] /\ Head(s) \in Event /\ Tail(s) \in Seq(Event)
      /\ Len(Tail(s)) = n - 1
  BY <1>1
<1>3. DOMAIN Tail(s) = 1 .. (n - 1)
  BY <1>1, <1>2
<1>4. \A i \in 1 .. (n - 1) : Tail(s)[i] = s[i + 1] /\ i + 1 \in 1 .. n
  BY <1>1
<1>5. \A i \in 1 .. n : i = 1 \/ (i - 1 \in 1 .. (n - 1) /\ Tail(s)[i - 1] = s[i])
  BY <1>1, <1>4
<1> HIDE DEF n
<1>6. Range(s) = {Head(s)} \cup Range(Tail(s))
  <2>1. \A x : x \in Range(s) <=> \E i \in 1 .. n : x = s[i]
    BY <1>1 DEF Range
  <2>2. \A x : x \in Range(Tail(s)) <=> \E i \in 1 .. (n - 1) : x = Tail(s)[i]
    BY <1>3 DEF Range
  <2>3. ASSUME NEW x \in Range(s) PROVE x \in {Head(s)} \cup Range(Tail(s))
    BY <2>1, <2>2, <1>5, <1>2
  <2>4. ASSUME NEW x \in Range(Tail(s)) PROVE x \in Range(s)
    BY <2>1, <2>2, <1>4
  <2>5. Head(s) \in Range(s)
    BY <2>1, <1>1, <1>2
  <2> QED
    BY <2>3, <2>4, <2>5
<1>7. ASSUME Ordered(s)
      PROVE  Ordered(Tail(s)) /\ \A b \in Range(Tail(s)) : Later(Head(s), b)
  <2>1. ASSUME NEW i \in 1 .. (n - 1), NEW j \in 1 .. (n - 1), i < j
        PROVE  Later(Tail(s)[i], Tail(s)[j])
    BY <2>1, <1>1, <1>4, <1>7 DEF Ordered
  <2>2. ASSUME NEW j \in 1 .. (n - 1) PROVE Later(Head(s), Tail(s)[j])
    <3>1. 1 \in 1 .. n /\ j + 1 \in 1 .. n /\ 1 < j + 1
      BY <1>1
    <3> QED
      BY <3>1, <1>1, <1>2, <1>4, <1>7 DEF Ordered
  <2> QED
    BY <2>1, <2>2, <1>3 DEF Ordered, Range
<1> QED
  BY <1>2, <1>6, <1>7 DEF n

LEMMA Appends ==
    ASSUME NEW s \in Seq(Event), NEW e \in Event
    PROVE  /\ Append(s, e) \in Seq(Event)
           /\ Append(s, e) # <<>>
           /\ Len(Append(s, e)) = Len(s) + 1
           /\ Range(Append(s, e)) = Range(s) \cup {e}
           /\ Ordered(s) /\ (\A a \in Range(s) : Later(a, e)) => Ordered(Append(s, e))
<1> DEFINE n == Len(s)
           u == Append(s, e)
<1>1. n \in Nat /\ DOMAIN s = 1 .. n
  OBVIOUS
<1>2. u \in Seq(Event) /\ u # <<>> /\ Len(u) = n + 1 /\ DOMAIN u = 1 .. (n + 1)
  OBVIOUS
<1>3. (\A i \in 1 .. n : u[i] = s[i]) /\ u[n + 1] = e
  OBVIOUS
<1> HIDE DEF n, u
<1>4. \A i \in 1 .. (n + 1) : i \in 1 .. n \/ i = n + 1
  BY <1>1
<1>5. 1 .. n \subseteq 1 .. (n + 1) /\ n + 1 \in 1 .. (n + 1)
  BY <1>1
<1>6. Range(u) = Range(s) \cup {e}
  BY <1>1, <1>2, <1>3, <1>4, <1>5 DEF Range
<1>7. ASSUME Ordered(s), \A a \in Range(s) : Later(a, e)
      PROVE  Ordered(u)
  <2> SUFFICES ASSUME NEW i \in 1 .. (n + 1), NEW j \in 1 .. (n + 1), i < j
               PROVE  Later(u[i], u[j])
    BY <1>2 DEF Ordered
  <2>1. i \in 1 .. n
    BY <1>1
  <2>2. CASE j \in 1 .. n
    BY <2>1, <2>2, <1>1, <1>3, <1>7 DEF Ordered
  <2>3. CASE j = n + 1
    BY <2>1, <2>3, <1>1, <1>3, <1>7 DEF Range
  <2> QED
    BY <2>2, <2>3, <1>4
<1> QED
  BY <1>2, <1>6, <1>7 DEF n, u

LEMMA LatestEvents ==
    ASSUME StreamAssumption, NEW s \in Seq(Event), Len(s) <= Window
    PROVE  /\ Latest(s) \in Seq(Event)
           /\ Len(Latest(s)) < Window
           /\ Range(Latest(s)) \subseteq Range(s)
           /\ Ordered(s) => Ordered(Latest(s))
<1>1. Window \in Nat /\ Window >= 1
  BY DEF StreamAssumption
<1>2. CASE Len(s) < Window
  BY <1>2 DEF Latest
<1>3. CASE ~(Len(s) < Window)
  <2>1. s # <<>> /\ Latest(s) = Tail(s) /\ Len(s) = Window
    BY <1>1, <1>3 DEF Latest
  <2> QED
    BY <2>1, <1>1, Tails
<1> QED
  BY <1>2, <1>3

LEMMA InitEventOut ==
    ASSUME StreamAssumption
    PROVE  /\ InitEvent \in Event
           /\ Out(InitEvent) /\ InitEvent.id = 0
           /\ \A e : Later(e, InitEvent) /\ Later(InitEvent, e)
BY DEF StreamAssumption, InitEvent, Event, Id, Out, Later

-----------------------------------------------------------------------------
(***************************************************************************)
(* The initial state, and one lemma per action.                            *)
(***************************************************************************)
LEMMA Initial ==
    ASSUME StreamAssumption, Init
    PROVE  IInv
<1>1. TypeOK
  <2>1. 0 \in Id /\ QueueCap \in Nat /\ ClientCap \in Nat /\ Window \in Nat
    BY DEF StreamAssumption, Id
  <2>2. /\ draft \in [Publisher -> Id] /\ counter \in Id
        /\ channel \in [Conn -> Seq(Event)] /\ wire \in [Conn -> Seq(Event)]
        /\ \A c \in Conn : Len(channel[c]) <= ClientCap
    BY <2>1, Empty DEF Init
  <2>3. /\ queue \in Seq(Event) /\ Len(queue) <= QueueCap
        /\ events \in Seq(Event) /\ Len(events) <= Window
    BY <2>1, Empty DEF Init
  <2>4. /\ closed \in [Conn -> BOOLEAN] /\ late \in [Conn -> BOOLEAN]
        /\ cancelled \in [Conn -> BOOLEAN]
        /\ handler \in [Conn -> {"free", "registering", "streaming", "leaving", "gone"}]
    BY DEF Init
  <2> QED
    BY <2>1, <2>2, <2>3, <2>4 DEF Init, TypeOK
<1>2. NotAhead(<<>>) /\ Before(<<>>, <<>>)
  BY Empty DEF NotAhead, Before
<1>3. InLine
  <2>1. \A c \in Conn : Line(c)
    BY <1>2, Empty DEF Init, Line
  <2>2. \A p, q \in Publisher :
          draft[p] <= counter /\ (p # q /\ draft[p] # 0 => draft[p] # draft[q])
    BY DEF Init
  <2> QED
    BY <1>2, <2>1, <2>2, Empty DEF Init, InLine
<1>4. ChannelsSafe /\ Connections /\ NothingLost
  BY DEF Init, ChannelsSafe, Connections, NothingLost, StreamAssumption
<1> QED
  BY <1>1, <1>3, <1>4 DEF IInv

(* What a connection's variables hold.                                     *)
LEMMA Typed ==
    ASSUME TypeOK
    PROVE  /\ counter \in Nat /\ draft \in [Publisher -> Nat]
           /\ queue \in Seq(Event) /\ events \in Seq(Event) /\ Len(events) <= Window
           /\ \A c \in Conn : channel[c] \in Seq(Event) /\ wire[c] \in Seq(Event)
BY DEF TypeOK, Id


(* A draft that is numbered comes after whatever is out.                   *)
LEMMA Numbered ==
    ASSUME StreamAssumption, IInv, NEW p \in Publisher, BroadcastDHCPEvent(p)
    PROVE  IInv'
<1> USE DEF BroadcastDHCPEvent
<1>1. TypeOK /\ InLine
  BY DEF IInv
<1>2. counter \in Nat /\ counter' = counter + 1 /\ counter' \in Id
  BY <1>1, Typed DEF TypeOK, Id, StreamAssumption
<1>3. draft' = [draft EXCEPT ![p] = counter + 1] /\ draft' \in [Publisher -> Id]
  BY <1>1, <1>2 DEF TypeOK
<1>4. TypeOK'
  BY <1>1, <1>2, <1>3 DEF TypeOK, page
<1>5. ASSUME NEW e \in Event, Out(e) PROVE Out(e)'
  <2>1. CASE e.by = Nobody
    BY <2>1, <1>5 DEF Out
  <2>2. CASE e.by # Nobody
    <3>1. e.id \in 1 .. counter /\ e.id \in 1 .. counter'
      BY <2>2, <1>2, <1>5 DEF Out
    <3>2. ASSUME NEW q \in Publisher
          PROVE  draft'[q] # e.id /\ (q = e.by => draft'[q] = 0 \/ e.id < draft'[q])
      <4>1. CASE q = p
        BY <4>1, <3>1, <1>1, <1>2, <1>3, Typed
      <4>2. CASE q # p
        BY <4>2, <2>2, <1>1, <1>3, <1>5, Typed DEF Out
      <4> QED
        BY <4>1, <4>2
    <3> QED
      BY <2>2, <3>1, <3>2 DEF Out
  <2> QED
    BY <2>1, <2>2
<1>6. ASSUME NEW s \in Seq(Event), NotAhead(s) PROVE NotAhead(s)'
  BY <1>5, <1>6 DEF NotAhead, Range
<1>7. \A q, r \in Publisher :
        draft'[q] <= counter' /\ (q # r /\ draft'[q] # 0 => draft'[q] # draft'[r])
  BY <1>1, <1>2, <1>3, Typed DEF InLine
<1>8. \A c \in Conn : Line(c)'
  BY <1>1, <1>6, Typed DEF InLine, Line, page
<1>9. InLine'
  BY <1>1, <1>6, <1>7, <1>8, Typed DEF InLine, page
<1>10. ChannelsSafe' /\ Connections' /\ NothingLost'
  BY DEF IInv, ChannelsSafe, Connections, NothingLost, page
<1> QED
  BY <1>4, <1>9, <1>10 DEF IInv


(* What keeps the numbers keeps what is out.                               *)
LEMMA OutSame ==
    ASSUME counter' = counter, draft' = draft
    PROVE  /\ \A e : Out(e)' <=> Out(e)
           /\ \A s : NotAhead(s)' <=> NotAhead(s)
BY DEF Out, NotAhead

LEMMA Queued ==
    ASSUME StreamAssumption, IInv, NEW p \in Publisher, Broadcast(p)
    PROVE  IInv'
<1>1. TypeOK /\ InLine
  BY DEF IInv
<1>2. /\ draft[p] \in Id /\ draft[p] # 0 /\ draft[p] \in 1 .. counter
      /\ draft' = [draft EXCEPT ![p] = 0] /\ draft' \in [Publisher -> Id]
      /\ counter' = counter /\ counter \in Nat
  BY <1>1, Typed DEF Broadcast, TypeOK, Id, StreamAssumption, InLine
<1> PICK e \in Event : e = [id |-> draft[p], by |-> p]
  BY <1>2 DEF Event
<1>3. e.id = draft[p] /\ e.by = p /\ p # Nobody
  BY DEF StreamAssumption
<1>4. queue \in Seq(Event) /\ (queue' = Append(queue, e) \/ queue' = queue)
  BY <1>1, Typed DEF Broadcast
<1>5. TypeOK'
  <2>1. queue' \in Seq(Event) /\ Len(queue') <= QueueCap
    BY <1>1, <1>3, <1>4, Appends DEF Broadcast, TypeOK, StreamAssumption
  <2> QED
    BY <1>1, <1>2, <2>1 DEF Broadcast, TypeOK, page
<1>6. ASSUME NEW x \in Event, Out(x) PROVE Later(x, e) /\ Out(x)'
  <2>1. Later(x, e)
    BY <1>2, <1>3, <1>6 DEF Out, Later
  <2>2. Out(x)'
    BY <1>1, <1>2, <1>6, Typed DEF Out
  <2> QED
    BY <2>1, <2>2
<1>7. ASSUME NEW s \in Seq(Event), NotAhead(s)
      PROVE  NotAhead(s)' /\ \A x \in Range(s) : Later(x, e)
  BY <1>6, <1>7 DEF NotAhead, Range
<1>8. Out(e)'
  BY <1>1, <1>2, <1>3, Typed DEF Out, InLine
<1>9. /\ Ordered(queue') /\ NotAhead(queue)' /\ \A x \in Range(queue') : x.by # Nobody
      /\ \A s \in Seq(Event) : NotAhead(s) /\ Before(s, queue) => Before(s, queue')
  <2>1. CASE queue' = queue
    BY <2>1, <1>1, <1>4, <1>7 DEF InLine, NotAhead
  <2>2. CASE queue' = Append(queue, e)
    <3>1. Range(queue') = Range(queue) \cup {e}
      BY <2>2, <1>3, <1>4, Appends
    <3>2. Ordered(queue')
      BY <2>2, <1>1, <1>3, <1>4, <1>7, Appends DEF InLine
    <3>3. NotAhead(queue)'
      BY <3>1, <1>1, <1>4, <1>7, <1>8 DEF InLine, NotAhead
    <3>4. \A x \in Range(queue') : x.by # Nobody
      BY <3>1, <1>1, <1>3 DEF InLine
    <3>5. ASSUME NEW s \in Seq(Event), NotAhead(s), Before(s, queue)
          PROVE  Before(s, queue')
      BY <3>1, <3>5, <1>7 DEF Before
    <3> QED
      BY <3>2, <3>3, <3>4, <3>5
  <2> QED
    BY <2>1, <2>2, <1>4
<1>10. \A q, r \in Publisher :
         draft'[q] <= counter' /\ (q # r /\ draft'[q] # 0 => draft'[q] # draft'[r])
  BY <1>1, <1>2, Typed DEF InLine
<1>11. ASSUME NEW c \in Conn PROVE Line(c)'
  BY <1>1, <1>7, <1>9, Typed DEF Broadcast, InLine, Line, page
<1>12. InLine'
  BY <1>1, <1>7, <1>9, <1>10, <1>11, Typed DEF Broadcast, InLine, page
<1>13. ChannelsSafe' /\ Connections' /\ NothingLost'
  BY DEF Broadcast, IInv, ChannelsSafe, Connections, NothingLost, page
<1> QED
  BY <1>5, <1>12, <1>13 DEF IInv


LEMMA Relayed ==
    ASSUME StreamAssumption, IInv, Relay
    PROVE  IInv'
<1>1. TypeOK /\ InLine /\ ChannelsSafe
  BY DEF IInv
<1>2. queue \in Seq(Event) /\ queue # <<>> /\ \A c \in Conn : channel[c] \in Seq(Event)
  BY <1>1, Typed DEF Relay
<1> PICK h \in Event : h = Head(queue)
  BY <1>2, Tails
<1>3. /\ queue' = Tail(queue) /\ queue' \in Seq(Event) /\ Len(queue') <= QueueCap
      /\ Range(queue) = {h} \cup Range(queue')
      /\ Ordered(queue') /\ \A b \in Range(queue') : Later(h, b)
      /\ Out(h) /\ h.by # Nobody
  <2>1. Len(queue') <= QueueCap
    BY <1>1, <1>2, Tails DEF Relay, TypeOK, StreamAssumption
  <2> QED
    BY <2>1, <1>1, <1>2, Tails DEF Relay, InLine, NotAhead
<1>4. counter' = counter /\ draft' = draft /\ events' = events /\ wire' = wire /\ conn' = conn
  BY DEF Relay, publishers, page
<1>5. ASSUME NEW c \in Conn
      PROVE  /\ channel'[c] \in Seq(Event) /\ Len(channel'[c]) <= ClientCap
             /\ Takes(c) => channel'[c] = Append(channel[c], h)
             /\ ~Takes(c) => channel'[c] = channel[c]
  <2>1. channel'[c] = IF Takes(c) THEN Append(channel[c], h) ELSE channel[c]
    BY DEF Relay
  <2>2. Len(channel[c]) \in Nat /\ ClientCap \in Nat /\ Len(channel[c]) <= ClientCap
    BY <1>1, <1>2 DEF TypeOK, StreamAssumption
  <2>3. CASE Takes(c)
    BY <2>1, <2>2, <2>3, <1>2, Appends DEF Takes
  <2>4. CASE ~Takes(c)
    BY <2>1, <2>2, <2>4, <1>2
  <2> QED
    BY <2>1, <2>3, <2>4
<1>6. TypeOK'
  <2>1. channel' \in [Conn -> Seq(Event)] /\ \A c \in Conn : Len(channel'[c]) <= ClientCap
    BY <1>5 DEF Relay
  <2>2. due' \subseteq Id
    BY <1>1 DEF Relay, TypeOK, Event
  <2> QED
    BY <1>1, <1>3, <2>1, <2>2 DEF Relay, TypeOK, publishers, page
<1>7. ASSUME NEW s, Before(s, queue)
      PROVE  Before(s, queue') /\ \A a \in Range(s) : Later(a, h)
  BY <1>3, <1>7 DEF Before
<1>8. ASSUME NEW c \in Conn PROVE Line(c)'
  <2>1. Line(c) /\ channel[c] \in Seq(Event)
    BY <1>1, <1>2 DEF InLine
  <2>2. CASE ~Takes(c)
    BY <2>1, <2>2, <1>4, <1>5, <1>7, OutSame DEF Line
  <2>3. CASE Takes(c)
    <3>1. channel'[c] = Append(channel[c], h)
      BY <2>3, <1>5
    <3>2. Ordered(channel'[c])
      BY <2>1, <3>1, <1>7, Appends DEF Line
    <3>3. Range(channel'[c]) = Range(channel[c]) \cup {h}
      BY <2>1, <3>1, Appends
    <3>4. NotAhead(channel[c])' /\ Before(channel'[c], queue')
      BY <2>1, <3>3, <1>3, <1>4, <1>7, OutSame DEF Line, NotAhead, Before
    <3>5. Before(wire[c], channel'[c]) /\ (c = conn => Before(events, channel'[c]))
      BY <2>1, <3>3, <1>1, <1>7 DEF Line, InLine, Before
    <3> QED
      BY <2>1, <3>2, <3>4, <3>5, <1>4, <1>7, OutSame DEF Line
  <2> QED
    BY <2>2, <2>3
<1>9. InLine'
  <2>1. NotAhead(queue)'
    BY <1>1, <1>3, <1>4, OutSame DEF InLine, NotAhead
  <2> QED
    BY <2>1, <1>1, <1>3, <1>4, <1>7, <1>8, OutSame DEF InLine
<1>10. NothingLost'
  <2> SUFFICES ASSUME source = "open", ~late[conn]
               PROVE  due' = (Ids(wire[conn]) \cup Ids(channel'[conn])) \ {0}
    BY <1>4 DEF Relay, NothingLost, page
  <2>1. conn \in Conn /\ due = (Ids(wire[conn]) \cup Ids(channel[conn])) \ {0}
    BY <1>1 DEF TypeOK, IInv, NothingLost
  <2>2. CASE Takes(conn)
    <3>1. Range(channel'[conn]) = Range(channel[conn]) \cup {h}
      BY <2>1, <2>2, <1>2, <1>5, Appends
    <3>2. h.id # 0 /\ due' = due \cup {h.id}
      BY <2>2, <1>1, <1>3, Typed DEF Relay, Out
    <3> QED
      BY <2>1, <3>1, <3>2 DEF Ids
  <2>3. CASE ~Takes(conn)
    BY <2>1, <2>3, <1>5 DEF Relay, Ids
  <2> QED
    BY <2>2, <2>3
<1>11. ChannelsSafe' /\ Connections'
  <2>1. conn = NoConn => due' = {}
    BY <1>1 DEF Relay, Takes, IInv, Connections, TypeOK, StreamAssumption
  <2>2. \A c \in Conn : handler[c] = "free" => channel'[c] = <<>>
    BY <1>1, <1>5 DEF Takes, IInv, Connections, ChannelsSafe
  <2> QED
    BY <2>1, <2>2, <1>1, <1>4 DEF Relay, IInv, ChannelsSafe, Connections, page
<1> QED
  BY <1>6, <1>9, <1>10, <1>11 DEF IInv

(* A step of a handler that leaves what is on its way alone.               *)
LEMMA InLineSame ==
    ASSUME InLine,
           UNCHANGED <<counter, draft, queue, events, channel, wire, conn>>
    PROVE  InLine'
<1>1. \A c \in Conn : Line(c)'
  BY OutSame DEF InLine, Line
<1> QED
  BY <1>1, OutSame DEF InLine

LEMMA Unregistered ==
    ASSUME StreamAssumption, IInv, NEW c \in Conn, Unregister(c)
    PROVE  IInv'
<1>1. TypeOK /\ InLine /\ ChannelsSafe /\ Connections /\ NothingLost
  BY DEF IInv
<1>2. TypeOK'
  BY <1>1 DEF Unregister, TypeOK, publishers, page
<1>3. InLine'
  BY <1>1, InLineSame DEF Unregister, publishers, page
<1>4. ChannelsSafe' /\ Connections' /\ NothingLost'
  BY <1>1 DEF Unregister, TypeOK, ChannelsSafe, Connections, NothingLost, page
<1> QED
  BY <1>2, <1>3, <1>4 DEF IInv

LEMMA Stopped ==
    ASSUME StreamAssumption, IInv, Stop
    PROVE  IInv'
<1>1. TypeOK /\ InLine /\ ChannelsSafe /\ Connections /\ NothingLost
  BY DEF IInv
<1>2. TypeOK'
  BY <1>1 DEF Stop, TypeOK, publishers, page
<1>3. InLine'
  BY <1>1, InLineSame DEF Stop, publishers, page
<1>4. ChannelsSafe' /\ Connections' /\ NothingLost'
  BY <1>1 DEF Stop, TypeOK, ChannelsSafe, Connections, NothingLost, page
<1> QED
  BY <1>2, <1>3, <1>4 DEF IInv

LEMMA Left ==
    ASSUME StreamAssumption, IInv, NEW c \in Conn, Leaves(c) \/ Deadline(c)
    PROVE  IInv'
<1> USE DEF Leaves, Deadline, Goto
<1>1. TypeOK /\ InLine /\ ChannelsSafe /\ Connections /\ NothingLost
  BY DEF IInv
<1>2. TypeOK'
  BY <1>1 DEF TypeOK, publishers, page
<1>3. InLine'
  BY <1>1, InLineSame DEF publishers, page
<1>4. ChannelsSafe' /\ Connections' /\ NothingLost'
  BY <1>1 DEF TypeOK, ChannelsSafe, Connections, NothingLost, page
<1> QED
  BY <1>2, <1>3, <1>4 DEF IInv

LEMMA Opened ==
    ASSUME StreamAssumption, IInv, Open \/ Expire
    PROVE  IInv'
<1> USE DEF Open, Expire
<1>1. TypeOK /\ InLine /\ ChannelsSafe /\ Connections /\ NothingLost
  BY DEF IInv
<1>2. TypeOK'
  BY <1>1 DEF TypeOK, publishers, page
<1>3. InLine'
  BY <1>1, InLineSame DEF publishers, page
<1>4. ChannelsSafe' /\ Connections' /\ NothingLost'
  BY <1>1 DEF TypeOK, ChannelsSafe, Connections, NothingLost, page
<1> QED
  BY <1>2, <1>3, <1>4 DEF IInv


LEMMA Registered ==
    ASSUME StreamAssumption, IInv, NEW c \in Conn, Register(c)
    PROVE  IInv'
<1>1. TypeOK /\ InLine /\ ChannelsSafe /\ Connections /\ NothingLost
  BY DEF IInv
<1> PICK e \in Event : e = InitEvent
  BY InitEventOut
<1>2. e.id = 0 /\ Out(e) /\ \A x : Later(x, e) /\ Later(e, x)
  BY InitEventOut
<1>3. /\ wire' = wire \/ (wire' = [wire EXCEPT ![c] = Append(@, e)] /\ ~cancelled[c])
      /\ UNCHANGED <<counter, draft, queue, events, channel, conn, due, source, late>>
  BY DEF Register, publishers, page
<1>4. ASSUME NEW d \in Conn
      PROVE  /\ wire'[d] \in Seq(Event)
             /\ wire'[d] = wire[d] \/ (wire'[d] = Append(wire[d], e) /\ d = c /\ ~cancelled[c])
  <2>1. wire[d] \in Seq(Event) /\ Append(wire[d], e) \in Seq(Event)
    BY <1>1, Typed, Appends
  <2>2. d \in DOMAIN wire
    BY <1>1 DEF TypeOK
  <2> QED
    BY <2>1, <2>2, <1>3
<1>5. TypeOK'
  <2>1. wire' \in [Conn -> Seq(Event)]
    BY <1>1, <1>3, <1>4 DEF TypeOK
  <2> QED
    BY <1>1, <1>3, <2>1 DEF Register, TypeOK, publishers, page
<1>6. ASSUME NEW d \in Conn PROVE Line(d)'
  <2>1. Line(d) /\ wire[d] \in Seq(Event)
    BY <1>1, Typed DEF InLine
  <2>2. CASE wire'[d] = wire[d]
    BY <2>1, <2>2, <1>3, OutSame DEF Line
  <2>3. CASE wire'[d] = Append(wire[d], e)
    <3>1. Range(wire'[d]) = Range(wire[d]) \cup {e} /\ Ordered(wire'[d])
      BY <2>1, <2>3, <1>2, Appends DEF Line
    <3>2. NotAhead(wire[d])'
      BY <2>1, <3>1, <1>2, <1>3, OutSame DEF Line, NotAhead
    <3> QED
      BY <2>1, <3>1, <3>2, <1>2, <1>3, OutSame DEF Line, Before
  <2> QED
    BY <2>2, <2>3, <1>4
<1>7. InLine'
  BY <1>1, <1>3, <1>6, OutSame DEF InLine
<1>8. NothingLost'
  <2> SUFFICES ASSUME source = "open", ~late[conn]
               PROVE  due = (Ids(wire'[conn]) \cup Ids(channel[conn])) \ {0}
    BY <1>3 DEF NothingLost
  <2>1. /\ conn \in Conn /\ wire[conn] \in Seq(Event)
        /\ due = (Ids(wire[conn]) \cup Ids(channel[conn])) \ {0}
    BY <1>1, Typed DEF TypeOK, NothingLost
  <2>2. CASE wire'[conn] = Append(wire[conn], e)
    <3>1. Range(wire'[conn]) = Range(wire[conn]) \cup {e}
      BY <2>1, <2>2, Appends
    <3> QED
      BY <2>1, <3>1, <1>2 DEF Ids
  <2> QED
    BY <2>1, <2>2, <1>4
<1>9. ChannelsSafe' /\ Connections'
  BY <1>1, <1>3, <1>4 DEF Register, TypeOK, ChannelsSafe, Connections
<1> QED
  BY <1>5, <1>7, <1>8, <1>9 DEF IInv

LEMMA Forwarded ==
    ASSUME StreamAssumption, IInv, NEW c \in Conn, Forward(c)
    PROVE  IInv'
<1>1. TypeOK /\ InLine /\ ChannelsSafe /\ Connections /\ NothingLost
  BY DEF IInv
<1>2. /\ channel[c] \in Seq(Event) /\ channel[c] # <<>> /\ wire[c] \in Seq(Event)
      /\ Line(c)
  BY <1>1, Typed DEF Forward, InLine
<1> PICK h \in Event : h = Head(channel[c])
  BY <1>2, Tails
<1> PICK rest \in Seq(Event) : rest = Tail(channel[c])
  BY <1>2, Tails
<1>3. /\ Range(channel[c]) = {h} \cup Range(rest)
      /\ Ordered(rest) /\ (\A b \in Range(rest) : Later(h, b))
      /\ Len(rest) <= ClientCap
  <2>1. Len(rest) <= ClientCap
    BY <1>1, <1>2, Tails DEF TypeOK, StreamAssumption
  <2> QED
    BY <2>1, <1>2, Tails DEF Line
<1>4. /\ channel' = [channel EXCEPT ![c] = rest]
      /\ \/ ~late[c] /\ ~cancelled[c] /\ wire' = [wire EXCEPT ![c] = Append(@, h)]
         \/ (late[c] \/ cancelled[c]) /\ wire' = wire
      /\ UNCHANGED <<counter, draft, queue, events, conn, due, source, late, closed, clients>>
  BY DEF Forward, publishers, page
<1>5. /\ channel'[c] = rest
      /\ \/ ~late[c] /\ ~cancelled[c] /\ wire'[c] = Append(wire[c], h)
         \/ (late[c] \/ cancelled[c]) /\ wire'[c] = wire[c]
      /\ \A d \in Conn : d # c => channel'[d] = channel[d] /\ wire'[d] = wire[d]
      /\ channel' \in [Conn -> Seq(Event)] /\ wire' \in [Conn -> Seq(Event)]
      /\ \A d \in Conn : Len(channel'[d]) <= ClientCap
  <2>1. Append(wire[c], h) \in Seq(Event)
    BY <1>2, Appends
  <2>2. /\ channel \in [Conn -> Seq(Event)] /\ wire \in [Conn -> Seq(Event)]
        /\ \A d \in Conn : Len(channel[d]) <= ClientCap
    BY <1>1 DEF TypeOK
  <2>3. /\ channel'[c] = rest /\ channel' \in [Conn -> Seq(Event)]
        /\ \A d \in Conn : d # c => channel'[d] = channel[d]
    BY <2>2, <1>4
  <2>4. CASE wire' = wire
    BY <2>2, <2>3, <2>4, <1>3, <1>4
  <2>5. CASE wire' = [wire EXCEPT ![c] = Append(@, h)]
    <3>1. /\ wire'[c] = Append(wire[c], h) /\ wire' \in [Conn -> Seq(Event)]
          /\ \A d \in Conn : d # c => wire'[d] = wire[d]
      BY <2>1, <2>2, <2>5
    <3> QED
      BY <3>1, <2>2, <2>3, <1>3, <1>4
  <2> QED
    BY <2>4, <2>5, <1>4
<1>6. TypeOK'
  BY <1>1, <1>5 DEF Forward, Goto, TypeOK, publishers, page
<1>7. Line(c)'
  <2>1. NotAhead(channel[c])' /\ Before(channel'[c], queue)
    BY <1>2, <1>3, <1>4, <1>5, OutSame DEF Line, NotAhead, Before
  <2>2. CASE wire'[c] = wire[c]
    <3>1. Before(wire[c], rest) /\ (c = conn => Before(events, rest))
      BY <1>2, <1>3 DEF Line, Before
    <3> QED
      BY <3>1, <2>1, <2>2, <1>2, <1>3, <1>4, <1>5, OutSame DEF Line
  <2>3. CASE wire'[c] = Append(wire[c], h)
    <3>1. Range(wire'[c]) = Range(wire[c]) \cup {h}
      BY <2>3, <1>2, Appends
    <3>2. Ordered(wire'[c])
      <4>1. \A a \in Range(wire[c]) : Later(a, h)
        BY <1>2, <1>3 DEF Line, Before
      <4> QED
        BY <4>1, <2>3, <1>2, Appends DEF Line
    <3>3. NotAhead(wire[c])' /\ Before(wire'[c], queue)
      BY <3>1, <1>2, <1>3, <1>4, OutSame DEF Line, NotAhead, Before
    <3>4. Before(wire'[c], rest)
      BY <3>1, <1>2, <1>3 DEF Line, Before
    <3>5. c = conn => Before(events, wire'[c]) /\ Before(events, rest)
      BY <3>1, <1>2, <1>3 DEF Line, Before
    <3> QED
      BY <3>2, <3>3, <3>4, <3>5, <2>1, <1>3, <1>4, <1>5 DEF Line
  <2> QED
    BY <2>2, <2>3, <1>5
<1>8. InLine'
  <2>1. \A d \in Conn : d # c => Line(d)'
    BY <1>1, <1>4, <1>5, OutSame DEF InLine, Line
  <2> QED
    BY <2>1, <1>1, <1>4, <1>7, OutSame DEF InLine
<1>9. NothingLost'
  <2> SUFFICES ASSUME source = "open", ~late[conn]
               PROVE  due = (Ids(wire'[conn]) \cup Ids(channel'[conn])) \ {0}
    BY <1>4 DEF NothingLost
  <2>1. /\ conn \in Conn /\ ~cancelled[conn]
        /\ due = (Ids(wire[conn]) \cup Ids(channel[conn])) \ {0}
    BY <1>1 DEF TypeOK, Connections, NothingLost
  <2>2. CASE conn = c
    <3>1. Range(wire'[c]) = Range(wire[c]) \cup {h}
      BY <2>1, <2>2, <1>2, <1>5, Appends
    <3> QED
      BY <3>1, <2>1, <2>2, <1>3, <1>5 DEF Ids
  <2> QED
    BY <2>1, <2>2, <1>5 DEF Ids
<1>10. ChannelsSafe' /\ Connections'
  <2>1. /\ handler[c] = "streaming" /\ handler'[c] \in {"streaming", "leaving"}
        /\ \A d \in Conn : d # c => handler'[d] = handler[d]
    BY <1>1 DEF Forward, Goto, TypeOK
  <2>2. /\ \/ cancelled'[c] = cancelled[c]
           \/ (late[c] \/ cancelled[c]) /\ cancelled'[c]
        /\ \A d \in Conn : d # c => cancelled'[d] = cancelled[d]
    BY <1>1 DEF Forward, TypeOK
  <2>3. ChannelsSafe'
    BY <2>1, <1>1, <1>4 DEF TypeOK, ChannelsSafe
  <2>4. ASSUME NEW d \in Conn
        PROVE  /\ closed'[d] => handler'[d] # "registering"
               /\ handler'[d] = "free" => /\ d # conn' /\ channel'[d] = <<>>
                                          /\ ~closed'[d] /\ ~late'[d] /\ ~cancelled'[d]
               /\ d # conn' => wire'[d] = <<>> /\ (handler'[d] = "free" \/ cancelled'[d])
               /\ d = conn' /\ cancelled'[d] => late'[d]
    <3>1. CASE d = c
      BY <3>1, <2>1, <2>2, <1>1, <1>4, <1>5 DEF Connections
    <3>2. CASE d # c
      BY <3>2, <2>1, <2>2, <1>1, <1>4, <1>5 DEF Connections
    <3> QED
      BY <3>1, <3>2
  <2> QED
    BY <2>3, <2>4, <1>1, <1>4 DEF Connections
<1> QED
  BY <1>6, <1>8, <1>9, <1>10 DEF IInv


LEMMA Connected ==
    ASSUME StreamAssumption, IInv, NEW c \in Conn, Connect(c)
    PROVE  IInv'
<1>1. TypeOK /\ InLine /\ ChannelsSafe /\ Connections /\ NothingLost
  BY DEF IInv
<1>2. /\ conn = NoConn /\ due = {} /\ c # conn /\ handler[c] = "free"
      /\ channel[c] = <<>> /\ wire[c] = <<>> /\ ~cancelled[c] /\ ~closed[c]
  BY <1>1 DEF Connect, TypeOK, Connections, StreamAssumption
<1>3. UNCHANGED <<counter, draft, queue, events, channel, wire, due, late, cancelled,
                  closed, clients>>
  BY DEF Connect, publishers, page
<1>4. \/ conn' = c /\ source' = "open" /\ handler' = [handler EXCEPT ![c] = "registering"]
      \/ conn' = conn /\ source' = "failed" /\ handler' = handler
  BY DEF Connect, Goto
<1>5. TypeOK'
  BY <1>1, <1>2, <1>4 DEF Connect, TypeOK, publishers, page, StreamAssumption
<1>6. ASSUME NEW d \in Conn PROVE Line(d)'
  <2>1. Line(d)
    BY <1>1 DEF InLine
  <2>2. d = conn' => Range(wire[d]) = {} /\ Range(channel[d]) = {}
    BY <1>2, <1>4, Empty DEF StreamAssumption
  <2> QED
    BY <2>1, <2>2, <1>3, OutSame DEF Line, Before
<1>7. InLine'
  BY <1>1, <1>3, <1>6, OutSame DEF InLine
<1>8. NothingLost'
  BY <1>2, <1>3, <1>4, Empty DEF NothingLost, Ids
<1>9. ChannelsSafe'
  BY <1>1, <1>2, <1>3, <1>4 DEF TypeOK, ChannelsSafe
<1>10. Connections'
  <2>1. CASE handler' = handler /\ conn' = conn
    BY <2>1, <1>1, <1>3, <1>4 DEF Connections
  <2>2. CASE handler' = [handler EXCEPT ![c] = "registering"] /\ conn' = c
    <3>1. ASSUME NEW d \in Conn
          PROVE  /\ closed'[d] => handler'[d] # "registering"
                 /\ handler'[d] = "free" => /\ d # conn' /\ channel'[d] = <<>>
                                            /\ ~closed'[d] /\ ~late'[d] /\ ~cancelled'[d]
                 /\ d # conn' => wire'[d] = <<>> /\ (handler'[d] = "free" \/ cancelled'[d])
                 /\ d = conn' /\ cancelled'[d] => late'[d]
      <4>1. CASE d = c
        BY <4>1, <2>2, <1>1, <1>2, <1>3 DEF TypeOK
      <4>2. CASE d # c
        <5>1. handler'[d] = handler[d] /\ d # conn
          BY <4>2, <2>2, <1>1, <1>2 DEF TypeOK, StreamAssumption
        <5> QED
          BY <5>1, <4>2, <2>2, <1>1, <1>3 DEF Connections
      <4> QED
        BY <4>1, <4>2
    <3> QED
      BY <3>1, <1>2, <1>3 DEF Connections
  <2> QED
    BY <2>1, <2>2, <1>4
<1> QED
  BY <1>5, <1>7, <1>8, <1>9, <1>10 DEF IInv

LEMMA Received ==
    ASSUME StreamAssumption, IInv, Receive
    PROVE  IInv'
<1>1. TypeOK /\ InLine /\ ChannelsSafe /\ Connections /\ NothingLost
  BY DEF IInv
<1>2. /\ conn \in Conn /\ wire[conn] \in Seq(Event) /\ wire[conn] # <<>> /\ Line(conn)
      /\ events \in Seq(Event) /\ Len(events) <= Window
  BY <1>1, Typed DEF Receive, TypeOK, InLine
<1> PICK h \in Event : h = Head(wire[conn])
  BY <1>2, Tails
<1> PICK rest \in Seq(Event) : rest = Tail(wire[conn])
  BY <1>2, Tails
<1> PICK kept \in Seq(Event) : kept = Latest(events)
  BY <1>2, LatestEvents
<1>3. /\ Range(wire[conn]) = {h} \cup Range(rest)
      /\ Ordered(rest) /\ \A b \in Range(rest) : Later(h, b)
  BY <1>2, Tails DEF Line
<1>4. /\ wire' = [wire EXCEPT ![conn] = rest] /\ events' = Append(kept, h)
      /\ due' = due \ {h.id}
      /\ UNCHANGED <<counter, draft, queue, alive, clients, channel, closed, handler, late,
                     cancelled, valid, source, conn, isConnected>>
  BY DEF Receive, publishers
<1>5. /\ Range(events') = Range(kept) \cup {h} /\ Range(kept) \subseteq Range(events)
      /\ events' \in Seq(Event) /\ Len(events') <= Window
  <2>1. Len(kept) < Window /\ Len(kept) \in Nat /\ Window \in Nat
    BY <1>2, LatestEvents DEF StreamAssumption
  <2> QED
    BY <2>1, <1>2, <1>4, LatestEvents, Appends
<1>6. Ordered(events')
  <2>1. Ordered(kept)
    BY <1>1, <1>2, LatestEvents DEF InLine
  <2>2. \A a \in Range(kept) : Later(a, h)
    BY <1>2, <1>3, <1>5 DEF Line, Before
  <2> QED
    BY <2>1, <2>2, <1>4, Appends
<1>7. /\ wire'[conn] = rest /\ \A d \in Conn : d # conn => wire'[d] = wire[d]
      /\ wire' \in [Conn -> Seq(Event)]
  BY <1>1, <1>2, <1>4 DEF TypeOK
<1>8. TypeOK'
  BY <1>1, <1>4, <1>5, <1>7 DEF TypeOK
<1>9. NotAhead(events)' /\ Before(events', queue)
  <2>1. Out(h)
    BY <1>2, <1>3 DEF Line, NotAhead
  <2>2. \A b \in Range(queue) : Later(h, b)
    BY <1>2, <1>3 DEF Line, Before
  <2> QED
    BY <2>1, <2>2, <1>1, <1>4, <1>5, OutSame DEF InLine, NotAhead, Before
<1>10. Line(conn)'
  <2>1. NotAhead(wire[conn])' /\ Before(rest, queue) /\ Before(rest, channel[conn])
    BY <1>2, <1>3, <1>4, <1>7, OutSame DEF Line, NotAhead, Before
  <2>2. Before(events', rest)
    BY <1>2, <1>3, <1>5 DEF Line, Before
  <2>3. Before(events', channel[conn])
    BY <1>2, <1>3, <1>5 DEF Line, Before
  <2> QED
    BY <2>1, <2>2, <2>3, <1>2, <1>3, <1>4, <1>7, OutSame DEF Line
<1>11. InLine'
  <2>1. \A d \in Conn : d # conn => Line(d)'
    BY <1>1, <1>4, <1>7, OutSame DEF InLine, Line
  <2> QED
    BY <2>1, <1>1, <1>4, <1>6, <1>9, <1>10, OutSame DEF InLine
<1>12. NothingLost'
  <2> SUFFICES ASSUME ~late[conn]
               PROVE  due \ {h.id} = (Ids(rest) \cup Ids(channel[conn])) \ {0}
    BY <1>4, <1>7 DEF NothingLost
  <2>1. due = ({h.id} \cup Ids(rest) \cup Ids(channel[conn])) \ {0}
    BY <1>1, <1>3 DEF Receive, NothingLost, Ids
  <2>2. Out(h) /\ (\A b \in Range(rest) : Out(b)) /\ \A b \in Range(channel[conn]) : Out(b)
    BY <1>2, <1>3 DEF Line, NotAhead
  <2>3. ASSUME NEW b \in Range(rest) \cup Range(channel[conn]), b.id = h.id
        PROVE  h.id = 0
    <3>1. Later(h, b)
      BY <1>2, <1>3 DEF Line, Before
    <3>2. h.by = Nobody \/ b.by = Nobody
      BY <3>1, <2>3 DEF Later
    <3> QED
      BY <3>2, <2>2, <2>3, InitEventOut DEF Out
  <2> QED
    BY <2>1, <2>3 DEF Ids
<1>13. ChannelsSafe' /\ Connections'
  BY <1>1, <1>2, <1>4, <1>7 DEF TypeOK, ChannelsSafe, Connections, StreamAssumption
<1> QED
  BY <1>8, <1>11, <1>12, <1>13 DEF IInv

(* The end of a connection: what a place holds that is free again.         *)
LEMMA Released ==
    ASSUME StreamAssumption, IInv, NEW c \in Conn, Release(c), handler[c] = "gone",
           conn' = conn \/ conn' = NoConn, c # conn',
           source' = "open" <=> conn' # NoConn,
           source' \in {"off", "connecting", "open", "failed"},
           wire[c] = <<>>, isConnected' \in BOOLEAN,
           due' = IF conn' = conn THEN due ELSE {},
           conn \in Conn /\ conn' = NoConn => c = conn,
           UNCHANGED <<publishers, queue, alive, clients, wire, valid, events>>
    PROVE  IInv'
<1>1. TypeOK /\ InLine /\ ChannelsSafe /\ Connections /\ NothingLost
  BY DEF IInv
<1>2. UNCHANGED <<counter, draft, queue, alive, clients, wire, valid, events>>
  BY DEF publishers
<1>3. /\ channel'[c] = <<>> /\ \A d \in Conn : d # c => channel'[d] = channel[d]
      /\ channel' \in [Conn -> Seq(Event)]
  BY <1>1, Empty DEF Release, TypeOK
<1>4. TypeOK'
  <2>1. \A d \in Conn : Len(channel'[d]) <= ClientCap
    <3> TAKE d \in Conn
    <3>1. CASE d = c
      BY <3>1, <1>3, Empty DEF StreamAssumption
    <3>2. CASE d # c
      BY <3>2, <1>1, <1>3 DEF TypeOK
    <3> QED
      BY <3>1, <3>2
  <2> QED
    BY <2>1, <1>1, <1>2, <1>3 DEF Release, Goto, TypeOK
<1>5. ASSUME NEW d \in Conn PROVE Line(d)'
  <2>1. Line(d) /\ (d = conn' => d = conn /\ d # c)
    BY <1>1 DEF InLine, StreamAssumption
  <2>2. CASE d = c
    BY <2>1, <2>2, <1>2, <1>3, Empty, OutSame DEF Line, NotAhead, Before
  <2>3. CASE d # c
    BY <2>1, <2>3, <1>2, <1>3, OutSame DEF Line
  <2> QED
    BY <2>2, <2>3
<1>6. InLine'
  BY <1>1, <1>2, <1>5, OutSame DEF InLine
<1>7. NothingLost'
  BY <1>1, <1>2, <1>3 DEF Release, TypeOK, NothingLost, StreamAssumption
<1>8. ChannelsSafe'
  BY <1>1, <1>2 DEF Release, Goto, TypeOK, ChannelsSafe
<1>9. Connections'
  <2>1. conn' = NoConn => due' = {}
    BY <1>1 DEF Connections
  <2>2. ASSUME NEW d \in Conn
        PROVE  /\ closed'[d] => handler'[d] # "registering"
               /\ handler'[d] = "free" => /\ d # conn' /\ channel'[d] = <<>>
                                          /\ ~closed'[d] /\ ~late'[d] /\ ~cancelled'[d]
               /\ d # conn' => wire'[d] = <<>> /\ (handler'[d] = "free" \/ cancelled'[d])
               /\ d = conn' /\ cancelled'[d] => late'[d]
    <3>1. CASE d = c
      BY <3>1, <1>1, <1>2, <1>3 DEF Release, Goto, TypeOK
    <3>2. CASE d # c
      <4>1. /\ handler'[d] = handler[d] /\ closed'[d] = closed[d] /\ late'[d] = late[d]
            /\ cancelled'[d] = cancelled[d] /\ channel'[d] = channel[d] /\ wire'[d] = wire[d]
        BY <3>2, <1>1, <1>2, <1>3 DEF Release, Goto, TypeOK
      <4>2. d = conn' <=> d = conn
        BY <3>2, <1>1 DEF TypeOK, StreamAssumption
      <4> QED
        BY <4>1, <4>2, <1>1 DEF Connections
    <3> QED
      BY <3>1, <3>2
  <2> QED
    BY <2>1, <2>2 DEF Connections
<1> QED
  BY <1>4, <1>6, <1>7, <1>8, <1>9 DEF IInv


LEMMA HasEnded ==
    ASSUME StreamAssumption, IInv, Ended \/ \E c \in Conn : Free(c)
    PROVE  IInv'
<1>1. TypeOK /\ Connections
  BY DEF IInv
<1>2. CASE Ended
  <2>1. conn \in Conn /\ conn # NoConn
    BY <1>1, <1>2 DEF Ended, TypeOK, StreamAssumption
  <2> QED
    BY <2>1, <1>1, <1>2, Released DEF Ended
<1>3. ASSUME NEW c \in Conn, Free(c)
      PROVE  IInv'
  <2>1. /\ wire[c] = <<>> /\ (source = "open" <=> conn # NoConn) /\ isConnected \in BOOLEAN
        /\ source \in {"off", "connecting", "open", "failed"}
    BY <1>1, <1>3 DEF Free, Connections, TypeOK
  <2>2. UNCHANGED <<publishers, queue, alive, clients, wire, valid, events, source, conn,
                    isConnected, due>>
    BY <1>3 DEF Free, page
  <2> QED
    BY <2>1, <2>2, <1>1, <1>3, Released DEF Free, StreamAssumption
<1> QED
  BY <1>2, <1>3

LEMMA IsClosed ==
    ASSUME StreamAssumption, IInv, Close
    PROVE  IInv'
<1>1. TypeOK /\ InLine /\ ChannelsSafe /\ Connections /\ NothingLost
  BY DEF IInv
<1>2. /\ conn' = NoConn /\ source' = "off" /\ events' = <<>> /\ due' = {}
      /\ UNCHANGED <<counter, draft, queue, alive, clients, channel, closed, handler, late>>
  BY DEF Close, publishers
<1>3. ASSUME NEW d \in Conn
      PROVE  /\ wire'[d] = <<>>
             /\ cancelled'[d] = cancelled[d] \/ (d = conn /\ cancelled'[d])
             /\ d = conn => cancelled'[d]
  <2>1. CASE d = conn
    <3>1. source = "open"
      BY <2>1, <1>1 DEF TypeOK, StreamAssumption
    <3> QED
      BY <2>1, <3>1, <1>1 DEF Close, TypeOK
  <2>2. CASE d # conn
    BY <2>2, <1>1 DEF Close, TypeOK, Connections
  <2> QED
    BY <2>1, <2>2
<1>4. TypeOK'
  <2>1. wire' \in [Conn -> Seq(Event)] /\ cancelled' \in [Conn -> BOOLEAN]
    <3>1. /\ wire' = wire \/ wire' = [wire EXCEPT ![conn] = <<>>]
          /\ cancelled' = cancelled \/ cancelled' = [cancelled EXCEPT ![conn] = TRUE]
      BY DEF Close
    <3>2. wire \in [Conn -> Seq(Event)] /\ cancelled \in [Conn -> BOOLEAN]
      BY <1>1 DEF TypeOK
    <3>3. <<>> \in Seq(Event)
      BY Empty
    <3>4. wire' \in [Conn -> Seq(Event)]
      BY <3>1, <3>2, <3>3
    <3> QED
      BY <3>1, <3>2, <3>4
  <2>2. events' \in Seq(Event) /\ Len(events') <= Window
    BY <1>2, Empty DEF StreamAssumption
  <2> QED
    BY <2>1, <2>2, <1>1, <1>2 DEF Close, TypeOK
<1>5. ASSUME NEW d \in Conn PROVE Line(d)'
  <2>1. Line(d) /\ d # conn'
    BY <1>1, <1>2 DEF InLine, StreamAssumption
  <2> QED
    BY <2>1, <1>2, <1>3, Empty, OutSame DEF Line, NotAhead, Before
<1>6. InLine'
  BY <1>1, <1>2, <1>5, Empty, OutSame DEF InLine, NotAhead, Before
<1>7. ChannelsSafe' /\ NothingLost'
  BY <1>1, <1>2 DEF ChannelsSafe, NothingLost
<1>8. Connections'
  <2>1. ASSUME NEW d \in Conn
        PROVE  /\ closed'[d] => handler'[d] # "registering"
               /\ handler'[d] = "free" => /\ d # conn' /\ channel'[d] = <<>>
                                          /\ ~closed'[d] /\ ~late'[d] /\ ~cancelled'[d]
               /\ d # conn' => wire'[d] = <<>> /\ (handler'[d] = "free" \/ cancelled'[d])
               /\ d = conn' /\ cancelled'[d] => late'[d]
    BY <1>1, <1>2, <1>3 DEF Connections, StreamAssumption
  <2> QED
    BY <2>1, <1>2 DEF Connections
<1> QED
  BY <1>4, <1>6, <1>7, <1>8 DEF IInv

-----------------------------------------------------------------------------
(***************************************************************************)
(* The theorems.                                                           *)
(***************************************************************************)
(* The inductive invariant: types, the order of everything that is on its  *)
(* way from the handlers to the page (events/broadcaster.go, handlers.go   *)
(* 386-461), and the life of channels and connections.                     *)
THEOREM InvariantHolds == Spec => []IInv
<1>1. Init => IInv
  BY StreamAssumption, Initial
<1>2. IInv /\ [Next]_vars => IInv'
  <2> SUFFICES ASSUME IInv, [Next]_vars PROVE IInv'
    OBVIOUS
  <2>1. CASE UNCHANGED vars
    BY <2>1 DEF vars, IInv, TypeOK, InLine, Line, ChannelsSafe, Connections, NothingLost,
       NotAhead, Out
  <2>2. ASSUME NEW p \in Publisher, BroadcastDHCPEvent(p) \/ Broadcast(p) PROVE IInv'
    BY <2>2, StreamAssumption, Numbered, Queued
  <2>3. ASSUME NEW c \in Conn,
               \/ Register(c) \/ Unregister(c) \/ Forward(c) \/ Leaves(c)
               \/ Deadline(c) \/ Connect(c) \/ Free(c)
        PROVE  IInv'
    BY <2>3, StreamAssumption, Registered, Unregistered, Forwarded, Left, Connected, HasEnded
  <2>4. CASE Relay \/ Stop \/ Expire \/ Open \/ Receive \/ Ended \/ Close
    BY <2>4, StreamAssumption, Relayed, Stopped, Opened, Received, HasEnded, IsClosed
  <2> QED
    BY <2>1, <2>2, <2>3, <2>4 DEF Next
<1> QED
  BY <1>1, <1>2, PTL DEF Spec

(* A page shows the events of one publisher in the order in which they     *)
(* were published and none twice, over reconnections, dropped events and   *)
(* full channels (events/broadcaster.go:100-173, Activity.tsx:44-47).      *)
THEOREM EventsStayInOrder == Spec => []EventsInOrder
<1>1. IInv => EventsInOrder
  BY DEF IInv, InLine, EventsInOrder
<1> QED
  BY <1>1, InvariantHolds, PTL

(* No channel is sent to after its end, nor closed twice: the broadcaster  *)
(* never panics (events/broadcaster.go:69-112).                            *)
THEOREM ChannelsStaySafe == Spec => []ChannelsSafe
<1>1. IInv => ChannelsSafe
  BY DEF IInv
<1> QED
  BY <1>1, InvariantHolds, PTL

(* Before the write timeout of a connection, what its client has been      *)
(* given and has not reached the page is on its way, and nothing else is.  *)
THEOREM NothingIsLost == Spec => []NothingLost
<1>1. IInv => NothingLost
  BY DEF IInv
<1> QED
  BY <1>1, InvariantHolds, PTL
-----------------------------------------------------------------------------
(***************************************************************************)
(* The page implements ActivityFeed.                                       *)
(***************************************************************************)
(* What the page receives has a number and comes after what it shows.      *)
LEMMA ReceiveShows == ASSUME IInv, Receive PROVE F!Next
<1> USE StreamAssumption
<1>1. /\ TypeOK /\ conn \in Conn /\ wire[conn] \in Seq(Event) /\ wire[conn] # <<>>
      /\ Line(conn) /\ events \in Seq(Event) /\ Len(events) <= Window
  BY Typed DEF IInv, InLine, Receive, TypeOK
<1> PICK h \in Event : h = Head(wire[conn])
  BY <1>1, Tails
<1>2. events' = Append(Latest(events), h) /\ counter' = counter /\ counter \in Nat
  BY <1>1, Typed DEF Receive, publishers
<1>3. h \in Range(wire[conn])
  BY <1>1, Tails
<1>4. Out(h) /\ \A a \in Range(events) : Later(a, h)
  BY <1>1, <1>3 DEF Line, NotAhead, Before
<1>5. /\ h = [id |-> 0, by |-> Nobody] \/ (h.id \in 1 .. counter /\ h.by \in Publisher)
      /\ h = [id |-> h.id, by |-> h.by]
      /\ h.id \in 0 .. counter /\ h.by \in Publisher \cup {Nobody}
  BY <1>2, <1>4 DEF Out, InitEvent, Event
<1>6. F!Follows(h, events)
  BY <1>4 DEF F!Follows, F!Range, Later, Range
<1>7. F!Show(h)
  BY <1>2, <1>5, <1>6 DEF F!Show, Latest
<1> QED
  BY <1>5, <1>7 DEF F!Next

LEMMA StepFeeds ==
    ASSUME IInv, [Next]_vars PROVE F!Next \/ UNCHANGED F!vars
<1>1. ASSUME NEW p \in Publisher, BroadcastDHCPEvent(p) \/ Broadcast(p)
      PROVE  F!Next \/ UNCHANGED F!vars
  BY <1>1 DEF BroadcastDHCPEvent, Broadcast, page, F!Next, F!Number, F!vars
<1>2. ASSUME NEW c \in Conn,
             \/ Register(c) \/ Unregister(c) \/ Forward(c) \/ Leaves(c)
             \/ Deadline(c) \/ Connect(c) \/ Free(c)
      PROVE  UNCHANGED F!vars
  BY <1>2 DEF Register, Unregister, Forward, Leaves, Deadline, Connect, Free,
              publishers, page, F!vars
<1>3. CASE Receive
  BY <1>3, ReceiveShows
<1>4. CASE Close
  BY <1>4 DEF Close, publishers, F!Next, F!Clear
<1>5. CASE Relay \/ Stop \/ Expire \/ Open \/ Ended \/ UNCHANGED vars
  BY <1>5 DEF Relay, Stop, Expire, Open, Ended, publishers, page, vars, F!vars
<1> QED
  BY <1>1, <1>2, <1>3, <1>4, <1>5 DEF Next

(* However many handlers publish, whatever is dropped at a full queue or   *)
(* channel, and however often the stream is lost and resumed, the list of  *)
(* the page is a feed of numbered events, of each publisher in its order,  *)
(* that loses only its oldest (broadcaster.go:143-173, Activity.tsx:40-58). *)
THEOREM ImplementsFeed == Spec => Implements
<1>1. Init => F!Init
  BY DEF Init, F!Init
<1>2. IInv /\ [Next]_vars => [F!Next]_(F!vars)
  BY StepFeeds
<1> QED
  BY <1>1, <1>2, InvariantHolds, PTL DEF Spec, Implements, F!Spec

=============================================================================
