----------------------------- MODULE DhcpProofs -----------------------------
(***************************************************************************)
(* For every number of servers, sessions, packets, clients and addresses,  *)
(* the leases table implements Assignment and a renewal touches no row of  *)
(* another client.  Both follow from the inductive invariant IInv of       *)
(* DhcpServer: what a handler has found out before it writes, and that the *)
(* id of a row is never used for another one.                              *)
(***************************************************************************)
EXTENDS DhcpServer, FiniteSetTheorems, SequenceTheorems, TLAPS

(***************************************************************************)
(* Lemmas about the leases table.                                          *)
(***************************************************************************)
LEMMA RowsOf == ASSUME NEW t \in Tables, NEW ip \in Rows(t)
                PROVE  ip \in IP /\ t[ip] \in Lease
BY NoRowAssumption DEF Rows, Tables

(* An UPDATE of some columns gives a row again.                            *)
LEMMA Bounds == /\ LeaseTime \in -Oldest .. LeaseTime
                /\ 0 \in 0 .. Retention + 1
                /\ {"active", "expired", "released", "declined"} \subseteq LeaseState
BY StoreAssumption DEF LeaseState

LEMMA Touched ==
    ASSUME NEW row \in Lease, NEW s \in LeaseState
    PROVE  /\ [row EXCEPT !.state = s, !.ttl = LeaseTime, !.age = 0] \in Lease
           /\ [row EXCEPT !.state = s, !.age = 0] \in Lease
BY Bounds DEF Lease

LEMMA Older ==
    ASSUME NEW row \in Lease
    PROVE  [row EXCEPT !.ttl = IF @ > -Oldest THEN @ - 1 ELSE @,
                       !.age = IF @ <= Retention THEN @ + 1 ELSE @] \in Lease
<1>1. row.ttl \in -Oldest .. LeaseTime /\ row.age \in 0 .. Retention + 1
    BY DEF Lease
<1>2. /\ (IF row.ttl > -Oldest THEN row.ttl - 1 ELSE row.ttl) \in -Oldest .. LeaseTime
      /\ (IF row.age <= Retention THEN row.age + 1 ELSE row.age) \in 0 .. Retention + 1
    BY <1>1, StoreAssumption
<1>3. QED
    BY <1>2 DEF Lease

(* Every statement and the passing of time keep the table well typed.      *)
LEMMA CreateTyped ==
    ASSUME NEW t \in Tables, NEW ip \in IP, NEW id \in RowId, NEW mac \in MAC
    PROVE  CreateLease(t, ip, id, mac) \in Tables
<1>1. [id |-> id, mac |-> mac, state |-> "active", ttl |-> LeaseTime, age |-> 0] \in Lease
    BY Bounds DEF Lease
<1>2. QED
    BY <1>1 DEF CreateLease, Tables

LEMMA RenewTyped ==
    ASSUME NEW t \in Tables, NEW id
    PROVE  RenewLease(t, id) \in Tables
<1> SUFFICES ASSUME NEW x \in IP
             PROVE  RenewLease(t, id)[x] \in Lease \cup {NoRow}
    BY DEF RenewLease, Tables
<1>1. t[x] # NoRow => t[x] \in Lease
    BY DEF Tables
<1>2. QED
    BY <1>1, Touched, Bounds DEF RenewLease

LEMMA SetStateTyped ==
    ASSUME NEW t \in Tables, NEW ip \in IP, NEW state \in LeaseState
    PROVE  SetState(t, ip, state) \in Tables
<1>1. t[ip] # NoRow => [t[ip] EXCEPT !.state = state, !.age = 0] \in Lease
    BY Touched DEF Tables
<1>2. QED
    BY <1>1 DEF SetState, Tables

LEMMA ExpireTyped ==
    ASSUME NEW t \in Tables PROVE ExpireLeases(t) \in Tables
<1> SUFFICES ASSUME NEW x \in IP
             PROVE  ExpireLeases(t)[x] \in Lease \cup {NoRow}
    BY DEF ExpireLeases, Tables
<1>1. t[x] # NoRow => t[x] \in Lease
    BY DEF Tables
<1>2. QED
    BY <1>1, Touched, Bounds DEF ExpireLeases

LEMMA DeleteTyped ==
    ASSUME NEW t \in Tables PROVE DeleteOldLeases(t) \in Tables
BY DEF DeleteOldLeases, Tables

LEMMA LaterTyped ==
    ASSUME NEW t \in Tables PROVE Later(t) \in Tables
<1> SUFFICES ASSUME NEW x \in IP
             PROVE  Later(t)[x] \in Lease \cup {NoRow}
    BY DEF Later, Tables
<1>1. t[x] # NoRow => t[x] \in Lease
    BY DEF Tables
<1>2. QED
    BY <1>1, Older DEF Later

(* What each statement does to a row other than giving it a state or time. *)
LEMMA CreateRows ==
    ASSUME NEW t \in Tables, NEW ip \in IP, NEW id \in RowId, NEW mac \in MAC
    PROVE  LET u == CreateLease(t, ip, id, mac)
           IN  /\ u[ip].id = id /\ u[ip].mac = mac
               /\ u[ip].state = "active" /\ u[ip].ttl = LeaseTime
               /\ u[ip] # NoRow
               /\ \A x \in IP \ {ip} : u[x] = t[x]
<1>1. [id |-> id, mac |-> mac, state |-> "active", ttl |-> LeaseTime, age |-> 0] \in Lease
    BY Bounds DEF Lease
<1>2. QED
    BY <1>1, NoRowAssumption DEF CreateLease, Tables

LEMMA RenewRows ==
    ASSUME NEW t \in Tables, NEW id, NEW x \in IP
    PROVE  LET u == RenewLease(t, id)
           IN  /\ u[x] = NoRow <=> t[x] = NoRow
               /\ t[x] # NoRow => u[x].id = t[x].id /\ u[x].mac = t[x].mac
               /\ t[x] # NoRow /\ t[x].id = id =>
                     u[x].state = "active" /\ u[x].ttl = LeaseTime
               /\ ~(t[x] # NoRow /\ t[x].id = id) => u[x] = t[x]
<1>1. RenewLease(t, id) \in Tables
    BY RenewTyped
<1>2. CASE t[x] # NoRow /\ t[x].id = id
    <2>1. t[x] \in Lease
        BY <1>2 DEF Tables
    <2>2. RenewLease(t, id)[x] =
             [t[x] EXCEPT !.state = "active", !.ttl = LeaseTime, !.age = 0]
        BY <1>2 DEF RenewLease
    <2>3. [t[x] EXCEPT !.state = "active", !.ttl = LeaseTime, !.age = 0] \in Lease
        BY <2>1, Touched, Bounds
    <2>4. QED
        BY <1>2, <2>1, <2>2, <2>3, NoRowAssumption DEF Lease
<1>3. CASE ~(t[x] # NoRow /\ t[x].id = id)
    BY <1>3 DEF RenewLease
<1>4. QED
    BY <1>2, <1>3

LEMMA SetStateRows ==
    ASSUME NEW t \in Tables, NEW ip \in IP, NEW state \in LeaseState \ {"active"},
           NEW x \in IP
    PROVE  LET u == SetState(t, ip, state)
           IN  /\ u[x] = NoRow <=> t[x] = NoRow
               /\ t[x] # NoRow => u[x].id = t[x].id /\ u[x].mac = t[x].mac
               /\ x # ip => u[x] = t[x]
               /\ t[ip] # NoRow => u[ip].state # "active"
<1>1. CASE t[ip] = NoRow
    BY <1>1 DEF SetState
<1>2. CASE t[ip] # NoRow
    <2> DEFINE row == [t[ip] EXCEPT !.state = state, !.age = 0]
    <2>1. t[ip] \in Lease
        BY <1>2 DEF Tables
    <2>2. row \in Lease /\ row # NoRow
        BY <2>1, Touched, NoRowAssumption
    <2>3. row.id = t[ip].id /\ row.mac = t[ip].mac /\ row.state = state
        BY <2>1 DEF Lease
    <2>4. SetState(t, ip, state) = [t EXCEPT ![ip] = row]
        BY <1>2 DEF SetState
    <2> HIDE DEF row
    <2>5. QED
        BY <1>2, <2>2, <2>3, <2>4 DEF Tables
<1>3. QED
    BY <1>1, <1>2

LEMMA ExpireRows ==
    ASSUME NEW t \in Tables, NEW x \in IP
    PROVE  LET u == ExpireLeases(t)
           IN  /\ u[x] = NoRow <=> t[x] = NoRow
               /\ t[x] # NoRow => u[x].id = t[x].id /\ u[x].mac = t[x].mac
               /\ t[x] # NoRow => (IsActive(u[x]) <=> IsActive(t[x]))
<1>1. CASE t[x] # NoRow /\ t[x].state = "active" /\ t[x].ttl < 0
    <2> DEFINE row == [t[x] EXCEPT !.state = "expired", !.age = 0]
    <2>1. t[x] \in Lease
        BY <1>1 DEF Tables
    <2>2. row \in Lease /\ row # NoRow
        BY <2>1, Touched, Bounds, NoRowAssumption
    <2>3. row.id = t[x].id /\ row.mac = t[x].mac /\ row.state = "expired"
        BY <2>1 DEF Lease
    <2>4. t[x].ttl \in Int
        BY <2>1, StoreAssumption DEF Lease
    <2>5. ExpireLeases(t)[x] = row
        BY <1>1 DEF ExpireLeases
    <2>6. ~IsActive(row) /\ ~IsActive(t[x])
        BY <1>1, <2>3, <2>4 DEF IsActive
    <2> HIDE DEF row
    <2>7. QED
        BY <1>1, <2>2, <2>3, <2>5, <2>6
<1>2. CASE ~(t[x] # NoRow /\ t[x].state = "active" /\ t[x].ttl < 0)
    BY <1>2 DEF ExpireLeases
<1>3. QED
    BY <1>1, <1>2

LEMMA DeleteRows ==
    ASSUME NEW t \in Tables, NEW x \in IP
    PROVE  LET u == DeleteOldLeases(t)
           IN  \/ u[x] = t[x]
               \/ u[x] = NoRow /\ t[x] # NoRow /\ ~IsActive(t[x])
BY DEF DeleteOldLeases, IsActive

LEMMA LaterRows ==
    ASSUME NEW t \in Tables, NEW x \in IP
    PROVE  LET u == Later(t)
           IN  /\ u[x] = NoRow <=> t[x] = NoRow
               /\ t[x] # NoRow => u[x].id = t[x].id /\ u[x].mac = t[x].mac
               /\ t[x] # NoRow /\ IsActive(u[x]) => IsActive(t[x])
<1>1. CASE t[x] # NoRow
    <2>1. t[x] \in Lease
        BY <1>1 DEF Tables
    <2> DEFINE row == [t[x] EXCEPT
                         !.ttl = IF @ > -Oldest THEN @ - 1 ELSE @,
                         !.age = IF @ <= Retention THEN @ + 1 ELSE @]
    <2>2. Later(t)[x] = row
        BY <1>1 DEF Later
    <2>3. /\ row.id = t[x].id /\ row.mac = t[x].mac /\ row.state = t[x].state
          /\ row.ttl <= t[x].ttl
          /\ t[x].ttl \in Int /\ row.ttl \in Int
        BY <2>1, StoreAssumption DEF Lease
    <2>4. row # NoRow
        BY <2>1, Older, NoRowAssumption
    <2>5. QED
        BY <1>1, <2>2, <2>3, <2>4 DEF IsActive
<1>2. CASE t[x] = NoRow
    BY <1>2 DEF Later
<1>3. QED
    BY <1>1, <1>2
-----------------------------------------------------------------------------
(***************************************************************************)
(* Lemmas about keys, the lock table and local variables.                  *)
(***************************************************************************)
LEMMA KeyTyped ==
    ASSUME NEW fn, NEW ip, IF fn = "reserved" THEN ip = NoIP ELSE ip \in IP
    PROVE  KeyOf(fn, ip) \in Key
BY DEF KeyOf, Key

LEMMA LockTyped ==
    ASSUME TypeOK, NEW c \in Conn, NEW k \in Key
    PROVE  /\ Locked(held, c, k) \in [Conn -> [Key -> Nat]]
           /\ Unlocked(held, c, k) \in [Conn -> [Key -> Nat]]
<1>1. held[c] \in [Key -> Nat] /\ held[c][k] \in Nat
    BY DEF TypeOK
<1>2. [held[c] EXCEPT ![k] = @ + 1] \in [Key -> Nat]
    BY <1>1
<1>3. [held[c] EXCEPT ![k] = IF @ > 0 THEN @ - 1 ELSE 0] \in [Key -> Nat]
    BY <1>1
<1>4. QED
    BY <1>2, <1>3 DEF TypeOK, Locked, Unlocked

LEMMA ClosedTyped ==
    ASSUME TypeOK, NEW S PROVE Closed(held, S) \in [Conn -> [Key -> Nat]]
BY DEF TypeOK, Closed

LEMMA NoJobTyped == NoJob \in Job
<1>1. Len(Pools) \in Nat
    BY DhcpAssumption, LenProperties
<1>2. QED
    BY <1>1, EmptySeq DEF NoJob, Job, Fn

LEMMA PoolTyped ==
    ASSUME NEW i \in 1 .. Len(Pools) PROVE Pools[i] \subseteq IP
BY DhcpAssumption, ElementOfSeq

LEMMA SearchTyped ==
    ASSUME NEW i \in 1 .. Len(Pools)
    PROVE  /\ Search(i) \in Job
           /\ Search(i).fn = "search" /\ Search(i).pool = i
<1>1. Pools[i] \subseteq IP /\ i \in 0 .. Len(Pools)
    BY PoolTyped, LenProperties, DhcpAssumption
<1>2. "search" \in Fn
    BY DEF Fn
<1>3. QED
    BY <1>1, <1>2, NoJobTyped DEF Search, Job, NoJob

(* The expired leases of a pool are addresses.                             *)
LEMMA ExpiredTyped ==
    ASSUME NEW t \in Tables, NEW pool \in SUBSET IP,
           NEW q \in GetExpiredLeases(t, pool)
    PROVE  q \in Seq(IP) /\ (q # <<>> => q[1] \in IP)
<1> DEFINE Old == {ip \in Rows(t) \cap pool : t[ip].state \in {"expired", "released"}}
           n == IF Cardinality(Old) <= ClaimLimit THEN Cardinality(Old) ELSE ClaimLimit
<1>1. Old \subseteq IP
    OBVIOUS
<1>2. n \in Nat
    BY <1>1, StoreAssumption, FS_Subset, FS_CardinalityType
<1>3. q \in [1 .. n -> Old]
    BY DEF GetExpiredLeases
<1> HIDE DEF Old, n
<1>4. q \in Seq(IP)
    BY <1>1, <1>2, <1>3, IsASeq
<1>5. QED
    BY <1>4, EmptySeq, ElementOfSeq

LEMMA TypeFacts ==
    ASSUME TypeOK, NEW p \in Handler
    PROVE  /\ pc[p] \in Stage /\ job[p] \in Job
           /\ req[p] \in Packet \cup {NoReq}
           /\ leases \in Tables /\ sweeping \subseteq Server
BY DEF TypeOK
-----------------------------------------------------------------------------
(***************************************************************************)
(* A step of one handler.                                                  *)
(***************************************************************************)
(* Only p moves, and it is ready for what it does next.                    *)
Local(p) ==
    /\ pc' \in [Handler -> Stage]
    /\ req' \in [Handler -> Packet \cup {NoReq}]
    /\ job' \in [Handler -> Job]
    /\ \A q \in Handler \ {p} : pc'[q] = pc[q] /\ req'[q] = req[q] /\ job'[q] = job[q]
    /\ Ready(pc'[p], req'[p], job'[p])

(* If q is about to write after the step it was so before.                 *)
Kept(q) == pc'[q] = "write" =>
              /\ pc[q] = "write" /\ job'[q] = job[q]
              /\ req'[q].mac = req[q].mac

(* Rows are only deleted, or keep id and client.                           *)
LEMMA Shrunk ==
    ASSUME IInv, leases' \in Tables,
           \A x \in IP : \/ leases'[x] = NoRow
                         \/ /\ leases[x] # NoRow
                            /\ leases'[x].id = leases[x].id
                            /\ leases'[x].mac = leases[x].mac
    PROVE  /\ UniqueIds'
           /\ \A q \in Handler : Kept(q) => Owns(pc[q], req[q], job[q])'
<1>1. UniqueIds'
    BY DEF IInv, UniqueIds, Rows
<1>2. ASSUME NEW q \in Handler, Kept(q) PROVE Owns(pc[q], req[q], job[q])'
    BY <1>2 DEF IInv, Owns, Kept, Rows
<1>3. QED
    BY <1>1, <1>2

(* A row is inserted, with an id no row has and no handler remembers.      *)
LEMMA Grown ==
    ASSUME IInv, NEW ip \in IP, NEW id \in UnusedIds, NEW mac \in MAC,
           leases[ip] = NoRow, leases' = CreateLease(leases, ip, id, mac)
    PROVE  /\ UniqueIds'
           /\ \A q \in Handler : Kept(q) => Owns(pc[q], req[q], job[q])'
<1>1. /\ leases \in Tables /\ id \in RowId
      /\ \A x \in Rows(leases) : leases[x].id # id
      /\ \A q \in Handler : job[q].id # id
    BY DEF IInv, TypeOK, UnusedIds
<1>2. /\ leases'[ip].id = id
      /\ \A x \in IP \ {ip} : leases'[x] = leases[x]
    BY <1>1, CreateRows
<1>3. UniqueIds'
    BY <1>1, <1>2 DEF IInv, UniqueIds, Rows
<1>4. ASSUME NEW q \in Handler, Kept(q) PROVE Owns(pc[q], req[q], job[q])'
    BY <1>1, <1>2, <1>4 DEF IInv, Owns, Kept, Rows
<1>5. QED
    BY <1>3, <1>4

LEMMA LocalStep ==
    ASSUME IInv, NEW p \in Handler, Local(p),
           leases' \in Tables, held' \in [Conn -> [Key -> Nat]],
           sweeping' \subseteq Server,
           offer' \in [MAC -> Binding \cup {NoBinding}],
           bound' \in [MAC -> Binding \cup {NoBinding}],
           UniqueIds',
           \A q \in Handler : Kept(q) => Owns(pc[q], req[q], job[q])',
           Kept(p) \/ Owns(pc[p], req[p], job[p])'
    PROVE  IInv'
<1>1. TypeOK'
    BY DEF Local, TypeOK
<1>2. ASSUME NEW q \in Handler \ {p}
      PROVE  Ready(pc[q], req[q], job[q])' /\ Owns(pc[q], req[q], job[q])'
    <2>1. pc'[q] = pc[q] /\ req'[q] = req[q] /\ job'[q] = job[q]
        BY DEF Local
    <2>2. Ready(pc[q], req[q], job[q])'
        BY <2>1 DEF IInv, Ready, ReservedForOther
    <2>3. Kept(q)
        BY <2>1 DEF Kept
    <2>4. QED
        BY <2>2, <2>3
<1>3. Ready(pc[p], req[p], job[p])'
    BY DEF Local, Ready, ReservedForOther
<1>4. QED
    BY <1>1, <1>2, <1>3 DEF IInv

(* The same for a step that leaves the table and the clients alone.        *)
LEMMA QuietStep ==
    ASSUME IInv, NEW p \in Handler, Local(p),
           held' \in [Conn -> [Key -> Nat]],
           leases' = leases, UNCHANGED OfServer,
           Kept(p) \/ Owns(pc[p], req[p], job[p])'
    PROVE  IInv'
<1>1. /\ UniqueIds'
      /\ \A q \in Handler : Kept(q) => Owns(pc[q], req[q], job[q])'
    BY Shrunk DEF IInv, TypeOK, Tables, Rows
<1>2. QED
    BY <1>1, LocalStep DEF IInv, TypeOK, OfServer

LEMMA StopLocal ==
    ASSUME IInv, NEW p \in Handler, Stop(p)
    PROVE  Local(p) /\ Kept(p) /\ pc'[p] = "idle"
BY NoJobTyped DEF Stop, Goto, Set, Local, Kept, Ready, IInv, TypeOK, Stage

LEMMA NextPoolLocal ==
    ASSUME IInv, NEW p \in Handler, NextPool(p),
           pc[p] \in {"expired", "lock", "unlock"}, job[p].pool \in 1 .. Len(Pools)
    PROVE  Local(p) /\ Kept(p) /\ pc'[p] \in {"idle", "expired"}
<1>1. CASE job[p].pool < Len(Pools)
    <2>1. Len(Pools) \in Nat
        BY DhcpAssumption, LenProperties
    <2>2. job[p].pool + 1 \in 1 .. Len(Pools)
        BY <1>1, <2>1
    <2> DEFINE j == [NoJob EXCEPT !.pool = job[p].pool + 1]
    <2>3. j \in Job /\ j.pool \in 1 .. Len(Pools)
        BY <2>2, NoJobTyped DEF Job
    <2>4. /\ pc' = [pc EXCEPT ![p] = "expired"]
          /\ job' = [job EXCEPT ![p] = j] /\ req' = req
        BY <1>1 DEF NextPool, Goto, Set
    <2>5. Ready(pc[p], req[p], job[p])
        BY DEF IInv
    <2> HIDE DEF j
    <2>6. QED
        BY <2>3, <2>4, <2>5 DEF Local, Kept, Ready, IInv, TypeOK, Stage
<1>2. CASE ~(job[p].pool < Len(Pools))
    BY <1>2, StopLocal DEF NextPool
<1>3. QED
    BY <1>1, <1>2

LEMMA TailTyped ==
    ASSUME NEW q \in Seq(IP), q # <<>>
    PROVE  q[1] \in IP /\ Tail(q) \in Seq(IP)
BY HeadTailProperties, EmptySeq, ElementOfSeq

(* WithAdvisoryLock has returned to the allocator.                         *)
LEMMA ReturnLocal ==
    ASSUME IInv, NEW p \in Handler, pc[p] \in {"lock", "unlock"},
           NEW ip \in IP \cup {NoIP},
           IF job[p].fn = "reserved" THEN ip = NoIP ELSE ip \in IP,
           NEW j, j = [job[p] EXCEPT !.ip = ip], Return(p, j)
    PROVE  Local(p) /\ Kept(p)
<1>1. /\ job[p] \in Job /\ Ready(pc[p], req[p], job[p])
      /\ pc \in [Handler -> Stage] /\ req \in [Handler -> Packet \cup {NoReq}]
      /\ job \in [Handler -> Job]
    BY DEF IInv, TypeOK
<1>2. /\ j \in Job /\ j.ip = ip /\ j.fn = job[p].fn /\ j.pool = job[p].pool
      /\ j.queue = job[p].queue /\ j.first = job[p].first /\ j.ok = job[p].ok
      /\ j.todo = job[p].todo
    BY <1>1 DEF Job
<1>3. CASE j.ok
    <2> DEFINE x == IF j.fn = "claim" THEN j.first ELSE j.ip
               k == [NoJob EXCEPT !.ip = x]
    <2>1. x \in IP
        BY <1>1, <1>2, <1>3 DEF Ready
    <2>2. k \in Job /\ k.ip = x
        BY <2>1, NoJobTyped DEF Job
    <2>3. /\ pc' = [pc EXCEPT ![p] = "reply"]
          /\ job' = [job EXCEPT ![p] = k] /\ req' = req
        BY <1>3 DEF Return, Goto, Set
    <2> HIDE DEF k, x
    <2>4. QED
        BY <1>1, <2>1, <2>2, <2>3 DEF Local, Kept, Ready, Stage
<1>4. CASE ~j.ok /\ j.fn = "claim"
    <2>1. j.queue \in Seq(IP) /\ j.queue # <<>> /\ j.first \in IP
          /\ j.pool \in 1 .. Len(Pools)
        BY <1>1, <1>2, <1>4 DEF Ready, Job
    <2>2. Tail(j.queue) \in Seq(IP)
        BY <2>1, TailTyped
    <2>3. /\ pc' = [pc EXCEPT ![p] = "lock"] /\ req' = req
          /\ job' = [job EXCEPT ![p] =
                       IF Tail(j.queue) = <<>> THEN Search(j.pool)
                       ELSE [j EXCEPT !.queue = Tail(j.queue), !.ip = NoIP]]
        BY <1>4 DEF Return, Goto, Set
    <2>4. CASE Tail(j.queue) = <<>>
        BY <1>1, <2>1, <2>3, <2>4, SearchTyped DEF Local, Kept, Ready, Stage
    <2>5. CASE Tail(j.queue) # <<>>
        <3> DEFINE k == [j EXCEPT !.queue = Tail(j.queue), !.ip = NoIP]
        <3>1. /\ k \in Job /\ k.fn = "claim" /\ k.pool = j.pool
              /\ k.queue # <<>> /\ k.first = j.first
            BY <1>2, <1>4, <2>2, <2>5 DEF Job
        <3> HIDE DEF k
        <3>2. job' = [job EXCEPT ![p] = k]
            BY <2>3, <2>5 DEF k
        <3>3. QED
            BY <1>1, <2>1, <2>3, <3>1, <3>2 DEF Local, Kept, Ready, Stage
    <2>6. QED
        BY <2>4, <2>5
<1>5. CASE ~j.ok /\ j.fn = "search"
    <2>1. job[p].pool \in 1 .. Len(Pools)
        BY <1>1, <1>2, <1>5 DEF Ready
    <2>2. CASE j.todo \ {j.ip} = {}
        BY <1>5, <2>1, <2>2, NextPoolLocal DEF Return
    <2>3. CASE j.todo \ {j.ip} # {}
        <3> DEFINE k == [j EXCEPT !.todo = j.todo \ {j.ip}, !.ip = NoIP]
        <3>1. k \in Job /\ k.fn = "search" /\ k.pool = job[p].pool
            BY <1>2, <1>5 DEF Job
        <3>2. /\ pc' = [pc EXCEPT ![p] = "lock"] /\ req' = req
              /\ job' = [job EXCEPT ![p] = k]
            BY <1>5, <2>3 DEF Return, Goto, Set
        <3> HIDE DEF k
        <3>3. QED
            BY <1>1, <2>1, <3>1, <3>2 DEF Local, Kept, Ready, Stage
    <2>4. QED
        BY <2>2, <2>3
<1>6. CASE ~j.ok /\ j.fn \notin {"claim", "search"}
    BY <1>6, StopLocal DEF Return
<1>7. QED
    BY <1>3, <1>4, <1>5, <1>6
-----------------------------------------------------------------------------
(***************************************************************************)
(* IInv holds initially and every action preserves it.                     *)
(***************************************************************************)
LEMMA InitIInv == Init => IInv
<1> SUFFICES ASSUME Init PROVE IInv
    OBVIOUS
<1>1. TypeOK
    BY NoJobTyped DEF Init, TypeOK, Tables, Stage
<1>2. Rows(leases) = {}
    BY DEF Init, Rows
<1>3. UniqueIds
    BY <1>2 DEF UniqueIds
<1>4. \A p \in Handler : Ready(pc[p], req[p], job[p]) /\ Owns(pc[p], req[p], job[p])
    BY DEF Init, Ready, Owns
<1>5. QED
    BY <1>1, <1>3, <1>4 DEF IInv

LEMMA SendStep ==
    ASSUME IInv, NEW S, NEW m \in MAC, NEW ip \in IP \cup {NoIP},
           NEW type \in {"discover", "request", "release", "decline"},
           NEW stage \in {"request", "lookup", "update"},
           stage # "request" => type = "discover" \/ ip \in IP,
           Send(S, type, m, ip, stage),
           offer' \in [MAC -> Binding \cup {NoBinding}],
           bound' \in [MAC -> Binding \cup {NoBinding}]
    PROVE  IInv'
<1> DEFINE packet == [type |-> type, mac |-> m, ip |-> ip, age |-> 0, live |-> TRUE]
<1>1. packet \in Packet
    BY DhcpAssumption DEF Packet
<1>2. ASSUME NEW q \in Handler, q \notin S
      PROVE  /\ pc'[q] = pc[q] /\ job'[q] = job[q]
             /\ req'[q] = req[q] \/ /\ req[q] \in Packet /\ req'[q] \in Packet
                                    /\ req'[q].type = req[q].type
                                    /\ req'[q].mac = req[q].mac
                                    /\ req'[q].ip = req[q].ip
    <2>1. CASE req[q] # NoReq /\ req[q].mac = m
        <3>1. req[q] \in Packet
            BY <2>1 DEF IInv, TypeOK
        <3>2. req'[q] = [req[q] EXCEPT !.live = FALSE]
            BY <1>2, <2>1 DEF Send
        <3>3. QED
            BY <1>2, <3>1, <3>2 DEF Send, Packet
    <2>2. CASE ~(req[q] # NoReq /\ req[q].mac = m)
        BY <1>2, <2>2 DEF Send
    <2>3. QED
        BY <2>1, <2>2
<1>3. ASSUME NEW q \in Handler, q \in S
      PROVE  pc'[q] = stage /\ req'[q] = packet /\ job'[q] = job[q]
    BY <1>3 DEF Send
<1> HIDE DEF packet
<1>4. ASSUME NEW q \in Handler
      PROVE  pc'[q] \in Stage /\ req'[q] \in Packet \cup {NoReq}
    BY <1>1, <1>2, <1>3 DEF IInv, TypeOK, Stage
<1>5. TypeOK'
    <2>1. /\ pc' \in [Handler -> Stage]
          /\ req' \in [Handler -> Packet \cup {NoReq}]
        BY <1>4 DEF Send
    <2>2. QED
        BY <2>1 DEF Send, IInv, TypeOK
<1>6. /\ UniqueIds'
      /\ \A q \in Handler : Kept(q) => Owns(pc[q], req[q], job[q])'
    BY Shrunk DEF IInv, TypeOK, Tables, Send
<1>7. ASSUME NEW q \in Handler
      PROVE  Ready(pc[q], req[q], job[q])' /\ Owns(pc[q], req[q], job[q])'
    <2>1. CASE q \in S
        <3>1. packet.type = type /\ packet.ip = ip
            BY DEF packet
        <3>2. QED
            BY <1>1, <1>3, <2>1, <3>1 DEF Ready, Owns
    <2>2. CASE q \notin S
        <3>1. Ready(pc[q], req[q], job[q])'
            BY <1>2, <2>2 DEF IInv, Ready, ReservedForOther
        <3>2. Kept(q)
            BY <1>2, <2>2 DEF Kept
        <3>3. QED
            BY <1>6, <3>1, <3>2
    <2>3. QED
        BY <2>1, <2>2
<1>8. QED
    BY <1>5, <1>6, <1>7 DEF IInv

LEMMA ClientStep == ASSUME IInv, NEW m \in MAC, Client(m) PROVE IInv'
<1>0. /\ offer \in [MAC -> Binding \cup {NoBinding}]
      /\ bound \in [MAC -> Binding \cup {NoBinding}]
    BY DEF IInv, TypeOK
<1>1. ASSUME NEW S \in SUBSET Idle, Discover(m, S) PROVE IInv'
    BY <1>0, <1>1, SendStep DEF Discover
<1>2. ASSUME NEW S \in SUBSET Idle, NEW ip \in IP \cup {NoIP}, Request(m, ip, S) PROVE IInv'
    BY <1>0, <1>2, SendStep DEF Request
<1>3. ASSUME NEW S \in SUBSET Idle, NEW type \in {"release", "decline"}, GiveUp(m, type, S)
      PROVE  IInv'
    <2>1. bound[m].ip \in IP
        BY <1>0, <1>3 DEF GiveUp, Binding
    <2>2. QED
        BY <1>0, <1>3, <2>1, SendStep DEF GiveUp
<1>4. QED
    BY <1>1, <1>2, <1>3 DEF Client

LEMMA NothingRequestedStep ==
    ASSUME IInv, NEW p \in Handler, NothingRequested(p) PROVE IInv'
<1>1. Local(p) /\ Kept(p)
    BY DEF NothingRequested, Goto, OfServer, Local, Kept, Ready, IInv, TypeOK, Stage
<1>2. QED
    BY <1>1, QuietStep DEF NothingRequested, IInv, TypeOK

LEMMA LookupRequestedStep ==
    ASSUME IInv, NEW p \in Handler, LookupRequested(p) PROVE IInv'
<1>1. req[p] \in Packet /\ req[p].ip \in IP
    BY DEF LookupRequested, IInv, Ready, Packet
<1>2. ASSUME NEW stage \in {"lookup", "nak"}, Goto(p, stage), UNCHANGED <<req, job>>
      PROVE  Local(p) /\ Kept(p)
    BY <1>1, <1>2 DEF Goto, Local, Kept, Ready, IInv, TypeOK, Stage
<1>3. ASSUME Goto(p, "lock"), Set(p, [NoJob EXCEPT !.fn = "renew"]), UNCHANGED req
      PROVE  Local(p) /\ Kept(p)
    <2> DEFINE j == [NoJob EXCEPT !.fn = "renew"]
    <2>1. j \in Job /\ j.fn = "renew"
        BY NoJobTyped DEF Job, Fn
    <2>2. job' = [job EXCEPT ![p] = j]
        BY <1>3 DEF Set
    <2> HIDE DEF j
    <2>3. QED
        BY <1>1, <1>3, <2>1, <2>2 DEF Goto, Local, Kept, Ready, IInv, TypeOK, Stage
<1>4. Local(p) /\ Kept(p)
    BY <1>2, <1>3 DEF LookupRequested
<1>5. QED
    BY <1>4, QuietStep DEF LookupRequested, IInv, TypeOK

LEMMA LookupClientStep ==
    ASSUME IInv, NEW p \in Handler, LookupClient(p) PROVE IInv'
<1>1. /\ req[p] \in Packet
      /\ req[p].type = "discover" \/ req[p].ip \in IP
    BY DEF LookupClient, IInv, Ready
<1>2. ASSUME NEW ip \in IP, Goto(p, "reply"), Set(p, [NoJob EXCEPT !.ip = ip]), UNCHANGED req
      PROVE  Local(p) /\ Kept(p)
    <2> DEFINE j == [NoJob EXCEPT !.ip = ip]
    <2>1. j \in Job /\ j.ip = ip
        BY NoJobTyped DEF Job
    <2>2. job' = [job EXCEPT ![p] = j]
        BY <1>2 DEF Set
    <2> HIDE DEF j
    <2>3. QED
        BY <1>1, <1>2, <2>1, <2>2 DEF Goto, Local, Kept, Ready, IInv, TypeOK, Stage
<1>3. ASSUME Goto(p, "lock"), Set(p, [NoJob EXCEPT !.fn = "reserved"]), UNCHANGED req
      PROVE  Local(p) /\ Kept(p)
    <2> DEFINE j == [NoJob EXCEPT !.fn = "reserved"]
    <2>1. j \in Job /\ j.fn = "reserved" /\ j.ok = FALSE
        BY NoJobTyped DEF Job, Fn, NoJob
    <2>2. job' = [job EXCEPT ![p] = j]
        BY <1>3 DEF Set
    <2> HIDE DEF j
    <2>3. QED
        BY <1>1, <1>3, <2>1, <2>2 DEF Goto, Local, Kept, Ready, IInv, TypeOK, Stage
<1>4. ASSUME Goto(p, "expired"), Set(p, [NoJob EXCEPT !.pool = 1]), UNCHANGED req
      PROVE  Local(p) /\ Kept(p)
    <2> DEFINE j == [NoJob EXCEPT !.pool = 1]
    <2>1. 1 \in 1 .. Len(Pools) /\ 1 \in 0 .. Len(Pools)
        BY DhcpAssumption, LenProperties
    <2>2. j \in Job /\ j.pool = 1
        BY <2>1, NoJobTyped DEF Job
    <2>3. job' = [job EXCEPT ![p] = j]
        BY <1>4 DEF Set
    <2> HIDE DEF j
    <2>4. QED
        BY <1>1, <1>4, <2>1, <2>2, <2>3 DEF Goto, Local, Kept, Ready, IInv, TypeOK, Stage
<1>5. GetLeaseByMAC(leases, req[p].mac) \subseteq IP
    BY DEF GetLeaseByMAC, Rows
<1>6. Local(p) /\ Kept(p)
    BY <1>2, <1>3, <1>4, <1>5 DEF LookupClient
<1>7. QED
    BY <1>6, QuietStep DEF LookupClient, IInv, TypeOK

LEMMA ListExpiredStep ==
    ASSUME IInv, NEW p \in Handler, ListExpired(p) PROVE IInv'
<1>1. /\ req[p] \in Packet /\ job[p] \in Job
      /\ req[p].type = "discover" \/ req[p].ip \in IP
      /\ job[p].pool \in 1 .. Len(Pools)
    BY DEF ListExpired, IInv, TypeOK, Ready
<1>2. PICK q \in GetExpiredLeases(leases, Pools[job[p].pool]) :
         IF q = <<>>
         THEN Set(p, Search(job[p].pool))
         ELSE Set(p, [job[p] EXCEPT !.fn = "claim", !.queue = q, !.first = q[1]])
    BY DEF ListExpired
<1>3. q \in Seq(IP) /\ (q # <<>> => q[1] \in IP)
    BY <1>1, PoolTyped, ExpiredTyped DEF IInv, TypeOK
<1>4. CASE q = <<>>
    <2>1. job' = [job EXCEPT ![p] = Search(job[p].pool)]
        BY <1>2, <1>4 DEF Set
    <2>2. Local(p) /\ Kept(p)
        BY <1>1, <2>1, SearchTyped
        DEF ListExpired, Goto, Local, Kept, Ready, IInv, TypeOK, Stage
    <2>3. QED
        BY <2>2, QuietStep DEF ListExpired, IInv, TypeOK
<1>5. CASE q # <<>>
    <2> DEFINE j == [job[p] EXCEPT !.fn = "claim", !.queue = q, !.first = q[1]]
    <2>1. /\ j \in Job /\ j.fn = "claim" /\ j.queue = q /\ j.first = q[1]
          /\ j.pool = job[p].pool
        BY <1>1, <1>3, <1>5 DEF Job, Fn
    <2>2. job' = [job EXCEPT ![p] = j]
        BY <1>2, <1>5 DEF Set
    <2> HIDE DEF j
    <2>3. Local(p) /\ Kept(p)
        BY <1>1, <1>3, <1>5, <2>1, <2>2
        DEF ListExpired, Goto, Local, Kept, Ready, IInv, TypeOK, Stage
    <2>4. QED
        BY <2>3, QuietStep DEF ListExpired, IInv, TypeOK
<1>6. QED
    BY <1>4, <1>5

(* The address a handler asks the lock for.                                *)
LEMMA TargetTyped ==
    ASSUME IInv, NEW p \in Handler, pc[p] = "lock", NEW ip \in Targets(p)
    PROVE  IF job[p].fn = "reserved" THEN ip = NoIP ELSE ip \in IP
<1>1. job[p] \in Job /\ Ready(pc[p], req[p], job[p])
    BY DEF IInv, TypeOK
<1>2. /\ job[p].fn \in {"claim", "search", "renew", "reserved"}
      /\ job[p].todo \subseteq IP
    BY <1>1 DEF Job, Fn, Ready
<1>3. CASE job[p].fn = "claim"
    <2>1. job[p].queue \in Seq(IP) /\ job[p].queue # <<>>
        BY <1>1, <1>3 DEF Job, Ready
    <2>2. QED
        BY <1>3, <2>1, TailTyped DEF Targets
<1>4. CASE job[p].fn = "search"
    BY <1>2, <1>4 DEF Targets
<1>5. CASE job[p].fn = "renew"
    BY <1>1, <1>5 DEF Targets, Ready
<1>6. CASE job[p].fn = "reserved"
    BY <1>6 DEF Targets
<1>7. QED
    BY <1>2, <1>3, <1>4, <1>5, <1>6

LEMMA LockStep ==
    ASSUME IInv, NEW p \in Handler, NEW c \in Conn, Lock(p, c) PROVE IInv'
<1>1. PICK ip \in Targets(p) :
         /\ held' = Locked(held, c, KeyOf(job[p].fn, ip))
         /\ Set(p, [job[p] EXCEPT !.ip = ip])
    BY DEF Lock
<1>2. IF job[p].fn = "reserved" THEN ip = NoIP ELSE ip \in IP
    BY TargetTyped DEF Lock
<1>3. held' \in [Conn -> [Key -> Nat]]
    BY <1>1, <1>2, KeyTyped, LockTyped DEF IInv
<1> DEFINE j == [job[p] EXCEPT !.ip = ip]
<1>4. /\ j \in Job /\ j.ip = ip /\ j.fn = job[p].fn /\ j.pool = job[p].pool
      /\ j.queue = job[p].queue /\ j.first = job[p].first /\ j.ok = job[p].ok
    BY <1>2 DEF IInv, TypeOK, Job
<1>5. job' = [job EXCEPT ![p] = j]
    BY <1>1 DEF Set
<1> HIDE DEF j
<1>6. Local(p) /\ Kept(p)
    BY <1>2, <1>4, <1>5 DEF Lock, Goto, Local, Kept, Ready, IInv, TypeOK, Stage
<1>7. QED
    BY <1>3, <1>6, QuietStep DEF Lock

(* A row found under the lock to be the client's has an id no other row    *)
(* has; an address found not to be reserved for another client stays so.   *)
LEMMA CheckStep ==
    ASSUME IInv, NEW p \in Handler, Check(p) PROVE IInv'
<1>1. /\ job[p] \in Job /\ leases \in Tables
      /\ Ready(pc[p], req[p], job[p])
      /\ pc[p] = "check" /\ UNCHANGED <<leases, held, req, OfServer>>
    BY DEF Check, IInv, TypeOK
<1>2. CASE Passes(p) /\ job[p].fn = "renew"
    <2>1. /\ job[p].ip \in Rows(leases)
          /\ leases[job[p].ip].mac = req[p].mac
          /\ leases[job[p].ip].id \in RowId
        BY <1>1, <1>2 DEF Passes, Ready, Rows, Tables, Lease
    <2> DEFINE j == [job[p] EXCEPT !.id = leases[job[p].ip].id]
    <2>2. /\ j \in Job /\ j.fn = "renew" /\ j.ip = job[p].ip
          /\ j.id = leases[job[p].ip].id
        BY <1>1, <1>2, <2>1 DEF Job
    <2>3. /\ pc' = [pc EXCEPT ![p] = "write"]
          /\ job' = [job EXCEPT ![p] = j]
        BY <1>2 DEF Check, Goto, Set
    <2> HIDE DEF j
    <2>4. Local(p)
        BY <1>1, <1>2, <2>2, <2>3 DEF Local, Ready, IInv, TypeOK, Stage
    <2>5. job'[p] = j
        BY <2>3 DEF IInv, TypeOK
    <2>6. Owns(pc[p], req[p], job[p])'
        BY <1>1, <2>1, <2>2, <2>5 DEF Owns, IInv, UniqueIds, Rows
    <2>7. QED
        BY <1>1, <2>4, <2>6, QuietStep DEF IInv, TypeOK
<1>3. CASE Passes(p) /\ job[p].fn # "renew"
    <2>1. job[p].fn \in {"claim", "search"} /\ ~ReservedForOther(req[p].mac, job[p].ip)
        BY <1>1, <1>3 DEF Passes, Ready, Job, Fn
    <2>2. pc' = [pc EXCEPT ![p] = "write"] /\ job' = job
        BY <1>3 DEF Check, Goto
    <2>3. Local(p)
        BY <1>1, <2>1, <2>2 DEF Local, Ready, IInv, TypeOK, Stage
    <2>4. Owns(pc[p], req[p], job[p])'
        BY <1>3, <2>2 DEF Owns
    <2>5. QED
        BY <1>1, <2>3, <2>4, QuietStep DEF IInv, TypeOK
<1>4. CASE ~Passes(p)
    <2>1. pc' = [pc EXCEPT ![p] = "unlock"] /\ job' = job
        BY <1>4 DEF Check, Goto
    <2>2. Local(p) /\ Kept(p)
        BY <1>1, <2>1 DEF Local, Kept, Ready, IInv, TypeOK, Stage
    <2>3. QED
        BY <1>1, <2>2, QuietStep DEF IInv, TypeOK
<1>5. QED
    BY <1>2, <1>3, <1>4

(* The INSERT or UPDATE that ends the function under the lock.             *)
LEMMA WrittenTable ==
    ASSUME IInv, NEW p \in Handler, pc[p] = "write", Written(p)
    PROVE  /\ leases' \in Tables
           /\ UniqueIds'
           /\ \A q \in Handler : Kept(q) => Owns(pc[q], req[q], job[q])'
<1>0. leases \in Tables /\ Ready(pc[p], req[p], job[p])
    BY DEF IInv, TypeOK
<1>1. CASE /\ job[p].fn \in {"claim", "search"}
           /\ CanCreate(leases, job[p].ip)
           /\ \E id \in UnusedIds :
                 leases' = CreateLease(leases, job[p].ip, id, req[p].mac)
    <2>1. PICK id \in UnusedIds : leases' = CreateLease(leases, job[p].ip, id, req[p].mac)
        BY <1>1
    <2>2. /\ job[p].ip \in IP /\ req[p].mac \in MAC /\ id \in RowId
          /\ leases[job[p].ip] = NoRow
        BY <1>0, <1>1 DEF Ready, Packet, UnusedIds, CanCreate
    <2>3. leases' \in Tables
        BY <1>0, <2>1, <2>2, CreateTyped
    <2>4. QED
        BY <2>1, <2>2, <2>3, Grown
<1>2. CASE leases' = RenewLease(leases, job[p].id)
    <2>1. leases' \in Tables
        BY <1>0, <1>2, RenewTyped
    <2>2. \A x \in IP : /\ leases'[x] = NoRow <=> leases[x] = NoRow
                        /\ leases[x] # NoRow => /\ leases'[x].id = leases[x].id
                                                /\ leases'[x].mac = leases[x].mac
        BY <1>0, <1>2, RenewRows
    <2>3. QED
        BY <2>1, <2>2, Shrunk
<1>3. QED
    BY <1>1, <1>2 DEF Written

LEMMA WriteStep ==
    ASSUME IInv, NEW p \in Handler, Write(p) PROVE IInv'
<1>1. /\ pc[p] = "write" /\ pc' = [pc EXCEPT ![p] = "unlock"]
      /\ UNCHANGED <<held, req, OfServer>>
      /\ job[p] \in Job /\ Ready(pc[p], req[p], job[p])
    BY DEF Write, Goto, IInv, TypeOK
<1>2. CASE Written(p) /\ Set(p, [job[p] EXCEPT !.ok = TRUE])
    <2> DEFINE j == [job[p] EXCEPT !.ok = TRUE]
    <2>1. /\ j \in Job /\ j.ip = job[p].ip /\ j.fn = job[p].fn /\ j.pool = job[p].pool
          /\ j.queue = job[p].queue /\ j.first = job[p].first
        BY <1>1 DEF Job
    <2>2. job' = [job EXCEPT ![p] = j]
        BY <1>2 DEF Set
    <2> HIDE DEF j
    <2>3. Local(p) /\ Kept(p)
        BY <1>1, <2>1, <2>2 DEF Local, Kept, Ready, IInv, TypeOK, Stage
    <2>4. QED
        BY <1>1, <1>2, <2>3, WrittenTable, LocalStep DEF IInv, TypeOK, OfServer
<1>3. CASE UNCHANGED <<leases, job>>
    <2>1. Local(p) /\ Kept(p)
        BY <1>1, <1>3 DEF Local, Kept, Ready, IInv, TypeOK, Stage
    <2>2. QED
        BY <1>1, <1>3, <2>1, QuietStep DEF IInv, TypeOK
<1>4. QED
    BY <1>2, <1>3 DEF Write

LEMMA UnlockStep ==
    ASSUME IInv, NEW p \in Handler, NEW c \in Conn, Unlock(p, c) PROVE IInv'
<1>1. /\ pc[p] = "unlock" /\ job[p] \in Job
      /\ Ready(pc[p], req[p], job[p])
    BY DEF Unlock, IInv, TypeOK
<1>2. IF job[p].fn = "reserved" THEN job[p].ip = NoIP ELSE job[p].ip \in IP
    BY <1>1 DEF Ready
<1>3. held' \in [Conn -> [Key -> Nat]]
    BY <1>2, KeyTyped, LockTyped DEF Unlock, IInv
<1>4. job[p] = [job[p] EXCEPT !.ip = job[p].ip] /\ job[p].ip \in IP \cup {NoIP}
    BY <1>1 DEF Job
<1>5. Local(p) /\ Kept(p)
    BY <1>1, <1>2, <1>4, ReturnLocal DEF Unlock
<1>6. QED
    BY <1>3, <1>5, QuietStep DEF Unlock

LEMMA UpdateStep ==
    ASSUME IInv, NEW p \in Handler, Update(p) PROVE IInv'
<1>1. leases \in Tables /\ Local(p) /\ Kept(p)
    BY StopLocal DEF Update, IInv, TypeOK
<1>2. PICK state \in {"released", "declined"} :
         leases' = SetState(leases, req[p].ip, state)
    BY DEF Update, ReleaseLease, DeclineLease
<1>3. CASE req[p].ip \in IP
    <2>1. leases' \in Tables
        BY <1>1, <1>2, <1>3, SetStateTyped, Bounds
    <2>2. \A x \in IP : /\ leases'[x] = NoRow <=> leases[x] = NoRow
                        /\ leases[x] # NoRow => /\ leases'[x].id = leases[x].id
                                                /\ leases'[x].mac = leases[x].mac
        BY <1>1, <1>2, <1>3, SetStateRows, Bounds
    <2>3. QED
        BY <1>1, <2>1, <2>2, Shrunk, LocalStep DEF Update, IInv, TypeOK, OfServer
<1>4. CASE req[p].ip \notin IP
    <2>1. leases' = leases
        BY <1>1, <1>2, <1>4 DEF SetState, Tables
    <2>2. QED
        BY <1>1, <2>1, QuietStep DEF Update, IInv, TypeOK
<1>5. QED
    BY <1>3, <1>4

LEMMA ReplyStep ==
    ASSUME IInv, NEW p \in Handler, Reply(p) PROVE IInv'
<1>1. /\ Local(p) /\ Kept(p) /\ leases' = leases /\ held' = held /\ sweeping' = sweeping
      /\ Ready(pc[p], req[p], job[p])
    BY StopLocal DEF Reply, IInv
<1>2. /\ offer' \in [MAC -> Binding \cup {NoBinding}]
      /\ bound' \in [MAC -> Binding \cup {NoBinding}]
    <2>1. CASE UNCHANGED <<offer, bound>>
        BY <2>1 DEF IInv, TypeOK
    <2>2. CASE Hears(p)
        <3>1. /\ offer \in [MAC -> Binding \cup {NoBinding}]
              /\ bound \in [MAC -> Binding \cup {NoBinding}]
              /\ req[p] \in Packet /\ req[p].mac \in MAC /\ req[p].age \in Nat
            BY <1>1, DhcpAssumption DEF Reply, Ready, IInv, TypeOK, Packet
        <3>2. CASE pc[p] = "nak"
            BY <2>2, <3>1, <3>2 DEF Hears
        <3>3. CASE pc[p] = "reply" /\ req[p].type = "discover"
            <4>1. [ip |-> job[p].ip, ttl |-> 1, own |-> TRUE] \in Binding
                BY <1>1, <3>3, StoreAssumption DEF Ready, Binding
            <4>2. QED
                BY <2>2, <3>1, <3>3, <4>1 DEF Hears
        <3>4. CASE pc[p] = "reply" /\ req[p].type # "discover"
            <4>1. req[p].ip \in IP
                BY <1>1, <3>4 DEF Ready
            <4>2. req[p].age < LeaseTime
                BY <2>2, <3>4 DEF Hears
            <4>3. [ip |-> req[p].ip, ttl |-> LeaseTime - req[p].age,
                   own |-> job[p].ip = req[p].ip] \in Binding
                BY <3>1, <4>1, <4>2, StoreAssumption DEF Binding
            <4>4. QED
                BY <2>2, <3>1, <3>4, <4>3 DEF Hears
        <3>5. QED
            BY <3>2, <3>3, <3>4 DEF Reply
    <2>3. QED
        BY <2>1, <2>2 DEF Reply
<1>3. /\ UniqueIds'
      /\ \A q \in Handler : Kept(q) => Owns(pc[q], req[q], job[q])'
    BY <1>1, Shrunk DEF IInv, TypeOK, Tables
<1>4. QED
    BY <1>1, <1>2, <1>3, LocalStep DEF IInv, TypeOK

LEMMA HandleStep == ASSUME IInv, NEW p \in Handler, Handle(p) PROVE IInv'
BY NothingRequestedStep, LookupRequestedStep, LookupClientStep, ListExpiredStep,
   LockStep, CheckStep, WriteStep, UnlockStep, UpdateStep, ReplyStep DEF Handle

LEMMA QueryFailsStep ==
    ASSUME IInv, NEW p \in Handler, NEW c \in Conn, QueryFails(p, c) PROVE IInv'
<1>1. /\ held' \in [Conn -> [Key -> Nat]] /\ UNCHANGED OfServer
      /\ job[p] \in Job /\ Ready(pc[p], req[p], job[p])
    BY ClosedTyped DEF QueryFails, IInv, TypeOK
<1>2. CASE Stop(p) /\ UNCHANGED leases
    BY <1>1, <1>2, StopLocal, QuietStep
<1>3. CASE pc[p] = "expired" /\ NextPool(p) /\ UNCHANGED leases
    <2>1. job[p].pool \in 1 .. Len(Pools)
        BY <1>1, <1>3 DEF Ready
    <2>2. QED
        BY <1>1, <1>3, <2>1, NextPoolLocal, QuietStep
<1>4. CASE /\ pc[p] = "lock" /\ UNCHANGED leases
           /\ \E ip \in Targets(p) : Return(p, [job[p] EXCEPT !.ip = ip])
    <2>1. PICK ip \in Targets(p) : Return(p, [job[p] EXCEPT !.ip = ip])
        BY <1>4
    <2>2. /\ ip \in IP \cup {NoIP}
          /\ IF job[p].fn = "reserved" THEN ip = NoIP ELSE ip \in IP
        BY <1>4, TargetTyped
    <2>3. Local(p) /\ Kept(p)
        BY <1>4, <2>1, <2>2, ReturnLocal
    <2>4. QED
        BY <1>1, <1>4, <2>3, QuietStep
<1>5. ASSUME pc[p] \in {"check", "write"}, Goto(p, "unlock"), UNCHANGED <<req, job>>
      PROVE  Local(p) /\ Kept(p)
    BY <1>1, <1>5 DEF Goto, Local, Kept, Ready, IInv, TypeOK, Stage
<1>6. CASE /\ pc[p] \in {"check", "write"} /\ Goto(p, "unlock")
           /\ UNCHANGED <<leases, req, job>>
    BY <1>1, <1>5, <1>6, QuietStep
<1>7. CASE pc[p] = "write" /\ Written(p) /\ Goto(p, "unlock") /\ UNCHANGED <<req, job>>
    BY <1>1, <1>5, <1>7, WrittenTable, LocalStep DEF IInv, TypeOK, OfServer
<1>8. CASE pc[p] = "unlock" /\ Return(p, job[p]) /\ UNCHANGED leases
    <2>1. /\ job[p] = [job[p] EXCEPT !.ip = job[p].ip] /\ job[p].ip \in IP \cup {NoIP}
          /\ IF job[p].fn = "reserved" THEN job[p].ip = NoIP ELSE job[p].ip \in IP
        BY <1>1, <1>8 DEF Job, Ready
    <2>2. Local(p) /\ Kept(p)
        BY <1>8, <2>1, ReturnLocal
    <2>3. QED
        BY <1>1, <1>8, <2>2, QuietStep
<1>9. QED
    BY <1>2, <1>3, <1>4, <1>6, <1>7, <1>8 DEF QueryFails

(* A step that moves no handler towards a write.                           *)
LEMMA OtherStep ==
    ASSUME IInv, TypeOK',
           \A x \in IP : \/ leases'[x] = NoRow
                         \/ /\ leases[x] # NoRow
                            /\ leases'[x].id = leases[x].id
                            /\ leases'[x].mac = leases[x].mac,
           \A q \in Handler :
              \/ pc'[q] = "idle"
              \/ /\ pc'[q] = pc[q] /\ job'[q] = job[q]
                 /\ req'[q] \in Packet
                 /\ req'[q].type = req[q].type /\ req'[q].mac = req[q].mac
                 /\ req'[q].ip = req[q].ip
    PROVE  IInv'
<1>1. /\ UniqueIds'
      /\ \A q \in Handler : Kept(q) => Owns(pc[q], req[q], job[q])'
    BY Shrunk DEF TypeOK
<1>2. ASSUME NEW q \in Handler
      PROVE  Ready(pc[q], req[q], job[q])' /\ Owns(pc[q], req[q], job[q])'
    <2>1. Ready(pc[q], req[q], job[q])'
        BY DEF IInv, Ready, ReservedForOther
    <2>2. Kept(q)
        BY DEF Kept
    <2>3. QED
        BY <1>1, <2>1, <2>2
<1>3. QED
    BY <1>1, <1>2 DEF IInv

(* A handler at work has a packet.                                         *)
LEMMA Busy == ASSUME IInv, NEW q \in Handler, pc[q] # "idle" PROVE req[q] \in Packet
BY DEF IInv, Ready

LEMMA WorkerStep ==
    ASSUME IInv, NEW s \in Worker, Expire(s) \/ Delete(s) PROVE IInv'
<1>1. leases \in Tables /\ s \in Server /\ UNCHANGED <<held, pc, req, job, offer, bound>>
    BY DhcpAssumption DEF Expire, Delete, IInv, TypeOK
<1>2. CASE Expire(s)
    <2>1. TypeOK'
        BY <1>1, <1>2, ExpireTyped DEF Expire, IInv, TypeOK
    <2>2. \A x \in IP : \/ leases'[x] = NoRow
                        \/ /\ leases[x] # NoRow
                           /\ leases'[x].id = leases[x].id
                           /\ leases'[x].mac = leases[x].mac
        BY <1>1, <1>2, ExpireRows DEF Expire
    <2>3. QED
        BY <1>1, <2>1, <2>2, Busy, OtherStep
<1>3. CASE Delete(s)
    <2>1. TypeOK'
        BY <1>1, <1>3, DeleteTyped DEF Delete, IInv, TypeOK
    <2>2. \A x \in IP : \/ leases'[x] = NoRow
                        \/ /\ leases[x] # NoRow
                           /\ leases'[x].id = leases[x].id
                           /\ leases'[x].mac = leases[x].mac
        BY <1>1, <1>3, DeleteRows DEF Delete
    <2>3. QED
        BY <1>1, <2>1, <2>2, Busy, OtherStep
<1>4. QED
    BY <1>2, <1>3

LEMMA RecycleStep == ASSUME IInv, NEW c \in Conn, Recycle(c) PROVE IInv'
<1>1. TypeOK'
    BY ClosedTyped DEF Recycle, IInv, TypeOK
<1>2. QED
    BY <1>1, Busy, OtherStep DEF Recycle, TypeOK, Tables

LEMMA CrashStep == ASSUME IInv, NEW s \in Fails, Crash(s) PROVE IInv'
<1> DEFINE Dead == {p \in Handler : ServerOf[p] = s}
<1>1. /\ pc' = [p \in Handler |-> IF p \in Dead THEN "idle" ELSE pc[p]]
      /\ req' = [p \in Handler |-> IF p \in Dead THEN NoReq ELSE req[p]]
      /\ job' = [p \in Handler |-> IF p \in Dead THEN NoJob ELSE job[p]]
      /\ held' \in [Conn -> [Key -> Nat]]
      /\ UNCHANGED <<leases, offer, bound>> /\ sweeping' \subseteq Server
    BY ClosedTyped DEF Crash, IInv, TypeOK
<1> HIDE DEF Dead
<1>2. TypeOK'
    BY <1>1, NoJobTyped DEF IInv, TypeOK, Stage
<1>3. QED
    BY <1>1, <1>2, Busy, OtherStep DEF TypeOK, Tables

LEMMA TickStep == ASSUME IInv, Tick PROVE IInv'
<1> DEFINE Aged(b) == IF b = NoBinding \/ b.ttl = 1 THEN NoBinding
                      ELSE [b EXCEPT !.ttl = @ - 1]
<1>1. ASSUME NEW b \in Binding \cup {NoBinding}
      PROVE  Aged(b) \in Binding \cup {NoBinding}
    <2>1. CASE b \in Binding /\ b.ttl # 1
        BY <2>1, StoreAssumption DEF Binding
    <2>2. CASE b = NoBinding \/ b.ttl = 1
        BY <2>2
    <2>3. QED
        BY <2>1, <2>2
<1>2. /\ offer' = [m \in MAC |-> Aged(offer[m])]
      /\ bound' = [m \in MAC |-> Aged(bound[m])]
    BY DEF Tick
<1> HIDE DEF Aged
<1>3. ASSUME NEW q \in Handler
      PROVE  \/ req[q] = NoReq /\ req'[q] = NoReq
             \/ /\ req[q] \in Packet /\ req'[q] \in Packet
                /\ req'[q].type = req[q].type /\ req'[q].mac = req[q].mac
                /\ req'[q].ip = req[q].ip
    <2>1. CASE req[q] = NoReq
        BY <2>1 DEF Tick
    <2>2. CASE req[q] # NoReq
        <3>1. req[q] \in Packet /\ req[q].age \in 0 .. MaxFlight /\ req[q].age < MaxFlight
            BY <2>2 DEF Tick, IInv, TypeOK, Packet
        <3>2. req[q].age + 1 \in 0 .. MaxFlight
            BY <3>1, DhcpAssumption
        <3>3. req'[q] = [req[q] EXCEPT !.age = @ + 1]
            BY <2>2 DEF Tick
        <3>4. QED
            BY <3>1, <3>2, <3>3 DEF Packet
    <2>3. QED
        BY <2>1, <2>2
<1>4. TypeOK'
    <2>1. req' \in [Handler -> Packet \cup {NoReq}]
        BY <1>3 DEF Tick
    <2>2. /\ offer' \in [MAC -> Binding \cup {NoBinding}]
          /\ bound' \in [MAC -> Binding \cup {NoBinding}]
        BY <1>1, <1>2 DEF IInv, TypeOK
    <2>3. leases' \in Tables
        BY LaterTyped DEF Tick, IInv, TypeOK
    <2>4. QED
        BY <2>1, <2>2, <2>3 DEF Tick, IInv, TypeOK
<1>5. \A x \in IP : \/ leases'[x] = NoRow
                    \/ /\ leases[x] # NoRow
                       /\ leases'[x].id = leases[x].id
                       /\ leases'[x].mac = leases[x].mac
    BY LaterRows DEF Tick, IInv, TypeOK
<1>6. ASSUME NEW q \in Handler
      PROVE  \/ pc'[q] = "idle"
             \/ /\ pc'[q] = pc[q] /\ job'[q] = job[q]
                /\ req'[q] \in Packet
                /\ req'[q].type = req[q].type /\ req'[q].mac = req[q].mac
                /\ req'[q].ip = req[q].ip
    <2>1. CASE pc[q] = "idle"
        BY <2>1 DEF Tick
    <2>2. CASE pc[q] # "idle"
        <3>1. req[q] \in Packet
            BY <2>2, Busy
        <3>2. req'[q] \in Packet /\ req'[q].type = req[q].type
              /\ req'[q].mac = req[q].mac /\ req'[q].ip = req[q].ip
            BY <1>3, <3>1
        <3>3. QED
            BY <3>2 DEF Tick
    <2>3. QED
        BY <2>1, <2>2
<1>7. QED
    BY <1>4, <1>5, <1>6, OtherStep

LEMMA IInvStep == IInv /\ [Next]_vars => IInv'
<1> SUFFICES ASSUME IInv, [Next]_vars PROVE IInv'
    OBVIOUS
<1>1. CASE UNCHANGED vars
    <2>1. TypeOK'
        BY <1>1 DEF vars, IInv, TypeOK
    <2>2. QED
        BY <1>1, <2>1, Busy, OtherStep DEF vars, TypeOK, Tables
<1>2. QED
    BY <1>1, ClientStep, HandleStep, QueryFailsStep, WorkerStep, CrashStep,
       RecycleStep, TickStep, DhcpAssumption DEF Next

(* Whatever other handlers, servers and workers do between its statements, *)
(* a handler has at each stage what the stage reads, and an id it is about *)
(* to renew is that of a row of its client, or of none                     *)
(* (dhcp/handler.go:21-376, dhcp/allocator.go:67-488).                     *)
THEOREM InvariantHolds == Spec => []IInv
BY InitIInv, IInvStep, PTL DEF Spec

(* Every variable keeps its type: the table holds one well-formed row per  *)
(* address, and handlers and clients are where the code can bring them     *)
(* (dhcp/handler.go:21-376, dhcp/allocator.go:67-488).                     *)
THEOREM TypeCorrect == Spec => []TypeOK
<1>1. IInv => TypeOK
    BY DEF IInv
<1>2. QED
    BY <1>1, InvariantHolds, PTL
-----------------------------------------------------------------------------
(***************************************************************************)
(* The table implements Assignment.                                        *)
(***************************************************************************)
LEMMA InitMaps == Init => A!Init
BY DEF Init, A!Init, Owner, InForce, Rows

(* INSERT: a new assignment.                                               *)
LEMMA CreateMaps ==
    ASSUME NEW t \in Tables, NEW ip \in IP, NEW id \in RowId, NEW mac \in MAC,
           t[ip] = NoRow
    PROVE  LET u == CreateLease(t, ip, id, mac)
           IN  /\ Owner(t)[ip] = NoRow
               /\ Owner(u) = [Owner(t) EXCEPT ![ip] = mac]
               /\ InForce(u) = InForce(t) \cup {ip}
<1> DEFINE u == CreateLease(t, ip, id, mac)
<1>1. /\ u[ip] # NoRow /\ u[ip].mac = mac /\ u[ip].state = "active"
      /\ u[ip].ttl = LeaseTime
      /\ \A x \in IP \ {ip} : u[x] = t[x]
    BY CreateRows
<1>2. u[ip].ttl > 0
    BY <1>1, StoreAssumption
<1> HIDE DEF u
<1>3. Owner(u) = [Owner(t) EXCEPT ![ip] = mac]
    BY <1>1 DEF Owner
<1>4. InForce(u) = InForce(t) \cup {ip}
    BY <1>1, <1>2 DEF InForce, Rows, IsActive
<1>5. QED
    BY <1>3, <1>4 DEF Owner, u

(* UPDATE by id: at most one assignment is extended.                       *)
LEMMA RenewMaps ==
    ASSUME NEW t \in Tables, NEW id,
           \A x, y \in Rows(t) : t[x].id = t[y].id => x = y
    PROVE  LET u == RenewLease(t, id)
           IN  /\ Owner(u) = Owner(t)
               /\ \/ InForce(u) = InForce(t)
                  \/ \E x \in IP : /\ Owner(t)[x] # NoRow
                                   /\ InForce(u) = InForce(t) \cup {x}
<1> DEFINE u == RenewLease(t, id)
<1>1. \A x \in IP : /\ u[x] = NoRow <=> t[x] = NoRow
                    /\ t[x] # NoRow => u[x].mac = t[x].mac
                    /\ t[x] # NoRow /\ t[x].id = id =>
                          u[x].state = "active" /\ u[x].ttl = LeaseTime
                    /\ ~(t[x] # NoRow /\ t[x].id = id) => u[x] = t[x]
    BY RenewRows
<1> HIDE DEF u
<1>2. Owner(u) = Owner(t)
    BY <1>1 DEF Owner
<1>3. CASE \A x \in Rows(t) : t[x].id # id
    <2>1. InForce(u) = InForce(t)
        BY <1>1, <1>3 DEF InForce, Rows
    <2>2. QED
        BY <1>2, <2>1 DEF u
<1>4. ASSUME NEW x \in Rows(t), t[x].id = id
      PROVE  /\ Owner(t)[x] # NoRow
             /\ InForce(u) = InForce(t) \cup {x}
    <2>1. x \in IP /\ t[x] \in Lease /\ t[x] # NoRow
        BY RowsOf DEF Rows
    <2>2. Owner(t)[x] # NoRow
        BY <2>1, NoRowAssumption DEF Owner, Lease
    <2>3. u[x] # NoRow /\ IsActive(u[x])
        BY <1>1, <1>4, <2>1, StoreAssumption DEF IsActive
    <2>4. \A y \in IP \ {x} : u[y] = t[y]
        BY <1>1, <1>4 DEF Rows
    <2>5. QED
        BY <2>1, <2>2, <2>3, <2>4 DEF InForce, Rows
<1>5. QED
    BY <1>2, <1>3, <1>4 DEF u, Rows

(* UPDATE of the state, and the passing of time: assignments end.          *)
LEMMA EndMaps ==
    ASSUME NEW t \in Tables, NEW u,
           \A x \in IP : /\ u[x] = NoRow <=> t[x] = NoRow
                         /\ t[x] # NoRow => u[x].mac = t[x].mac
                         /\ t[x] # NoRow /\ IsActive(u[x]) => IsActive(t[x])
    PROVE  /\ Owner(u) = Owner(t)
           /\ \E S \in SUBSET IP : InForce(u) = InForce(t) \ S
<1>1. Owner(u) = Owner(t)
    BY DEF Owner
<1>2. InForce(u) \subseteq InForce(t)
    BY DEF InForce, Rows
<1>3. InForce(u) = InForce(t) \ (InForce(t) \ InForce(u))
    BY <1>2
<1>4. InForce(t) \ InForce(u) \in SUBSET IP
    BY DEF InForce, Rows
<1>5. QED
    BY <1>1, <1>3, <1>4

(* DELETE: assignments not in force are forgotten.                         *)
LEMMA DeleteMaps ==
    ASSUME NEW t \in Tables
    PROVE  LET u == DeleteOldLeases(t)
               S == {x \in IP : u[x] = NoRow}
           IN  /\ S \cap InForce(t) = {}
               /\ Owner(u) = [x \in IP |-> IF x \in S THEN NoRow ELSE Owner(t)[x]]
               /\ InForce(u) = InForce(t)
<1> DEFINE u == DeleteOldLeases(t)
<1>1. \A x \in IP : \/ u[x] = t[x]
                    \/ u[x] = NoRow /\ t[x] # NoRow /\ ~IsActive(t[x])
    BY DeleteRows
<1> HIDE DEF u
<1> DEFINE S == {x \in IP : u[x] = NoRow}
<1>2. S \cap InForce(t) = {}
    BY <1>1 DEF InForce, Rows
<1>3. Owner(u) = [x \in IP |-> IF x \in S THEN NoRow ELSE Owner(t)[x]]
    BY <1>1 DEF Owner
<1>4. InForce(u) = InForce(t)
    BY <1>1 DEF InForce, Rows
<1>5. QED
    BY <1>2, <1>3, <1>4 DEF u

LEMMA WrittenMaps ==
    ASSUME IInv, NEW p \in Handler, pc[p] = "write", Written(p)
    PROVE  A!Next \/ UNCHANGED A!vars
<1>1. leases \in Tables /\ Ready(pc[p], req[p], job[p])
    BY DEF IInv, TypeOK
<1>2. CASE job[p].fn \in {"claim", "search"}
    <2>1. PICK id \in UnusedIds : leases' = CreateLease(leases, job[p].ip, id, req[p].mac)
        BY <1>2 DEF Written
    <2>2. /\ job[p].ip \in IP /\ req[p].mac \in MAC /\ id \in RowId
          /\ leases[job[p].ip] = NoRow
          /\ ~ReservedForOther(req[p].mac, job[p].ip)
        BY <1>1, <1>2 DEF Written, Ready, Packet, UnusedIds, CanCreate
    <2>3. A!Assign(req[p].mac, job[p].ip)
        BY <1>1, <2>1, <2>2, CreateMaps DEF A!Assign, ReservedForOther
    <2>4. QED
        BY <2>2, <2>3 DEF A!Next
<1>3. CASE job[p].fn = "renew"
    <2>1. leases' = RenewLease(leases, job[p].id)
        BY <1>3 DEF Written
    <2>2. \A x, y \in Rows(leases) : leases[x].id = leases[y].id => x = y
        BY DEF IInv, UniqueIds
    <2>3. /\ Owner(leases') = Owner(leases)
          /\ \/ InForce(leases') = InForce(leases)
             \/ \E x \in IP : /\ Owner(leases)[x] # NoRow
                              /\ InForce(leases') = InForce(leases) \cup {x}
        BY <1>1, <2>1, <2>2, RenewMaps
    <2>4. CASE InForce(leases') = InForce(leases)
        BY <2>3, <2>4 DEF A!vars
    <2>5. ASSUME NEW x \in IP, Owner(leases)[x] # NoRow,
                 InForce(leases') = InForce(leases) \cup {x}
          PROVE  A!Next
        BY <2>3, <2>5 DEF A!Next, A!Extend
    <2>6. QED
        BY <2>3, <2>4, <2>5
<1>4. QED
    BY <1>2, <1>3 DEF Written

LEMMA EndsMap ==
    ASSUME IInv,
           \A x \in IP : /\ leases'[x] = NoRow <=> leases[x] = NoRow
                         /\ leases[x] # NoRow => leases'[x].mac = leases[x].mac
                         /\ leases[x] # NoRow /\ IsActive(leases'[x]) => IsActive(leases[x])
    PROVE  A!Next
<1>1. leases \in Tables
    BY DEF IInv, TypeOK
<1>2. /\ Owner(leases') = Owner(leases)
      /\ \E S \in SUBSET IP : InForce(leases') = InForce(leases) \ S
    BY <1>1, EndMaps
<1>3. QED
    BY <1>2 DEF A!Next, A!End

LEMMA StepMaps == IInv /\ [Next]_vars => [A!Next]_(A!vars)
<1> SUFFICES ASSUME IInv, [Next]_vars PROVE A!Next \/ UNCHANGED A!vars
    OBVIOUS
<1>1. leases \in Tables
    BY DEF IInv, TypeOK
<1>2. CASE UNCHANGED leases
    BY <1>2 DEF A!vars
<1>3. ASSUME NEW p \in Handler, pc[p] = "write", Written(p)
      PROVE  A!Next \/ UNCHANGED A!vars
    BY <1>3, WrittenMaps
<1>4. ASSUME NEW p \in Handler, Update(p) PROVE A!Next \/ UNCHANGED A!vars
    <2>1. PICK state \in {"released", "declined"} :
             leases' = SetState(leases, req[p].ip, state)
        BY <1>4 DEF Update, ReleaseLease, DeclineLease
    <2>2. CASE req[p].ip \in IP
        <3>1. \A x \in IP :
                 /\ leases'[x] = NoRow <=> leases[x] = NoRow
                 /\ leases[x] # NoRow => leases'[x].mac = leases[x].mac
                 /\ x # req[p].ip => leases'[x] = leases[x]
            BY <1>1, <2>1, <2>2, SetStateRows, Bounds
        <3>2. leases[req[p].ip] # NoRow => leases'[req[p].ip].state # "active"
            BY <1>1, <2>1, <2>2, SetStateRows, Bounds
        <3>3. \A x \in IP : leases[x] # NoRow /\ IsActive(leases'[x]) => IsActive(leases[x])
            BY <3>1, <3>2 DEF IsActive
        <3>4. QED
            BY <3>1, <3>3, EndsMap
    <2>3. CASE req[p].ip \notin IP
        BY <1>1, <1>2, <2>1, <2>3 DEF SetState, Tables
    <2>4. QED
        BY <2>2, <2>3
<1>5. ASSUME NEW s \in Worker, Expire(s) PROVE A!Next \/ UNCHANGED A!vars
    <2>1. leases' = ExpireLeases(leases)
        BY <1>5 DEF Expire
    <2>2. QED
        BY <1>1, <2>1, ExpireRows, EndsMap
<1>6. ASSUME NEW s \in Worker, Delete(s) PROVE A!Next \/ UNCHANGED A!vars
    <2> DEFINE S == {x \in IP : leases'[x] = NoRow}
    <2>1. leases' = DeleteOldLeases(leases)
        BY <1>6 DEF Delete
    <2>2. A!Forget(S)
        BY <1>1, <2>1, DeleteMaps DEF A!Forget
    <2>3. QED
        BY <2>2 DEF A!Next
<1>7. CASE Tick
    <2>1. leases' = Later(leases)
        BY <1>7 DEF Tick
    <2>2. QED
        BY <1>1, <2>1, LaterRows, EndsMap
<1>8. ASSUME NEW p \in Handler, Handle(p) PROVE A!Next \/ UNCHANGED A!vars
    BY <1>2, <1>3, <1>4, <1>8
    DEF Handle, NothingRequested, LookupRequested, LookupClient, ListExpired,
        Lock, Check, Write, Unlock, Reply
<1>9. ASSUME NEW p \in Handler, NEW c \in Conn, QueryFails(p, c)
      PROVE  A!Next \/ UNCHANGED A!vars
    BY <1>2, <1>3, <1>9 DEF QueryFails
<1>10. ASSUME NEW m \in MAC, Client(m) PROVE A!Next \/ UNCHANGED A!vars
    BY <1>2, <1>10 DEF Client, Discover, Request, GiveUp, Send
<1>11. QED
    BY <1>2, <1>5, <1>6, <1>7, <1>8, <1>9, <1>10, DhcpAssumption
    DEF Next, vars, Crash, Recycle

(* The leases table implements Assignment for any number of servers,       *)
(* packets and failures: an address in force never changes clients, one    *)
(* changes clients only after its row is deleted, and none goes to a       *)
(* client while it is reserved for another (dhcp/allocator.go:122-464).    *)
THEOREM ImplementsAssignment == Spec => Implements
BY InitMaps, InitIInv, IInvStep, StepMaps, PTL DEF Spec, Implements, A!Spec
-----------------------------------------------------------------------------
(***************************************************************************)
(* Renewals.                                                               *)
(***************************************************************************)
(* A handler's step moves no other handler.                                *)
LEMMA NextPoolElsewhere ==
    ASSUME TypeOK, NEW q \in Handler, NEW p \in Handler \ {q}, NextPool(q) \/ Stop(q)
    PROVE  pc'[p] = pc[p] /\ req'[p] = req[p] /\ job'[p] = job[p]
BY DEF TypeOK, NextPool, Stop, Goto, Set

LEMMA ReturnElsewhere ==
    ASSUME TypeOK, NEW q \in Handler, NEW p \in Handler \ {q}, NEW j, Return(q, j)
    PROVE  pc'[p] = pc[p] /\ req'[p] = req[p] /\ job'[p] = job[p]
<1>1. CASE j.ok
    BY <1>1 DEF Return, TypeOK, Goto, Set
<1>2. CASE ~j.ok /\ j.fn = "claim"
    BY <1>2 DEF Return, TypeOK, Goto, Set
<1>3. CASE ~j.ok /\ j.fn = "search"
    BY <1>3, NextPoolElsewhere DEF Return, TypeOK, Goto, Set
<1>4. CASE ~j.ok /\ j.fn \notin {"claim", "search"}
    BY <1>4, NextPoolElsewhere DEF Return
<1>5. QED
    BY <1>1, <1>2, <1>3, <1>4

LEMMA Elsewhere ==
    ASSUME TypeOK, NEW q \in Handler, NEW p \in Handler \ {q},
           Handle(q) \/ \E c \in Conn : QueryFails(q, c)
    PROVE  pc'[p] = pc[p] /\ req'[p] = req[p] /\ job'[p] = job[p]
<1>a. ASSUME NEW stage, Goto(q, stage) PROVE pc'[p] = pc[p]
    BY <1>a DEF Goto, TypeOK
<1>b. ASSUME NEW j, Set(q, j) PROVE job'[p] = job[p]
    BY <1>b DEF Set, TypeOK
<1>1. CASE NothingRequested(q) \/ LookupRequested(q) \/ LookupClient(q) \/ ListExpired(q)
    BY <1>a, <1>b, <1>1 DEF NothingRequested, LookupRequested, LookupClient, ListExpired
<1>2. CASE Check(q) \/ Write(q)
    BY <1>a, <1>b, <1>2 DEF Check, Write
<1>3. CASE Update(q) \/ Reply(q)
    BY <1>3, NextPoolElsewhere DEF Update, Reply
<1>4. ASSUME NEW c \in Conn, Lock(q, c) \/ Unlock(q, c)
      PROVE  pc'[p] = pc[p] /\ req'[p] = req[p] /\ job'[p] = job[p]
    BY <1>a, <1>b, <1>4, ReturnElsewhere DEF Lock, Unlock
<1>5. ASSUME NEW c \in Conn, QueryFails(q, c)
      PROVE  pc'[p] = pc[p] /\ req'[p] = req[p] /\ job'[p] = job[p]
    BY <1>a, <1>b, <1>5, ReturnElsewhere, NextPoolElsewhere DEF QueryFails
<1>6. QED
    BY <1>1, <1>2, <1>3, <1>4, <1>5 DEF Handle

LEMMA RenewalStep ==
    ASSUME IInv, [Next]_vars, NEW p \in Handler,
           pc[p] = "write", job[p].fn = "renew", pc'[p] = "unlock",
           NEW ip \in Rows(leases), leases'[ip] # leases[ip]
    PROVE  leases[ip].mac = req[p].mac
<1>1. leases \in Tables /\ ip \in IP
    BY DEF IInv, TypeOK, Rows
<1>2. ASSUME NEW m \in MAC, Client(m) PROVE pc'[p] = pc[p]
    BY <1>2 DEF Client, Discover, Request, GiveUp, Send, Idle
<1>3. CASE \E q \in Handler : Handle(q) \/ \E c \in Conn : QueryFails(q, c)
    <2>1. Handle(p) \/ \E c \in Conn : QueryFails(p, c)
        BY <1>3, Elsewhere DEF IInv
    <2>2. Written(p)
        BY <2>1 DEF Handle, NothingRequested, LookupRequested, LookupClient,
                    ListExpired, Lock, Check, Write, Unlock, Update, Reply, QueryFails
    <2>3. leases' = RenewLease(leases, job[p].id)
        BY <2>2 DEF Written
    <2>4. leases[ip].id = job[p].id
        BY <1>1, <2>3, RenewRows
    <2>5. QED
        BY <2>4 DEF IInv, Owns
<1>4. CASE UNCHANGED vars
    BY <1>4 DEF vars
<1>5. CASE \E s \in Fails : Crash(s)
    BY <1>5 DEF Crash
<1>6. QED
    BY <1>2, <1>3, <1>4, <1>5, DhcpAssumption DEF Next, Expire, Delete, Recycle, Tick

(* A renewal never changes a row of another client, although the row may   *)
(* be deleted and its address given away after the id was read             *)
(* (dhcp/allocator.go:434-464).                                            *)
THEOREM RenewalsSafe == Spec => RenewsOwnRow
<1>1. IInv /\ [Next]_vars =>
         [\A p \in Handler :
            pc[p] = "write" /\ job[p].fn = "renew" /\ pc'[p] = "unlock"
            => \A ip \in Rows(leases) :
                  leases'[ip] # leases[ip] => leases[ip].mac = req[p].mac]_vars
    BY RenewalStep
<1>2. QED
    BY <1>1, InitIInv, IInvStep, PTL DEF Spec, RenewsOwnRow

=============================================================================
