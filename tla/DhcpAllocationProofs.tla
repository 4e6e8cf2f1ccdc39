------------------------ MODULE DhcpAllocationProofs ------------------------
(***************************************************************************)
(* What the allocator keeps while no row is deleted, for every number of   *)
(* servers, packets, clients, addresses and pools: an allocated lease is   *)
(* the client's own; a client is turned away by a server without failures  *)
(* only when no address is left; and every address in use has a row of its *)
(* user, whatever address clients ask for, unless the server acknowledged  *)
(* another address than that of the lease.                                 *)
(***************************************************************************)
EXTENDS DhcpProofs

(***************************************************************************)
(* Rows stay.                                                              *)
(***************************************************************************)
Stays == \A x \in Rows(leases) : /\ leases'[x] # NoRow
                                 /\ leases'[x].mac = leases[x].mac

LEMMA WrittenStays ==
    ASSUME IInv, NEW p \in Handler, pc[p] = "write", Written(p) PROVE Stays
<1>1. leases \in Tables /\ Ready(pc[p], req[p], job[p])
    BY DEF IInv, TypeOK
<1>2. ASSUME NEW id \in UnusedIds, job[p].fn \in {"claim", "search"},
             CanCreate(leases, job[p].ip),
             leases' = CreateLease(leases, job[p].ip, id, req[p].mac)
      PROVE  Stays
    <2>1. job[p].ip \in IP /\ req[p].mac \in MAC /\ id \in RowId
        BY <1>1, <1>2 DEF Ready, Packet, UnusedIds
    <2>2. \A x \in IP \ {job[p].ip} : leases'[x] = leases[x]
        BY <1>1, <1>2, <2>1, CreateRows
    <2>3. QED
        BY <1>2, <2>2 DEF Stays, Rows, CanCreate
<1>3. CASE leases' = RenewLease(leases, job[p].id)
    BY <1>1, <1>3, RenewRows DEF Stays, Rows
<1>4. QED
    BY <1>2, <1>3 DEF Written

LEMMA UpdateStays ==
    ASSUME IInv, NEW p \in Handler, Update(p) PROVE Stays
<1>1. leases \in Tables
    BY DEF IInv, TypeOK
<1>2. PICK state \in {"released", "declined"} :
         leases' = SetState(leases, req[p].ip, state)
    BY DEF Update, ReleaseLease, DeclineLease
<1>3. CASE req[p].ip \in IP
    BY <1>1, <1>2, <1>3, SetStateRows, Bounds DEF Stays, Rows
<1>4. CASE req[p].ip \notin IP
    BY <1>1, <1>2, <1>4 DEF SetState, Tables, Stays, Rows
<1>5. QED
    BY <1>3, <1>4

(* Without deletions no worker is ever about to delete, and every          *)
(* statement and the passing of time leave each row to its client.         *)
LEMMA RowsStay ==
    ASSUME ~Deletes, IInv, sweeping = {}, [Next]_vars
    PROVE  Stays /\ sweeping' = {}
<1>0. leases \in Tables
    BY DEF IInv, TypeOK
<1>1. ASSUME UNCHANGED leases PROVE Stays
    BY <1>1 DEF Stays, Rows
<1>2. ASSUME NEW m \in MAC, Client(m) PROVE Stays /\ sweeping' = {}
    BY <1>1, <1>2 DEF Client, Discover, Request, GiveUp, Send
<1>3. ASSUME NEW p \in Handler, Handle(p) PROVE Stays /\ sweeping' = {}
    BY <1>1, <1>3, WrittenStays, UpdateStays
    DEF Handle, NothingRequested, LookupRequested, LookupClient, ListExpired,
        Lock, Check, Write, Unlock, Update, Reply, OfServer
<1>4. ASSUME NEW p \in Handler, NEW c \in Conn, QueryFails(p, c)
      PROVE  Stays /\ sweeping' = {}
    BY <1>1, <1>4, WrittenStays DEF QueryFails, OfServer
<1>5. ASSUME NEW s \in Worker, Expire(s) PROVE Stays /\ sweeping' = {}
    BY <1>0, <1>5, ExpireRows DEF Expire, Stays, Rows
<1>6. CASE Tick
    BY <1>0, <1>6, LaterRows DEF Tick, Stays, Rows
<1>7. QED
    BY <1>1, <1>2, <1>3, <1>4, <1>5, <1>6, DhcpAssumption DEF Next, vars, Delete, Crash, Recycle

LEMMA HasRowStays ==
    ASSUME Stays, NEW ip, NEW m, HasRow(ip, m)
    PROVE  ip \in IP /\ ip \in Rows(leases') /\ leases'[ip].mac = m
BY DEF Stays, HasRow, Rows

LEMMA FullStays ==
    ASSUME Stays, NEW m, NEW ip, Full(m, ip)
    PROVE  ip \in Rows(leases') \/ ReservedForOther(m, ip)
BY DEF Stays, Full, Rows
-----------------------------------------------------------------------------
(***************************************************************************)
(* What the handlers have found.                                           *)
(***************************************************************************)
LEMMA IdleBacked ==
    ASSUME NEW p \in Handler, pc'[p] \in {"idle", "request", "lookup", "update", "nak"}
    PROVE  Backed(pc[p], req[p], job[p])'
BY DEF Backed

LEMMA StopIdle ==
    ASSUME TypeOK, NEW p \in Handler, Stop(p) PROVE pc'[p] = "idle"
BY DEF TypeOK, Stop, Goto

(* A handler that goes to a stage with fresh local variables.              *)
LEMMA FreshJob ==
    /\ NoJob.ok = FALSE /\ NoJob.fn = "none" /\ NoJob.queue = <<>>
    /\ NoJob \in Job
    /\ \A i : Search(i).ok = FALSE /\ Search(i).fn = "search"
BY NoJobTyped DEF NoJob, Search

LEMMA NextPoolBacked ==
    ASSUME TypeOK, NEW p \in Handler, NextPool(p)
    PROVE  Backed(pc[p], req[p], job[p])'
<1>1. CASE job[p].pool < Len(Pools)
    <2>1. pc'[p] = "expired" /\ job'[p] = [NoJob EXCEPT !.pool = job[p].pool + 1]
        BY <1>1 DEF TypeOK, NextPool, Goto, Set
    <2>2. job'[p].ok = FALSE
        BY <2>1 DEF NoJob
    <2>3. QED
        BY <2>1, <2>2 DEF Backed
<1>2. CASE ~(job[p].pool < Len(Pools))
    BY <1>2, StopIdle, IdleBacked DEF NextPool
<1>3. QED
    BY <1>1, <1>2

LEMMA RestBacked ==
    ASSUME NEW q \in Seq(IP), q # <<>>,
           \A i \in 1 .. Len(q) : q[i] \in Rows(leases)
    PROVE  \A i \in 1 .. Len(Tail(q)) : Tail(q)[i] \in Rows(leases)
<1>1. Len(Tail(q)) = Len(q) - 1 /\ Len(q) \in Nat
    BY HeadTailProperties, LenProperties
<1>2. \A i \in 1 .. Len(Tail(q)) : Tail(q)[i] = q[i + 1] /\ i + 1 \in 1 .. Len(q)
    BY <1>1, HeadTailProperties
<1>3. QED
    BY <1>2

(* WithAdvisoryLock has returned to the allocator.                         *)
LEMMA ReturnBacked ==
    ASSUME IInv, Stays, UNCHANGED leases, NEW p \in Handler,
           pc[p] \in {"lock", "unlock"}, NEW ip,
           NEW j, j = [job[p] EXCEPT !.ip = ip],
           Backed(pc[p], req[p], j), Return(p, j)
    PROVE  Backed(pc[p], req[p], job[p])'
<1>1. /\ job[p] \in Job /\ Ready(pc[p], req[p], job[p])
      /\ pc \in [Handler -> Stage] /\ job \in [Handler -> Job]
    BY DEF IInv, TypeOK
<1>2. /\ j.ip = ip /\ j.fn = job[p].fn
      /\ j.queue = job[p].queue /\ j.ok = job[p].ok
    BY <1>1 DEF Job
<1>3. CASE j.ok
    <2>1. j.fn # "claim" /\ HasRow(j.ip, req[p].mac)
        BY <1>3 DEF Backed
    <2>2. /\ pc'[p] = "reply" /\ req' = req
          /\ job'[p] = [NoJob EXCEPT !.ip = j.ip]
        BY <1>1, <1>3, <2>1 DEF Return, Goto, Set
    <2>3. job'[p].ip = j.ip
        BY <2>2 DEF NoJob
    <2>4. QED
        BY <2>1, <2>2, <2>3 DEF Backed, HasRow
<1>4. CASE ~j.ok /\ j.fn = "claim"
    <2>1. j.queue \in Seq(IP) /\ j.queue # <<>>
        BY <1>1, <1>2, <1>4 DEF Ready, Job
    <2>2. \A i \in 1 .. Len(Tail(j.queue)) : Tail(j.queue)[i] \in Rows(leases)
        BY <1>4, <2>1, RestBacked DEF Backed
    <2>3. /\ pc'[p] = "lock"
          /\ job'[p] = IF Tail(j.queue) = <<>> THEN Search(j.pool)
                       ELSE [j EXCEPT !.queue = Tail(j.queue), !.ip = NoIP]
        BY <1>1, <1>4 DEF Return, Goto, Set
    <2>4. CASE Tail(j.queue) = <<>>
        BY <2>3, <2>4, FreshJob DEF Backed
    <2>5. CASE Tail(j.queue) # <<>>
        <3>1. /\ job'[p].queue = Tail(j.queue) /\ job'[p].ok = j.ok
            BY <1>1, <2>3, <2>5 DEF Job
        <3>2. QED
            BY <1>4, <2>2, <2>3, <3>1 DEF Backed
    <2>6. QED
        BY <2>4, <2>5
<1>5. CASE ~j.ok /\ j.fn = "search"
    <2>1. CASE j.todo \ {j.ip} = {}
        BY <1>1, <1>5, <2>1, NextPoolBacked DEF Return, IInv
    <2>2. CASE j.todo \ {j.ip} # {}
        <3>1. /\ pc'[p] = "lock"
              /\ job'[p] = [j EXCEPT !.todo = j.todo \ {j.ip}, !.ip = NoIP]
            BY <1>1, <1>5, <2>2 DEF Return, Goto, Set
        <3>2. job'[p].fn = j.fn /\ job'[p].ok = j.ok
            BY <1>1, <3>1 DEF Job
        <3>3. QED
            BY <1>5, <3>1, <3>2 DEF Backed
    <2>3. QED
        BY <2>1, <2>2
<1>6. CASE ~j.ok /\ j.fn \notin {"claim", "search"}
    BY <1>6, StopIdle, IdleBacked DEF Return, IInv
<1>7. QED
    BY <1>3, <1>4, <1>5, <1>6

(* The first queries: a renewal and a search start with fresh variables,   *)
(* an active lease of the client is its row, and so is every expired lease *)
(* of the pool a row of somebody's.                                        *)
LEMMA ExpiredRows ==
    ASSUME NEW t \in Tables, NEW pool \in SUBSET IP,
           NEW q \in GetExpiredLeases(t, pool)
    PROVE  \A i \in 1 .. Len(q) : q[i] \in Rows(t)
<1> DEFINE Old == {ip \in Rows(t) \cap pool : t[ip].state \in {"expired", "released"}}
           n == IF Cardinality(Old) <= ClaimLimit THEN Cardinality(Old) ELSE ClaimLimit
<1>1. Old \subseteq Rows(t) /\ Old \subseteq IP
    BY DEF Rows
<1>2. n \in Nat
    BY <1>1, StoreAssumption, FS_Subset, FS_CardinalityType
<1>3. q \in [1 .. n -> Old]
    BY DEF GetExpiredLeases
<1> HIDE DEF Old, n
<1>4. q \in Seq(Old)
    BY <1>2, <1>3, IsASeq
<1>5. QED
    BY <1>1, <1>4, ElementOfSeq

LEMMA LookupsBacked ==
    ASSUME IInv, NEW p \in Handler, Backed(pc[p], req[p], job[p]),
           NothingRequested(p) \/ LookupRequested(p) \/ LookupClient(p) \/ ListExpired(p)
    PROVE  Backed(pc[p], req[p], job[p])'
<1>1. /\ pc \in [Handler -> Stage] /\ job \in [Handler -> Job] /\ leases \in Tables
      /\ Ready(pc[p], req[p], job[p])
    BY DEF IInv, TypeOK
<1>2. CASE NothingRequested(p)
    BY <1>1, <1>2, IdleBacked DEF NothingRequested, Goto
<1>3. CASE LookupRequested(p)
    <2>1. CASE Goto(p, "lookup") \/ Goto(p, "nak")
        BY <1>1, <2>1, IdleBacked DEF Goto
    <2>2. CASE Goto(p, "lock") /\ Set(p, [NoJob EXCEPT !.fn = "renew"])
        <3>1. pc'[p] = "lock" /\ job'[p] = [NoJob EXCEPT !.fn = "renew"]
            BY <1>1, <2>2 DEF Goto, Set
        <3>2. job'[p].ok = FALSE /\ job'[p].fn = "renew"
            BY <3>1 DEF NoJob
        <3>3. QED
            BY <3>1, <3>2 DEF Backed
    <2>3. QED
        BY <1>3, <2>1, <2>2 DEF LookupRequested
<1>4. CASE LookupClient(p)
    <2>1. ASSUME NEW ip \in GetLeaseByMAC(leases, req[p].mac), Goto(p, "reply"),
                 Set(p, [NoJob EXCEPT !.ip = ip])
          PROVE  Backed(pc[p], req[p], job[p])'
        <3>1. pc'[p] = "reply" /\ job'[p] = [NoJob EXCEPT !.ip = ip]
            BY <1>1, <2>1 DEF Goto, Set
        <3>2. job'[p].ip = ip
            BY <3>1 DEF NoJob
        <3>3. HasRow(ip, req[p].mac)
            BY DEF GetLeaseByMAC, HasRow
        <3>4. QED
            BY <1>4, <3>1, <3>2, <3>3 DEF Backed, HasRow, LookupClient
    <2>2. ASSUME Goto(p, "lock"), Set(p, [NoJob EXCEPT !.fn = "reserved"])
          PROVE  Backed(pc[p], req[p], job[p])'
        <3>1. pc'[p] = "lock" /\ job'[p] = [NoJob EXCEPT !.fn = "reserved"]
            BY <1>1, <2>2 DEF Goto, Set
        <3>2. job'[p].ok = FALSE /\ job'[p].fn = "reserved"
            BY <3>1 DEF NoJob
        <3>3. QED
            BY <3>1, <3>2 DEF Backed
    <2>3. ASSUME Goto(p, "expired"), Set(p, [NoJob EXCEPT !.pool = 1])
          PROVE  Backed(pc[p], req[p], job[p])'
        <3>1. pc'[p] = "expired" /\ job'[p] = [NoJob EXCEPT !.pool = 1]
            BY <1>1, <2>3 DEF Goto, Set
        <3>2. job'[p].ok = FALSE
            BY <3>1 DEF NoJob
        <3>3. QED
            BY <3>1, <3>2 DEF Backed
    <2>4. QED
        BY <1>4, <2>1, <2>2, <2>3 DEF LookupClient
<1>5. CASE ListExpired(p)
    <2>1. PICK q \in GetExpiredLeases(leases, Pools[job[p].pool]) :
             IF q = <<>>
             THEN Set(p, Search(job[p].pool))
             ELSE Set(p, [job[p] EXCEPT !.fn = "claim", !.queue = q, !.first = q[1]])
        BY <1>5 DEF ListExpired
    <2>2. pc'[p] = "lock" /\ job[p].ok = FALSE /\ leases' = leases
        BY <1>1, <1>5 DEF ListExpired, Goto, Backed, Job
    <2>3. CASE q = <<>>
        <3>1. job'[p] = Search(job[p].pool)
            BY <1>1, <2>1, <2>3 DEF Set
        <3>2. QED
            BY <2>2, <3>1, FreshJob DEF Backed
    <2>4. CASE q # <<>>
        <3>1. job[p].pool \in 1 .. Len(Pools)
            BY <1>1, <1>5 DEF ListExpired, Ready
        <3>2. \A i \in 1 .. Len(q) : q[i] \in Rows(leases)
            BY <1>1, <3>1, PoolTyped, ExpiredRows
        <3>3. job'[p] = [job[p] EXCEPT !.fn = "claim", !.queue = q, !.first = q[1]]
            BY <1>1, <2>1, <2>4 DEF Set
        <3>4. job'[p].ok = job[p].ok /\ job'[p].queue = q
            BY <1>1, <3>3 DEF Job
        <3>5. QED
            BY <2>2, <3>2, <3>4 DEF Backed
    <2>5. QED
        BY <2>3, <2>4
<1>6. QED
    BY <1>2, <1>3, <1>4, <1>5

(* Under the lock.                                                         *)
LEMMA LockBacked ==
    ASSUME IInv, NEW p \in Handler, NEW c \in Conn, Lock(p, c),
           Backed(pc[p], req[p], job[p])
    PROVE  Backed(pc[p], req[p], job[p])'
<1>1. /\ job[p] \in Job /\ job \in [Handler -> Job] /\ pc \in [Handler -> Stage]
      /\ Ready(pc[p], req[p], job[p])
    BY DEF IInv, TypeOK
<1>2. PICK ip \in Targets(p) : Set(p, [job[p] EXCEPT !.ip = ip])
    BY DEF Lock
<1>3. pc[p] = "lock" /\ pc'[p] = "check" /\ UNCHANGED <<leases, req>>
    BY <1>1 DEF Lock, Goto
<1>4. /\ job'[p].ip = ip /\ job'[p].fn = job[p].fn /\ job'[p].ok = job[p].ok
      /\ job'[p].queue = job[p].queue
    BY <1>1, <1>2 DEF Set, Job
<1>5. ASSUME job[p].fn = "claim" PROVE ip \in Rows(leases)
    <2>1. ip = job[p].queue[1]
        BY <1>5 DEF Targets
    <2>2. job[p].queue \in Seq(IP) /\ job[p].queue # <<>>
        BY <1>1, <1>3, <1>5 DEF Ready, Job
    <2>3. 1 \in 1 .. Len(job[p].queue)
        BY <2>2, EmptySeq, LenProperties
    <2>4. QED
        BY <1>3, <1>5, <2>1, <2>3 DEF Backed
<1>6. QED
    BY <1>3, <1>4, <1>5 DEF Backed

LEMMA CheckBacked ==
    ASSUME IInv, NEW p \in Handler, Check(p), Backed(pc[p], req[p], job[p])
    PROVE  Backed(pc[p], req[p], job[p])'
<1>1. /\ job[p] \in Job /\ job \in [Handler -> Job] /\ pc \in [Handler -> Stage]
      /\ Ready(pc[p], req[p], job[p])
      /\ pc[p] = "check" /\ UNCHANGED <<leases, req>>
    BY DEF IInv, TypeOK, Check
<1>2. CASE ~Passes(p)
    BY <1>1, <1>2 DEF Check, Goto, Backed
<1>3. CASE Passes(p) /\ job[p].fn = "renew"
    <2>1. HasRow(job[p].ip, req[p].mac)
        BY <1>1, <1>3 DEF Passes, HasRow, Rows, Ready
    <2>2. pc'[p] = "write" /\ job'[p] = [job[p] EXCEPT !.id = leases[job[p].ip].id]
        BY <1>1, <1>3 DEF Check, Goto, Set
    <2>3. job'[p].ip = job[p].ip /\ job'[p].fn = job[p].fn /\ job'[p].ok = job[p].ok
        BY <1>1, <2>2 DEF Job
    <2>4. QED
        BY <1>1, <1>3, <2>1, <2>2, <2>3 DEF Backed, HasRow
<1>4. CASE Passes(p) /\ job[p].fn # "renew"
    BY <1>1, <1>4 DEF Check, Goto, Backed
<1>5. QED
    BY <1>2, <1>3, <1>4

(* An expired lease has its row, so only a search inserts one.             *)
LEMMA WriteBacked ==
    ASSUME IInv, Stays, NEW p \in Handler, Write(p), Backed(pc[p], req[p], job[p])
    PROVE  Backed(pc[p], req[p], job[p])'
<1>1. /\ job[p] \in Job /\ job \in [Handler -> Job] /\ pc \in [Handler -> Stage]
      /\ leases \in Tables /\ Ready(pc[p], req[p], job[p])
      /\ pc[p] = "write" /\ pc'[p] = "unlock" /\ UNCHANGED req
    BY DEF IInv, TypeOK, Write, Goto
<1>2. Rows(leases) \subseteq Rows(leases')
    BY DEF Stays, Rows
<1>3. CASE Written(p) /\ Set(p, [job[p] EXCEPT !.ok = TRUE])
    <2>1. /\ job'[p].ip = job[p].ip /\ job'[p].fn = job[p].fn
        BY <1>1, <1>3 DEF Set, Job
    <2>2. job[p].fn # "claim"
        BY <1>1, <1>3 DEF Written, Backed, CanCreate, Rows
    <2>3. job[p].ip \in Rows(leases') /\ leases'[job[p].ip].mac = req[p].mac
        <3>1. CASE job[p].fn = "search"
            <4>1. PICK id \in UnusedIds :
                     leases' = CreateLease(leases, job[p].ip, id, req[p].mac)
                BY <1>3, <3>1 DEF Written
            <4>2. job[p].ip \in IP /\ req[p].mac \in MAC /\ id \in RowId
                BY <1>1, <3>1 DEF Ready, Packet, UnusedIds
            <4>3. QED
                BY <1>1, <4>1, <4>2, CreateRows DEF Rows
        <3>2. CASE job[p].fn = "renew"
            BY <1>1, <3>2, HasRowStays DEF Backed
        <3>3. QED
            BY <1>3, <2>2, <3>1, <3>2 DEF Written
    <2>4. QED
        BY <1>1, <2>1, <2>2, <2>3 DEF Backed, HasRow
<1>4. CASE UNCHANGED <<leases, job>>
    BY <1>1, <1>2, <1>4 DEF Backed
<1>5. QED
    BY <1>3, <1>4 DEF Write

LEMMA UnlockBacked ==
    ASSUME IInv, Stays, NEW p \in Handler, NEW c \in Conn, Unlock(p, c),
           Backed(pc[p], req[p], job[p])
    PROVE  Backed(pc[p], req[p], job[p])'
<1>1. job[p] = [job[p] EXCEPT !.ip = job[p].ip]
    BY DEF IInv, TypeOK, Job
<1>2. QED
    BY <1>1, ReturnBacked DEF Unlock

LEMMA QueryFailsBacked ==
    ASSUME IInv, Stays, NEW p \in Handler, NEW c \in Conn, QueryFails(p, c),
           Backed(pc[p], req[p], job[p])
    PROVE  Backed(pc[p], req[p], job[p])'
<1>1. /\ job[p] \in Job /\ job \in [Handler -> Job] /\ pc \in [Handler -> Stage]
      /\ leases \in Tables /\ Ready(pc[p], req[p], job[p])
    BY DEF IInv, TypeOK
<1>2. CASE Stop(p)
    BY <1>2, StopIdle, IdleBacked DEF IInv
<1>3. CASE pc[p] = "expired" /\ NextPool(p)
    BY <1>3, NextPoolBacked DEF IInv
<1>4. CASE /\ pc[p] = "lock" /\ UNCHANGED leases
           /\ \E ip \in Targets(p) : Return(p, [job[p] EXCEPT !.ip = ip])
    <2>1. PICK ip \in Targets(p) : Return(p, [job[p] EXCEPT !.ip = ip])
        BY <1>4
    <2> DEFINE j == [job[p] EXCEPT !.ip = ip]
    <2>2. j.ok = job[p].ok /\ j.fn = job[p].fn /\ j.queue = job[p].queue
        BY <1>1 DEF Job
    <2>3. Backed(pc[p], req[p], j)
        BY <1>4, <2>2 DEF Backed
    <2>4. QED
        BY <1>4, <2>1, <2>3, ReturnBacked
<1>5. CASE pc[p] \in {"check", "write"} /\ Goto(p, "unlock") /\ UNCHANGED <<req, job>>
    <2>1. Rows(leases) \subseteq Rows(leases')
        BY DEF Stays, Rows
    <2>2. QED
        BY <1>1, <1>5, <2>1 DEF Goto, Backed
<1>6. CASE pc[p] = "unlock" /\ Return(p, job[p]) /\ UNCHANGED leases
    <2>1. job[p] = [job[p] EXCEPT !.ip = job[p].ip]
        BY <1>1 DEF Job
    <2>2. QED
        BY <1>6, <2>1, ReturnBacked
<1>7. QED
    BY <1>2, <1>3, <1>4, <1>5, <1>6 DEF QueryFails

LEMMA OwnBacked ==
    ASSUME IInv, Stays, NEW p \in Handler, Backed(pc[p], req[p], job[p]),
           Handle(p) \/ \E c \in Conn : QueryFails(p, c)
    PROVE  Backed(pc[p], req[p], job[p])'
<1>1. CASE Update(p) \/ Reply(p)
    BY <1>1, StopIdle, IdleBacked DEF Update, Reply, IInv
<1>2. QED
    BY <1>1, LookupsBacked, LockBacked, CheckBacked, WriteBacked, UnlockBacked,
       QueryFailsBacked DEF Handle
-----------------------------------------------------------------------------
(***************************************************************************)
(* What a step does to a handler's packet.                                 *)
(***************************************************************************)
(* A step that is not p's leaves p where it was with its packet, starts it *)
(* at a new packet, or ends it.                                            *)
Started(p) == pc[p] = "idle" /\ pc'[p] \in {"request", "lookup", "update"}

Listening(p) ==
    /\ pc'[p] = pc[p] /\ job'[p] = job[p]
    /\ pc[p] # "idle" => /\ req'[p].mac = req[p].mac /\ req'[p].ip = req[p].ip
                         /\ req'[p].type = req[p].type

LEMMA SendOthers ==
    ASSUME IInv, NEW S, NEW m, NEW type, NEW ip, NEW p \in Handler,
           NEW stage \in {"request", "lookup", "update"},
           Send(S, type, m, ip, stage)
    PROVE  \/ p \in S /\ Started(p)
           \/ p \notin S /\ Listening(p)
<1>1. pc \in [Handler -> Stage] /\ req \in [Handler -> Packet \cup {NoReq}]
    BY DEF IInv, TypeOK
<1>2. CASE p \in S
    BY <1>1, <1>2 DEF Send, Started, Idle
<1>3. CASE p \notin S
    <2>1. pc'[p] = pc[p] /\ job'[p] = job[p]
        BY <1>3 DEF Send
    <2>2. ASSUME pc[p] # "idle"
          PROVE  /\ req'[p].mac = req[p].mac /\ req'[p].ip = req[p].ip
                 /\ req'[p].type = req[p].type
        <3>1. req[p] \in Packet
            BY <2>2, Busy
        <3>2. req'[p] = req[p] \/ req'[p] = [req[p] EXCEPT !.live = FALSE]
            BY <1>3 DEF Send
        <3>3. QED
            BY <3>1, <3>2 DEF Packet
    <2>3. QED
        BY <1>3, <2>1, <2>2 DEF Listening
<1>4. QED
    BY <1>2, <1>3

LEMMA TickOthers == ASSUME IInv, Tick, NEW p \in Handler PROVE Listening(p)
<1>1. CASE pc[p] = "idle"
    BY <1>1 DEF Tick, Listening
<1>2. CASE pc[p] # "idle"
    <2>1. req[p] \in Packet
        BY <1>2, Busy
    <2>2. req'[p] = req[p] \/ req'[p] = [req[p] EXCEPT !.age = @ + 1]
        BY DEF Tick
    <2>3. QED
        BY <2>1, <2>2 DEF Tick, Listening, Packet
<1>3. QED
    BY <1>1, <1>2

LEMMA CrashOthers ==
    ASSUME NEW s \in Fails, Crash(s), NEW p \in Handler
    PROVE  Listening(p) \/ (ServerOf[p] \in Fails /\ pc'[p] = "idle")
<1>1. CASE ServerOf[p] = s
    BY <1>1 DEF Crash
<1>2. CASE ServerOf[p] # s
    <2>1. pc'[p] = pc[p] /\ job'[p] = job[p] /\ req'[p] = req[p]
        BY <1>2 DEF Crash
    <2>2. QED
        BY <2>1 DEF Listening
<1>3. QED
    BY <1>1, <1>2

LEMMA Others ==
    ASSUME IInv, [Next]_vars, NEW p \in Handler,
           ~Handle(p), ~(\E c \in Conn : QueryFails(p, c))
    PROVE  \/ Started(p)
           \/ Listening(p)
           \/ ServerOf[p] \in Fails /\ pc'[p] = "idle"
<1>1. ASSUME NEW m \in MAC, Client(m) PROVE Started(p) \/ Listening(p)
    BY <1>1, SendOthers DEF Client, Discover, Request, GiveUp
<1>2. ASSUME NEW q \in Handler, Handle(q) \/ \E c \in Conn : QueryFails(q, c)
      PROVE  Listening(p)
    BY <1>2, Elsewhere DEF Listening, IInv
<1>3. CASE UNCHANGED <<pc, req, job>>
    BY <1>3 DEF Listening
<1>4. QED
    BY <1>1, <1>2, <1>3, CrashOthers, TickOthers, DhcpAssumption
    DEF Next, vars, Expire, Delete, Recycle

LEMMA ListeningBacked ==
    ASSUME Stays, NEW p \in Handler, Listening(p), Backed(pc[p], req[p], job[p])
    PROVE  Backed(pc[p], req[p], job[p])'
<1>1. CASE pc[p] = "idle"
    BY <1>1, IdleBacked DEF Listening
<1>2. CASE pc[p] # "idle"
    <2>1. ASSUME HasRow(job[p].ip, req[p].mac) PROVE HasRow(job[p].ip, req[p].mac)'
        BY <1>2, <2>1, HasRowStays DEF HasRow, Listening
    <2>2. Rows(leases) \subseteq Rows(leases)'
        BY DEF Stays, Rows
    <2>3. QED
        BY <1>2, <2>1, <2>2 DEF Listening, Backed
<1>3. QED
    BY <1>1, <1>2

LEMMA HandlersBackedStep ==
    ASSUME ~Deletes, IInv, HandlersBacked, [Next]_vars PROVE HandlersBacked'
<1>1. Stays /\ sweeping' = {}
    BY RowsStay DEF HandlersBacked
<1>2. ASSUME NEW p \in Handler PROVE Backed(pc[p], req[p], job[p])'
    <2>1. Backed(pc[p], req[p], job[p])
        BY DEF HandlersBacked
    <2>2. CASE Handle(p) \/ \E c \in Conn : QueryFails(p, c)
        BY <1>1, <2>1, <2>2, OwnBacked
    <2>3. CASE ~Handle(p) /\ ~(\E c \in Conn : QueryFails(p, c))
        BY <1>1, <2>1, <2>3, Others, ListeningBacked, IdleBacked DEF Started
    <2>4. QED
        BY <2>2, <2>3
<1>3. QED
    BY <1>1, <1>2 DEF HandlersBacked

LEMMA InitHandlersBacked == Init => HandlersBacked
BY DEF Init, HandlersBacked, Backed

LEMMA HandlersAreBacked == ASSUME ~Deletes PROVE Spec => []HandlersBacked
<1>1. IInv /\ HandlersBacked /\ [Next]_vars => HandlersBacked'
    BY HandlersBackedStep
<1>2. QED
    BY <1>1, InitIInv, IInvStep, InitHandlersBacked, PTL DEF Spec

(* While no row is deleted, the lease AllocateIP returns is one of the     *)
(* client, in spite of expiredLeases[0]: a claim never succeeds because    *)
(* the row it would replace is still there (dhcp/allocator.go:63-204).     *)
THEOREM AllocatedLeaseIsOwn == ASSUME ~Deletes PROVE Spec => []AllocatedToClient
<1>1. HandlersBacked => AllocatedToClient
    BY DEF HandlersBacked, Backed, HasRow, AllocatedToClient
<1>2. QED
    BY <1>1, HandlersAreBacked, PTL
-----------------------------------------------------------------------------
(***************************************************************************)
(* What the clients are told.                                              *)
(***************************************************************************)
LEMMA InitClientsBacked == Init => ClientsBacked
BY DEF Init, ClientsBacked

(* Rows stay, so that a client whose offer and address stay, or that gives *)
(* them up, is backed as before.                                           *)
LEMMA ClientsStayBacked ==
    ASSUME Stays, ClientsBacked,
           \A m \in MAC :
               /\ \/ offer'[m] = NoBinding
                  \/ offer[m] # NoBinding /\ offer'[m].ip = offer[m].ip
               /\ \/ bound'[m] = NoBinding
                  \/ /\ bound[m] # NoBinding
                     /\ bound'[m].ip = bound[m].ip /\ bound'[m].own = bound[m].own
    PROVE  ClientsBacked'
<1>1. ASSUME NEW m \in MAC, offer'[m] # NoBinding PROVE HasRow(offer[m].ip, m)'
    <2>1. HasRow(offer[m].ip, m) /\ offer'[m].ip = offer[m].ip
        BY <1>1 DEF ClientsBacked
    <2>2. QED
        BY <2>1, HasRowStays DEF HasRow
<1>2. ASSUME NEW m \in MAC, bound'[m] # NoBinding, bound'[m].own
      PROVE  HasRow(bound[m].ip, m)'
    <2>1. HasRow(bound[m].ip, m) /\ bound'[m].ip = bound[m].ip
        BY <1>2 DEF ClientsBacked
    <2>2. QED
        BY <2>1, HasRowStays DEF HasRow
<1>3. QED
    BY <1>1, <1>2 DEF ClientsBacked

(* Whatever address a client asks for, what it was told stands.            *)
LEMMA ClientClientsBacked ==
    ASSUME IInv, Stays, ClientsBacked, NEW m \in MAC, Client(m)
    PROVE  ClientsBacked'
<1>1. /\ offer \in [MAC -> Binding \cup {NoBinding}]
      /\ bound \in [MAC -> Binding \cup {NoBinding}]
    BY DEF IInv, TypeOK
<1>2. \A n \in MAC : /\ offer'[n] = NoBinding \/ offer'[n] = offer[n]
                     /\ bound'[n] = NoBinding \/ bound'[n] = bound[n]
    BY <1>1 DEF Client, Discover, Request, GiveUp
<1>3. QED
    BY <1>2, ClientsStayBacked

(* An OFFER names the lease the handler found or created; an ACK the       *)
(* address that was asked for, which is the client's when it is that of    *)
(* the lease.                                                              *)
LEMMA ReplyClientsBacked ==
    ASSUME IInv, Stays, HandlersBacked, ClientsBacked, NEW p \in Handler, Reply(p)
    PROVE  ClientsBacked'
<1>1. /\ offer \in [MAC -> Binding \cup {NoBinding}]
      /\ bound \in [MAC -> Binding \cup {NoBinding}]
      /\ Backed(pc[p], req[p], job[p])
    BY DEF IInv, TypeOK, HandlersBacked
<1>2. CASE UNCHANGED <<offer, bound>>
    BY <1>2, ClientsStayBacked
<1>3. CASE Hears(p)
    <2> DEFINE m == req[p].mac
    <2>1. req[p] \in Packet /\ m \in MAC
        BY Busy DEF Reply, Packet
    <2>2. ASSUME NEW n \in MAC \ {m} PROVE offer'[n] = offer[n] /\ bound'[n] = bound[n]
        BY <1>1, <1>3, <2>1, <2>2 DEF Hears
    <2>3. offer'[m] # NoBinding => HasRow(offer'[m].ip, m)
        <3>1. CASE pc[p] = "reply" /\ req[p].type = "discover"
            BY <1>1, <1>3, <2>1, <3>1 DEF Hears, Backed
        <3>2. CASE ~(pc[p] = "reply" /\ req[p].type = "discover")
            BY <1>1, <1>3, <2>1, <3>2 DEF Hears
        <3>3. QED
            BY <3>1, <3>2
    <2>4. bound'[m] # NoBinding /\ bound'[m].own => HasRow(bound'[m].ip, m)
        <3>1. CASE pc[p] = "reply" /\ req[p].type # "discover"
            <4>1. bound'[m].ip = req[p].ip /\ bound'[m].own = (job[p].ip = req[p].ip)
                BY <1>1, <1>3, <2>1, <3>1 DEF Hears
            <4>2. HasRow(job[p].ip, m)
                BY <1>1, <3>1 DEF Backed
            <4>3. QED
                BY <4>1, <4>2
        <3>2. CASE pc[p] = "reply" /\ req[p].type = "discover"
            BY <1>1, <1>3, <2>1, <3>2 DEF Hears, ClientsBacked
        <3>3. CASE pc[p] = "nak"
            BY <1>1, <1>3, <2>1, <3>3 DEF Hears
        <3>4. QED
            BY <3>1, <3>2, <3>3 DEF Reply
    <2>5. \A n \in MAC :
             /\ offer'[n] # NoBinding => HasRow(offer'[n].ip, n)
             /\ bound'[n] # NoBinding /\ bound'[n].own => HasRow(bound'[n].ip, n)
        BY <2>2, <2>3, <2>4 DEF ClientsBacked
    <2>6. QED
        BY <2>5, HasRowStays DEF ClientsBacked, HasRow
<1>4. QED
    BY <1>2, <1>3 DEF Reply

LEMMA TickClientsBacked ==
    ASSUME IInv, Stays, ClientsBacked, Tick PROVE ClientsBacked'
<1> DEFINE Aged(b) == IF b = NoBinding \/ b.ttl = 1 THEN NoBinding
                      ELSE [b EXCEPT !.ttl = @ - 1]
<1>1. ASSUME NEW b \in Binding \cup {NoBinding}
      PROVE  \/ Aged(b) = NoBinding
             \/ b # NoBinding /\ Aged(b).ip = b.ip /\ Aged(b).own = b.own
    BY DEF Binding
<1>2. /\ offer' = [m \in MAC |-> Aged(offer[m])]
      /\ bound' = [m \in MAC |-> Aged(bound[m])]
    BY DEF Tick
<1> HIDE DEF Aged
<1>3. ASSUME NEW m \in MAC
      PROVE  /\ offer'[m] = NoBinding
                \/ (offer[m] # NoBinding /\ offer'[m].ip = offer[m].ip)
             /\ bound'[m] = NoBinding
                \/ (/\ bound[m] # NoBinding
                    /\ bound'[m].ip = bound[m].ip /\ bound'[m].own = bound[m].own)
    <2>1. /\ offer[m] \in Binding \cup {NoBinding}
          /\ bound[m] \in Binding \cup {NoBinding}
        BY DEF IInv, TypeOK
    <2>2. offer'[m] = Aged(offer[m]) /\ bound'[m] = Aged(bound[m])
        BY <1>2
    <2>3. QED
        BY <1>1, <2>1, <2>2
<1>4. QED
    BY <1>3, ClientsStayBacked

LEMMA ClientsBackedStep ==
    ASSUME ~Deletes, IInv, HandlersBacked, ClientsBacked, [Next]_vars
    PROVE  ClientsBacked'
<1>1. Stays
    BY RowsStay DEF HandlersBacked
<1>2. CASE UNCHANGED <<offer, bound>>
    BY <1>1, <1>2, ClientsStayBacked
<1>3. ASSUME NEW m \in MAC, Client(m) PROVE ClientsBacked'
    BY <1>1, <1>3, ClientClientsBacked
<1>4. ASSUME NEW p \in Handler, Reply(p) PROVE ClientsBacked'
    BY <1>1, <1>4, ReplyClientsBacked
<1>5. CASE Tick
    BY <1>1, <1>5, TickClientsBacked
<1>6. ASSUME NEW p \in Handler,
             (Handle(p) /\ ~Reply(p)) \/ \E c \in Conn : QueryFails(p, c)
      PROVE  UNCHANGED <<offer, bound>>
    BY <1>6 DEF Handle, NothingRequested, LookupRequested, LookupClient,
                ListExpired, Lock, Check, Write, Unlock, Update, QueryFails, OfServer
<1>7. ASSUME NEW s, Crash(s) \/ Expire(s) \/ Delete(s) PROVE UNCHANGED <<offer, bound>>
    BY <1>7 DEF Crash, Expire, Delete
<1>8. QED
    BY <1>2, <1>3, <1>4, <1>5, <1>6, <1>7, DhcpAssumption DEF Next, vars, Recycle

LEMMA ClientsAreBacked == ASSUME ~Deletes PROVE Spec => []ClientsBacked
<1>1. IInv /\ HandlersBacked /\ ClientsBacked /\ [Next]_vars
         => HandlersBacked' /\ ClientsBacked'
    BY HandlersBackedStep, ClientsBackedStep
<1>2. QED
    BY <1>1, InitIInv, IInvStep, InitHandlersBacked, InitClientsBacked, PTL DEF Spec

(* While no row is deleted, an address in use has a row of its user,       *)
(* whatever address clients ask for and whatever crashes, lost queries and *)
(* duplicated packets do in between, unless the handler acknowledged       *)
(* another address than that of the lease (dhcp/handler.go:172-302).       *)
THEOREM UsersOwnRows == ASSUME ~Deletes PROVE Spec => []UserOwnsRow
<1>1. ClientsBacked => UserOwnsRow
    BY DEF ClientsBacked, UserOwnsRow, HasRow
<1>2. QED
    BY <1>1, ClientsAreBacked, PTL

(* Then two clients use one address only if one of them was acknowledged   *)
(* another address than that of its lease (RFC 2131,                       *)
(* dhcp/handler.go:172-302).                                               *)
THEOREM NoTwoUsers == ASSUME ~Deletes PROVE Spec => []NoConflict
<1>1. UserOwnsRow => NoConflict
    BY DEF UserOwnsRow, NoConflict
<1>2. QED
    BY <1>1, UsersOwnRows, PTL
-----------------------------------------------------------------------------
(***************************************************************************)
(* What a search has passed over.                                          *)
(***************************************************************************)
LEMMA InitPassedOver == Init => PassedOverFull
BY DEF Init, PassedOverFull, Searched

LEMMA AwaySearched ==
    ASSUME NEW p \in Handler,
           pc'[p] \in {"idle", "request", "lookup", "update", "nak", "reply"}
    PROVE  Searched(pc[p], req[p], job[p])'
BY DEF Searched

LEMMA ListeningSearched ==
    ASSUME Stays, NEW p \in Handler, Listening(p), Searched(pc[p], req[p], job[p])
    PROVE  Searched(pc[p], req[p], job[p])'
<1>1. CASE pc[p] = "idle"
    BY <1>1, AwaySearched DEF Listening
<1>2. CASE pc[p] # "idle"
    <2>1. \A ip : Full(req[p].mac, ip) => Full(req[p].mac, ip)'
        BY <1>2, FullStays DEF Full, Listening, ReservedForOther
    <2>2. QED
        BY <1>2, <2>1 DEF Listening, Searched
<1>3. QED
    BY <1>1, <1>2

(* A pool is entered when every pool before it has been passed over.       *)
LEMMA EnterPool ==
    ASSUME TypeOK, UNCHANGED leases, NEW p \in Handler, NextPool(p),
           job[p].pool \in Nat,
           \A i \in 1 .. job[p].pool : \A ip \in Pools[i] : Full(req[p].mac, ip)
    PROVE  Searched(pc[p], req[p], job[p])'
<1>1. CASE job[p].pool < Len(Pools)
    <2>1. /\ pc'[p] = "expired" /\ req' = req
          /\ job'[p] = [NoJob EXCEPT !.pool = job[p].pool + 1]
        BY <1>1 DEF TypeOK, NextPool, Goto, Set
    <2>2. job'[p].pool = job[p].pool + 1
        BY <2>1 DEF NoJob
    <2>3. \A i \in 1 .. job'[p].pool - 1 : i \in 1 .. job[p].pool
        BY <2>2
    <2>4. QED
        BY <2>1, <2>3 DEF Searched, Full
<1>2. CASE ~(job[p].pool < Len(Pools))
    BY <1>2, StopIdle, AwaySearched DEF NextPool
<1>3. QED
    BY <1>1, <1>2

LEMMA SearchStart ==
    ASSUME TypeOK, UNCHANGED <<leases, req>>, NEW p \in Handler,
           NEW pool, pc'[p] = "lock", job'[p] = Search(pool),
           \A i \in 1 .. pool - 1 : \A ip \in Pools[i] : Full(req[p].mac, ip)
    PROVE  Searched(pc[p], req[p], job[p])'
<1>1. /\ job'[p].fn = "search" /\ job'[p].pool = pool /\ job'[p].todo = Pools[pool]
    BY DEF Search, NoJob
<1>2. QED
    BY <1>1 DEF Searched, Full

(* An address given up after the search looked at it is full, and a pool   *)
(* with no address left to try is passed over.                             *)
LEMMA UnlockSearched ==
    ASSUME IInv, NEW p \in Handler, NEW c \in Conn, Unlock(p, c),
           Searched(pc[p], req[p], job[p])
    PROVE  Searched(pc[p], req[p], job[p])'
<1> DEFINE j == job[p]
<1>1. /\ j \in Job /\ Ready(pc[p], req[p], j) /\ pc[p] = "unlock"
      /\ pc \in [Handler -> Stage] /\ job \in [Handler -> Job]
      /\ UNCHANGED leases /\ Return(p, j) /\ TypeOK
    BY DEF IInv, TypeOK, Unlock
<1>2. CASE j.ok
    BY <1>1, <1>2, AwaySearched DEF Return, Goto
<1>3. CASE ~j.ok /\ j.fn = "claim"
    <2>1. /\ pc'[p] = "lock" /\ req' = req
          /\ job'[p] = IF Tail(j.queue) = <<>> THEN Search(j.pool)
                       ELSE [j EXCEPT !.queue = Tail(j.queue), !.ip = NoIP]
        BY <1>1, <1>3 DEF Return, Goto, Set
    <2>2. CASE Tail(j.queue) = <<>>
        BY <1>1, <1>3, <2>1, <2>2, SearchStart DEF Searched
    <2>3. CASE Tail(j.queue) # <<>>
        <3>1. job'[p].fn = "claim" /\ job'[p].pool = j.pool
            BY <1>1, <1>3, <2>1, <2>3 DEF Job
        <3>2. QED
            BY <1>1, <1>3, <2>1, <3>1 DEF Searched, Full
    <2>4. QED
        BY <2>2, <2>3
<1>4. CASE ~j.ok /\ j.fn = "search"
    <2>1. \A ip \in Pools[j.pool] \ (j.todo \ {j.ip}) : Full(req[p].mac, ip)
        BY <1>1, <1>4 DEF Searched
    <2>2. \A i \in 1 .. j.pool - 1 : \A ip \in Pools[i] : Full(req[p].mac, ip)
        BY <1>1, <1>4 DEF Searched
    <2>3. CASE j.todo \ {j.ip} = {}
        <3>1. j.pool \in Nat /\ NextPool(p)
            BY <1>1, <1>4, <2>3 DEF Return, Ready
        <3>2. \A i \in 1 .. j.pool : i \in 1 .. j.pool - 1 \/ i = j.pool
            BY <3>1
        <3>3. \A i \in 1 .. j.pool : \A ip \in Pools[i] : Full(req[p].mac, ip)
            BY <2>1, <2>2, <2>3, <3>2
        <3>4. QED
            BY <1>1, <3>1, <3>3, EnterPool
    <2>4. CASE j.todo \ {j.ip} # {}
        <3>1. /\ pc'[p] = "lock" /\ req' = req
              /\ job'[p] = [j EXCEPT !.todo = j.todo \ {j.ip}, !.ip = NoIP]
            BY <1>1, <1>4, <2>4 DEF Return, Goto, Set
        <3>2. /\ job'[p].fn = "search" /\ job'[p].pool = j.pool
              /\ job'[p].todo = j.todo \ {j.ip}
            BY <1>1, <1>4, <3>1 DEF Job
        <3>3. QED
            BY <1>1, <2>1, <2>2, <3>1, <3>2 DEF Searched, Full
    <2>5. QED
        BY <2>3, <2>4
<1>5. CASE ~j.ok /\ j.fn \notin {"claim", "search"}
    BY <1>1, <1>5, StopIdle, AwaySearched DEF Return
<1>6. QED
    BY <1>2, <1>3, <1>4, <1>5

(* The other steps of the allocator look at no further pool.               *)
LEMMA LookupsSearched ==
    ASSUME IInv, NEW p \in Handler, Searched(pc[p], req[p], job[p]),
           NothingRequested(p) \/ LookupRequested(p) \/ LookupClient(p) \/ ListExpired(p)
    PROVE  Searched(pc[p], req[p], job[p])'
<1>1. /\ pc \in [Handler -> Stage] /\ job \in [Handler -> Job] /\ TypeOK
      /\ Ready(pc[p], req[p], job[p]) /\ UNCHANGED <<leases, req>>
    BY DEF IInv, TypeOK, NothingRequested, LookupRequested, LookupClient, ListExpired
<1>2. ASSUME NEW fn \in {"renew", "reserved"}, Goto(p, "lock"),
             Set(p, [NoJob EXCEPT !.fn = fn])
      PROVE  Searched(pc[p], req[p], job[p])'
    <2>1. pc'[p] = "lock" /\ job'[p].fn = fn
        BY <1>1, <1>2 DEF Goto, Set, NoJob
    <2>2. QED
        BY <2>1 DEF Searched
<1>3. ASSUME Goto(p, "expired"), Set(p, [NoJob EXCEPT !.pool = 1])
      PROVE  Searched(pc[p], req[p], job[p])'
    <2>1. pc'[p] = "expired" /\ job'[p].pool = 1
        BY <1>1, <1>3 DEF Goto, Set, NoJob
    <2>2. QED
        BY <2>1 DEF Searched
<1>4. ASSUME NEW stage \in {"lookup", "nak", "reply"}, Goto(p, stage)
      PROVE  Searched(pc[p], req[p], job[p])'
    BY <1>1, <1>4, AwaySearched DEF Goto
<1>5. CASE ListExpired(p)
    <2>1. PICK q \in GetExpiredLeases(leases, Pools[job[p].pool]) :
             IF q = <<>>
             THEN Set(p, Search(job[p].pool))
             ELSE Set(p, [job[p] EXCEPT !.fn = "claim", !.queue = q, !.first = q[1]])
        BY <1>5 DEF ListExpired
    <2>2. /\ pc'[p] = "lock"
          /\ \A i \in 1 .. job[p].pool - 1 : \A ip \in Pools[i] : Full(req[p].mac, ip)
        BY <1>1, <1>5 DEF ListExpired, Goto, Searched
    <2>3. CASE q = <<>>
        <3>1. job'[p] = Search(job[p].pool)
            BY <1>1, <2>1, <2>3 DEF Set
        <3>2. QED
            BY <1>1, <2>2, <3>1, SearchStart
    <2>4. CASE q # <<>>
        <3>1. job'[p] = [job[p] EXCEPT !.fn = "claim", !.queue = q, !.first = q[1]]
            BY <1>1, <2>1, <2>4 DEF Set
        <3>2. job'[p].fn = "claim" /\ job'[p].pool = job[p].pool
            BY <1>1, <3>1 DEF Job
        <3>3. QED
            BY <1>1, <2>2, <3>2 DEF Searched, Full
    <2>5. QED
        BY <2>3, <2>4
<1>6. QED
    BY <1>2, <1>3, <1>4, <1>5 DEF NothingRequested, LookupRequested, LookupClient

LEMMA LockSearched ==
    ASSUME IInv, NEW p \in Handler, NEW c \in Conn, Lock(p, c),
           Searched(pc[p], req[p], job[p])
    PROVE  Searched(pc[p], req[p], job[p])'
<1>1. pc[p] = "lock" /\ pc'[p] = "check" /\ UNCHANGED <<leases, req>>
    BY DEF Lock, Goto, IInv, TypeOK
<1>2. /\ job'[p].fn = job[p].fn /\ job'[p].pool = job[p].pool
      /\ job'[p].todo = job[p].todo
    BY DEF Lock, Set, IInv, TypeOK, Job
<1>3. QED
    BY <1>1, <1>2 DEF Searched, Full

(* An address that does not pass the checks of a search is full.           *)
LEMMA CheckSearched ==
    ASSUME IInv, NEW p \in Handler, Check(p), Searched(pc[p], req[p], job[p])
    PROVE  Searched(pc[p], req[p], job[p])'
<1>1. /\ pc[p] = "check" /\ UNCHANGED <<leases, req>>
      /\ job[p] \in Job /\ job \in [Handler -> Job] /\ pc \in [Handler -> Stage]
      /\ Ready(pc[p], req[p], job[p])
    BY DEF Check, IInv, TypeOK
<1>2. CASE ~Passes(p)
    <2>1. pc'[p] = "unlock" /\ job' = job
        BY <1>1, <1>2 DEF Check, Goto
    <2>2. job[p].fn = "search" => Full(req[p].mac, job[p].ip)
        BY <1>1, <1>2 DEF Passes, Full, Rows, Ready
    <2>3. QED
        BY <1>1, <2>1, <2>2 DEF Searched, Full
<1>3. CASE Passes(p) /\ job[p].fn = "renew"
    <2>1. pc'[p] = "write" /\ job'[p].fn = "renew"
        BY <1>1, <1>3 DEF Check, Goto, Set, Job
    <2>2. QED
        BY <2>1 DEF Searched
<1>4. CASE Passes(p) /\ job[p].fn # "renew"
    BY <1>1, <1>4 DEF Check, Goto, Searched, Full
<1>5. QED
    BY <1>2, <1>3, <1>4

(* So is one whose INSERT fails.                                           *)
LEMMA WriteSearched ==
    ASSUME IInv, Stays, NEW p \in Handler, Write(p), Searched(pc[p], req[p], job[p])
    PROVE  Searched(pc[p], req[p], job[p])'
<1>1. /\ pc[p] = "write" /\ pc'[p] = "unlock" /\ req' = req
      /\ job[p] \in Job /\ job \in [Handler -> Job]
      /\ Ready(pc[p], req[p], job[p])
    BY DEF Write, Goto, IInv, TypeOK
<1>2. \A ip : Full(req[p].mac, ip) => Full(req[p].mac, ip)'
    BY <1>1, FullStays DEF Full, ReservedForOther
<1>3. CASE Set(p, [job[p] EXCEPT !.ok = TRUE])
    <2>1. /\ job'[p].fn = job[p].fn /\ job'[p].pool = job[p].pool
          /\ job'[p].todo = job[p].todo /\ job'[p].ok = TRUE
        BY <1>1, <1>3 DEF Set, Job
    <2>2. QED
        BY <1>1, <1>2, <2>1 DEF Searched
<1>4. CASE /\ job[p].fn # "renew" /\ ~CanCreate(leases, job[p].ip)
           /\ UNCHANGED <<leases, job>>
    <2>1. job[p].fn = "search" => Full(req[p].mac, job[p].ip)
        BY <1>1, <1>4 DEF CanCreate, Full, Rows, Ready
    <2>2. QED
        BY <1>1, <1>2, <1>4, <2>1 DEF Searched
<1>5. QED
    BY <1>3, <1>4 DEF Write

LEMMA PassedOverStep ==
    ASSUME ~Deletes, IInv, HandlersBacked, PassedOverFull, [Next]_vars
    PROVE  PassedOverFull'
<1>1. Stays
    BY RowsStay DEF HandlersBacked
<1>2. ASSUME NEW p \in Handler, ServerOf[p] \notin Fails
      PROVE  Searched(pc[p], req[p], job[p])'
    <2>1. Searched(pc[p], req[p], job[p])
        BY <1>2 DEF PassedOverFull
    <2>2. ~(\E c \in Conn : QueryFails(p, c))
        BY <1>2 DEF QueryFails
    <2>3. CASE Handle(p)
        <3>1. CASE Update(p) \/ Reply(p)
            BY <3>1, StopIdle, AwaySearched DEF Update, Reply, IInv
        <3>2. QED
            BY <1>1, <2>1, <2>3, <3>1, LookupsSearched, LockSearched, CheckSearched,
               WriteSearched, UnlockSearched DEF Handle
    <2>4. CASE ~Handle(p)
        BY <1>1, <1>2, <2>1, <2>2, <2>4, Others, ListeningSearched, AwaySearched DEF Started
    <2>5. QED
        BY <2>3, <2>4
<1>3. QED
    BY <1>2 DEF PassedOverFull

(* The step that turns a client away.                                      *)
LEMMA RefusalStep ==
    ASSUME IInv, PassedOverFull, [Next]_vars, NEW p \in Handler,
           ServerOf[p] \notin Fails,
           pc[p] = "unlock", job[p].fn = "search", pc'[p] = "idle",
           NEW i \in 1 .. Len(Pools), NEW ip \in Pools[i]
    PROVE  Full(req[p].mac, ip)
<1> DEFINE j == job[p]
<1>1. Searched(pc[p], req[p], j) /\ Ready(pc[p], req[p], j) /\ TypeOK
    BY DEF PassedOverFull, IInv
<1>2. PICK c \in Conn : Unlock(p, c)
    <2>1. ~(\E c \in Conn : QueryFails(p, c))
        BY DEF QueryFails
    <2>2. Handle(p)
        BY <2>1, Others DEF Started, Listening
    <2>3. QED
        BY <2>2 DEF Handle, NothingRequested, LookupRequested, LookupClient, ListExpired,
                    Check, Write, Update, Reply, Lock
<1>3. Return(p, j)
    BY <1>2 DEF Unlock
<1>4. ~j.ok
    BY <1>1, <1>3 DEF Return, Goto, TypeOK
<1>5. j.todo \ {j.ip} = {} /\ NextPool(p)
    BY <1>1, <1>3, <1>4 DEF Return, Goto, TypeOK
<1>6. ~(j.pool < Len(Pools))
    BY <1>1, <1>5 DEF NextPool, Goto, TypeOK
<1>7. j.pool \in 1 .. Len(Pools) /\ Len(Pools) \in Nat
    BY <1>1, DhcpAssumption, LenProperties DEF Ready
<1>8. i \in 1 .. j.pool - 1 \/ i = j.pool
    BY <1>6, <1>7
<1>9. QED
    BY <1>1, <1>4, <1>5, <1>8 DEF Searched

(* While no row is deleted, a server whose queries do not fail turns a     *)
(* client away only when no address of the subnet is left for it, however  *)
(* many others allocate at the same time (dhcp/allocator.go:99-119,        *)
(* 315-349).                                                               *)
THEOREM RefusalsJustified == ASSUME ~Deletes PROVE Spec => RefusedOnlyWhenFull
<1>1. IInv /\ HandlersBacked /\ PassedOverFull /\ [Next]_vars
         => HandlersBacked' /\ PassedOverFull'
    BY HandlersBackedStep, PassedOverStep
<1>2. IInv /\ PassedOverFull /\ [Next]_vars =>
         [\A p \in Handler :
             /\ ServerOf[p] \notin Fails
             /\ pc[p] = "unlock" /\ job[p].fn = "search" /\ pc'[p] = "idle"
             => \A i \in 1 .. Len(Pools) : \A ip \in Pools[i] : Full(req[p].mac, ip)]_vars
    BY RefusalStep
<1>3. QED
    BY <1>1, <1>2, InitIInv, IInvStep, InitHandlersBacked, InitPassedOver, PTL
    DEF Spec, RefusedOnlyWhenFull

(* The three invariants together, whatever address the clients ask for     *)
(* (dhcp/handler.go:172-302, dhcp/allocator.go:63-361).                    *)
THEOREM WithoutDeletions == ASSUME ~Deletes PROVE Spec => []NothingDeleted
<1>1. IInv /\ HandlersBacked /\ ClientsBacked /\ PassedOverFull /\ [Next]_vars
         => HandlersBacked' /\ ClientsBacked' /\ PassedOverFull'
    BY HandlersBackedStep, ClientsBackedStep, PassedOverStep
<1>2. HandlersBacked /\ ClientsBacked /\ PassedOverFull => NothingDeleted
    BY DEF NothingDeleted
<1>3. QED
    BY <1>1, <1>2, InitIInv, IInvStep, InitHandlersBacked, InitClientsBacked,
       InitPassedOver, PTL DEF Spec

=============================================================================
