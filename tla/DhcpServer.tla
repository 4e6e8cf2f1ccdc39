----------------------------- MODULE DhcpServer -----------------------------
(***************************************************************************)
(* The DHCP service of one subnet: the message handlers of several servers *)
(* (dhcp/handler.go), the allocator (dhcp/allocator.go), the expiry        *)
(* workers (dhcp/server.go), the leases table they share (LeaseStore) and  *)
(* the advisory locks (LockTable), with the clients that talk to them.     *)
(*                                                                         *)
(* A handler is a goroutine serving one packet.  Every statement it sends  *)
(* to the database is a step of its own; between two of them anything may  *)
(* happen.  Its stages are                                                 *)
(*                                                                         *)
(*   request, lookup, expired   the queries outside any lock               *)
(*   lock, check, write, unlock one WithAdvisoryLock; job.fn is the        *)
(*                              function run under the lock                *)
(*   update                     the UPDATE of RELEASE and DECLINE          *)
(*   reply, nak                 the answer is about to be sent             *)
(*                                                                         *)
(* A lock is taken and given back in any session of the server's pool, as  *)
(* in AdvisoryLock; that the statements themselves occupy connections is   *)
(* left to that module.                                                    *)
(***************************************************************************)
EXTENDS LeaseStore, LockTable

CONSTANTS Server,       \* DHCP servers sharing the database
          Conn,         \* database sessions of all pools
          PoolOf,       \* PoolOf[c]: the server whose pool holds c
          Handler,      \* packets served at the same time
          ServerOf,     \* ServerOf[p]: the server p runs in
          Worker,       \* servers whose expiry workers run
          Deletes,      \* whether rows get old enough to be deleted
          Fails,        \* servers that may crash or lose a session or a query
          Pools,        \* the address pools of the subnet, in their order
          Reserved,     \* Reserved[m]: the address reserved for m, or NoIP
          MaxFlight,    \* ticks a packet takes at most to be served
          MaxHeld,      \* bound: no session takes a lock more often than this
          Present,      \* clients on the network; a reservation may be for
                        \* one that never comes
          Remembers,    \* <<m, ip>>: m also asks for ip without an offer of
                        \* it, as after a reboot (NoIP: it names no address)
          NoIP, NoReq, NoBinding

ASSUME DhcpAssumption ==
    /\ PoolOf \in [Conn -> Server]
    /\ ServerOf \in [Handler -> Server]
    /\ Worker \subseteq Server /\ Fails \subseteq Server
    /\ Pools \in Seq(SUBSET IP) /\ Len(Pools) > 0
    /\ \A i \in 1 .. Len(Pools) : Pools[i] # {}
    /\ Reserved \in [MAC -> IP \cup {NoIP}]
    /\ MaxFlight \in Nat /\ MaxHeld \in Nat \ {0} /\ Present \subseteq MAC
    /\ Remembers \subseteq MAC \X (IP \cup {NoIP}) /\ Deletes \in BOOLEAN
    /\ NoIP \notin IP

VARIABLES leases,   \* the leases table
          held,     \* the advisory lock table
          pc,       \* the stage of each handler
          req,      \* the packet each handler serves
          job,      \* the local variables of each handler
          sweeping, \* servers whose expiry worker is between its statements
          offer,    \* the OFFER each client has chosen
          bound     \* the address each client uses

vars == <<leases, held, pc, req, job, sweeping, offer, bound>>

Stage == {"idle", "request", "lookup", "expired", "lock", "check", "write",
          "unlock", "update", "reply", "nak"}

Fn == {"none", "claim", "search", "renew", "reserved"}

Packet == [type : {"discover", "request", "release", "decline"},
           mac : MAC, ip : IP \cup {NoIP},
           age : 0 .. MaxFlight,   \* ticks since the client sent it
           live : BOOLEAN]         \* the client still waits for the answer

(* own is a history: the answer was about the address of the lease that    *)
(* was allocated or renewed for it.                                        *)
Binding == [ip : IP, ttl : 1 .. LeaseTime, own : BOOLEAN]

Job == [fn : Fn,                   \* the function run under the lock
        pool : 0 .. Len(Pools),   \* the pool being tried
        queue : Seq(IP),           \* expired leases still to be tried
        first : IP \cup {NoIP},    \* expiredLeases[0]
        todo : SUBSET IP,          \* addresses still to be tried
        ip : IP \cup {NoIP},       \* the address worked on; lease.IP at the end
        id : RowId \cup {0},       \* lease.ID read by RenewLease
        ok : BOOLEAN]              \* what fn returned

NoJob == [fn |-> "none", pool |-> 0, queue |-> <<>>, first |-> NoIP,
          todo |-> {}, ip |-> NoIP, id |-> 0, ok |-> FALSE]

(* The key hashes the bytes of the address: those of a row read back from  *)
(* the database are the sixteen of net.ParseCIDR, those of a pool or of a  *)
(* packet are four, and a reservation's address has none.                  *)
Key == ({"bytes4", "bytes16"} \X IP) \cup {<<"bytes0", NoIP>>}

TypeOK ==
    /\ leases \in Tables
    /\ held \in [Conn -> [Key -> Nat]]
    /\ pc \in [Handler -> Stage]
    /\ req \in [Handler -> Packet \cup {NoReq}]
    /\ job \in [Handler -> Job]
    /\ sweeping \subseteq Server
    /\ offer \in [MAC -> Binding \cup {NoBinding}]
    /\ bound \in [MAC -> Binding \cup {NoBinding}]

Init ==
    /\ leases = [ip \in IP |-> NoRow]
    /\ held = [c \in Conn |-> [k \in Key |-> 0]]
    /\ pc = [p \in Handler |-> "idle"]
    /\ req = [p \in Handler |-> NoReq]
    /\ job = [p \in Handler |-> NoJob]
    /\ sweeping = {}
    /\ offer = [m \in MAC |-> NoBinding]
    /\ bound = [m \in MAC |-> NoBinding]
-----------------------------------------------------------------------------
(***************************************************************************)
(* Clients (RFC 2131), external to the repository.  A packet reaches the   *)
(* idle handlers of S: several when it is broadcast to two servers or      *)
(* duplicated, none when it is lost.  A client that sends a new packet no  *)
(* longer listens for answers to its earlier ones (their xid is old).      *)
(***************************************************************************)
Idle == {p \in Handler : pc[p] = "idle"}

Send(S, type, m, ip, stage) ==
    /\ S \subseteq Idle
    /\ req' = [p \in Handler |->
                 IF p \in S
                 THEN [type |-> type, mac |-> m, ip |-> ip, age |-> 0, live |-> TRUE]
                 ELSE IF req[p] # NoReq /\ req[p].mac = m
                 THEN [req[p] EXCEPT !.live = FALSE] ELSE req[p]]
    /\ pc' = [p \in Handler |-> IF p \in S THEN stage ELSE pc[p]]
    /\ UNCHANGED <<leases, held, job, sweeping>>

(* A client without an address starts over.                                *)
Discover(m, S) ==
    /\ S # {}
    /\ Send(S, "discover", m, NoIP, "lookup")
    /\ offer' = [offer EXCEPT ![m] = NoBinding]
    /\ bound' = [bound EXCEPT ![m] = NoBinding]

(* A client asks for the address it chose, renews the one it uses, or, if  *)
(* it uses none, one it remembers.                                         *)
Request(m, ip, S) ==
    /\ S # {}
    /\ \/ offer[m] # NoBinding /\ offer[m].ip = ip
       \/ bound[m] # NoBinding /\ bound[m].ip = ip
       \/ <<m, ip>> \in Remembers /\ bound[m] = NoBinding
    /\ Send(S, "request", m, ip, "request")
    /\ UNCHANGED <<offer, bound>>

(* A client gives its address back, or found it in use by another host.    *)
GiveUp(m, type, S) ==
    /\ bound[m] # NoBinding
    /\ Send(S, type, m, bound[m].ip, "update")
    /\ bound' = [bound EXCEPT ![m] = NoBinding]
    /\ UNCHANGED offer

Client(m) == \E S \in SUBSET Idle :
                \/ Discover(m, S)
                \/ \E ip \in IP \cup {NoIP} : Request(m, ip, S)
                \/ GiveUp(m, "release", S)
                \/ GiveUp(m, "decline", S)
-----------------------------------------------------------------------------
(***************************************************************************)
(* The stages of a handler.                                                *)
(***************************************************************************)
Goto(p, stage) == pc' = [pc EXCEPT ![p] = stage]
Set(p, j) == job' = [job EXCEPT ![p] = j]
OfServer == <<sweeping, offer, bound>>

(* A handler that ends without an answer: the error is only logged.        *)
Stop(p) ==
    /\ Goto(p, "idle")
    /\ req' = [req EXCEPT ![p] = NoReq]
    /\ Set(p, NoJob)

(* Mutant: reservations are not looked up.                                 *)
NoReservation(m, ip) == FALSE

(* GetReservationByIP finds another client's reservation of ip.            *)
ReservedForOther(m, ip) == \E n \in MAC \ {m} : Reserved[n] = ip

(* handleRequest refuses a packet that names no address.                   *)
NothingRequested(p) ==
    /\ pc[p] = "request"
    /\ req[p].ip = NoIP
    /\ Goto(p, "nak")
    /\ UNCHANGED <<leases, held, req, job, OfServer>>

(* It looks up the requested address: a row of another client is refused,  *)
(* the client's own is renewed, none means a new lease.                    *)
LookupRequested(p) ==
    /\ pc[p] = "request"
    /\ req[p].ip # NoIP
    /\ LET row == leases[req[p].ip]
       IN  \/ /\ row = NoRow
              /\ Goto(p, "lookup")
              /\ UNCHANGED job
           \/ /\ row # NoRow /\ row.mac # req[p].mac
              /\ Goto(p, "nak")
              /\ UNCHANGED job
           \/ /\ row # NoRow /\ row.mac = req[p].mac
              /\ Goto(p, "lock")
              /\ Set(p, [NoJob EXCEPT !.fn = "renew"])
    /\ UNCHANGED <<leases, held, req, OfServer>>

(* AllocateIP: an active lease of the client is returned as it is; else a  *)
(* client with a reservation gets createLeaseForReservation, any other one *)
(* the pools in their order.                                               *)
LookupClient(p) ==
    /\ pc[p] = "lookup"
    /\ LET found == GetLeaseByMAC(leases, req[p].mac)
       IN  \/ \E ip \in found :
                /\ IsActive(leases[ip])
                /\ Goto(p, "reply")
                /\ Set(p, [NoJob EXCEPT !.ip = ip])
           \/ /\ \A ip \in found : ~IsActive(leases[ip])
              /\ IF Reserved[req[p].mac] # NoIP
                 THEN Goto(p, "lock") /\ Set(p, [NoJob EXCEPT !.fn = "reserved"])
                 ELSE Goto(p, "expired") /\ Set(p, [NoJob EXCEPT !.pool = 1])
    /\ UNCHANGED <<leases, held, req, OfServer>>

(* Past the expired leases: findNeverUsedIP tries every address of the     *)
(* pool in a random order.                                                 *)
Search(i) == [NoJob EXCEPT !.fn = "search", !.pool = i, !.todo = Pools[i]]

(* allocateFromPool reads the expired and released leases of the pool.     *)
ListExpired(p) ==
    /\ pc[p] = "expired"
    /\ \E q \in GetExpiredLeases(leases, Pools[job[p].pool]) :
         IF q = <<>>
         THEN Set(p, Search(job[p].pool))
         ELSE Set(p, [job[p] EXCEPT !.fn = "claim", !.queue = q, !.first = q[1]])
    /\ Goto(p, "lock")
    /\ UNCHANGED <<leases, held, req, OfServer>>

(* The addresses a handler at stage "lock" may turn to next.               *)
Targets(p) == CASE job[p].fn = "claim"    -> {job[p].queue[1]}
                [] job[p].fn = "search"   -> job[p].todo
                [] job[p].fn = "renew"    -> {req[p].ip}
                [] job[p].fn = "reserved" -> {NoIP}

KeyOf(fn, ip) == <<CASE fn = "claim"    -> "bytes16"
                     [] fn = "reserved" -> "bytes0"
                     [] OTHER           -> "bytes4", ip>>

(* WithAdvisoryLock enters: the lock is granted in session c.              *)
Lock(p, c) ==
    /\ pc[p] = "lock"
    /\ PoolOf[c] = ServerOf[p]
    /\ \E ip \in Targets(p) :
         /\ Grantable(held, c, KeyOf(job[p].fn, ip))
         /\ held[c][KeyOf(job[p].fn, ip)] < MaxHeld
         /\ held' = Locked(held, c, KeyOf(job[p].fn, ip))
         /\ Set(p, [job[p] EXCEPT !.ip = ip])
    /\ Goto(p, "check")
    /\ UNCHANGED <<leases, req, OfServer>>

(* Mutant: the owner of a row to be renewed is not looked at again under   *)
(* the lock.                                                               *)
PassesUnchecked(p) ==
    LET row == leases[job[p].ip]
    IN  CASE job[p].fn = "claim"  -> /\ row = NoRow \/ ~IsActive(row)
                                     /\ ~ReservedForOther(req[p].mac, job[p].ip)
          [] job[p].fn = "search" -> row = NoRow /\ ~ReservedForOther(req[p].mac, job[p].ip)
          [] job[p].fn = "renew"  -> row # NoRow
          [] OTHER                -> FALSE

(* The first statements of fn.  An address to be claimed must not be       *)
(* actively leased, one to be used afresh must have no row, and neither    *)
(* may be reserved for another client; a row to be renewed must be the     *)
(* client's.  The address of a reservation is read as "a.b.c.d/32", which  *)
(* net.ParseIP does not parse: the query for its lease fails.              *)
Passes(p) ==
    LET row == leases[job[p].ip]
    IN  CASE job[p].fn = "claim"  -> /\ row = NoRow \/ ~IsActive(row)
                                     /\ ~ReservedForOther(req[p].mac, job[p].ip)
          [] job[p].fn = "search" -> row = NoRow /\ ~ReservedForOther(req[p].mac, job[p].ip)
          [] job[p].fn = "renew"  -> row # NoRow /\ row.mac = req[p].mac
          [] OTHER                -> FALSE

Check(p) ==
    /\ pc[p] = "check"
    /\ IF Passes(p)
       THEN /\ Goto(p, "write")
            /\ IF job[p].fn = "renew"
               THEN Set(p, [job[p] EXCEPT !.id = leases[job[p].ip].id])
               ELSE UNCHANGED job
       ELSE Goto(p, "unlock") /\ UNCHANGED job
    /\ UNCHANGED <<leases, held, req, OfServer>>

(* Mutant: the id of a deleted row is used again.                          *)
FreeIds == RowId \ {leases[ip].id : ip \in Rows(leases)}

(* An id no row has and no handler remembers: BIGSERIAL never repeats one. *)
UnusedIds == RowId \ ({leases[ip].id : ip \in Rows(leases)}
                        \cup {job[p].id : p \in Handler})

(* What the last statement of fn does to the table if it succeeds: INSERT  *)
(* of a new row, or UPDATE of the row whose id was read before.            *)
Written(p) ==
    \/ /\ job[p].fn \in {"claim", "search"}
       /\ CanCreate(leases, job[p].ip)
       /\ \E id \in UnusedIds :
            /\ \A other \in UnusedIds : id <= other
            /\ leases' = CreateLease(leases, job[p].ip, id, req[p].mac)
    \/ /\ job[p].fn = "renew"
       /\ leases' = RenewLease(leases, job[p].id)

Write(p) ==
    /\ pc[p] = "write"
    /\ \/ Written(p) /\ Set(p, [job[p] EXCEPT !.ok = TRUE])
       \/ /\ job[p].fn # "renew" /\ ~CanCreate(leases, job[p].ip)
          /\ UNCHANGED <<leases, job>>
    /\ Goto(p, "unlock")
    /\ UNCHANGED <<held, req, OfServer>>

(* Mutant: a pool that fails ends the allocation.                          *)
FirstPoolOnly(p) == Stop(p)

(* AllocateIP goes on to the next pool, if there is one.                   *)
NextPool(p) ==
    IF job[p].pool < Len(Pools)
    THEN /\ Goto(p, "expired")
         /\ Set(p, [NoJob EXCEPT !.pool = job[p].pool + 1])
         /\ UNCHANGED req
    ELSE Stop(p)

(* Mutant: an expired lease that could not be claimed is tried again.      *)
ReturnRetries(p, j) ==
    CASE j.ok ->
           /\ Goto(p, "reply")
           /\ Set(p, [NoJob EXCEPT !.ip = IF j.fn = "claim" THEN j.first ELSE j.ip])
           /\ UNCHANGED req
      [] ~j.ok /\ j.fn = "claim" ->
           Goto(p, "lock") /\ Set(p, [j EXCEPT !.ip = NoIP]) /\ UNCHANGED req
      [] ~j.ok /\ j.fn = "search" ->
           LET rest == j.todo \ {j.ip}
           IN  IF rest = {} THEN NextPool(p)
               ELSE /\ Goto(p, "lock")
                    /\ Set(p, [j EXCEPT !.todo = rest, !.ip = NoIP])
                    /\ UNCHANGED req
      [] OTHER -> Stop(p)

(* What the allocator does with local variables j when WithAdvisoryLock    *)
(* has returned.  A claimed lease is answered with expiredLeases[0].       *)
Return(p, j) ==
    CASE j.ok ->
           /\ Goto(p, "reply")
           /\ Set(p, [NoJob EXCEPT !.ip = IF j.fn = "claim" THEN j.first ELSE j.ip])
           /\ UNCHANGED req
      [] ~j.ok /\ j.fn = "claim" ->
           LET rest == Tail(j.queue)
           IN  /\ Goto(p, "lock")
               /\ Set(p, IF rest = <<>> THEN Search(j.pool)
                         ELSE [j EXCEPT !.queue = rest, !.ip = NoIP])
               /\ UNCHANGED req
      [] ~j.ok /\ j.fn = "search" ->
           LET rest == j.todo \ {j.ip}
           IN  IF rest = {} THEN NextPool(p)
               ELSE /\ Goto(p, "lock")
                    /\ Set(p, [j EXCEPT !.todo = rest, !.ip = NoIP])
                    /\ UNCHANGED req
      [] OTHER -> Stop(p)

(* The deferred pg_advisory_unlock, in session c.                          *)
Unlock(p, c) ==
    /\ pc[p] = "unlock"
    /\ PoolOf[c] = ServerOf[p]
    /\ held' = Unlocked(held, c, KeyOf(job[p].fn, job[p].ip))
    /\ Return(p, job[p])
    /\ UNCHANGED <<leases, OfServer>>

(* handleRelease and handleDecline: one UPDATE, no lock, no look at who    *)
(* owns the row.                                                           *)
Update(p) ==
    /\ pc[p] = "update"
    /\ leases' = IF req[p].type = "release" THEN ReleaseLease(leases, req[p].ip)
                                            ELSE DeclineLease(leases, req[p].ip)
    /\ Stop(p)
    /\ UNCHANGED <<held, OfServer>>

(* Handle sends the answer: an OFFER of the lease's address, an ACK of the *)
(* requested one, or a NAK.  A client that no longer listens, or that the  *)
(* answer does not reach, is as before.                                    *)
Hears(p) ==
    LET m == req[p].mac
    IN  CASE pc[p] = "nak" ->
               /\ offer' = [offer EXCEPT ![m] = NoBinding]
               /\ bound' = [bound EXCEPT ![m] = NoBinding]
          [] pc[p] = "reply" /\ req[p].type = "discover" ->
               /\ offer' = [offer EXCEPT ![m] = [ip |-> job[p].ip, ttl |-> 1, own |-> TRUE]]
               /\ UNCHANGED bound
          [] OTHER ->
               /\ req[p].age < LeaseTime
               /\ offer' = [offer EXCEPT ![m] = NoBinding]
               /\ bound' = [bound EXCEPT ![m] =
                              [ip |-> req[p].ip, ttl |-> LeaseTime - req[p].age,
                               own |-> job[p].ip = req[p].ip]]

Reply(p) ==
    /\ pc[p] \in {"reply", "nak"}
    /\ \/ req[p].live /\ Hears(p)
       \/ UNCHANGED <<offer, bound>>
    /\ Stop(p)
    /\ UNCHANGED <<leases, held, sweeping>>

Handle(p) == \/ NothingRequested(p) \/ LookupRequested(p)
             \/ LookupClient(p) \/ ListExpired(p) \/ Check(p) \/ Write(p)
             \/ Update(p) \/ Reply(p)
             \/ \E c \in Conn : Lock(p, c) \/ Unlock(p, c)
-----------------------------------------------------------------------------
(***************************************************************************)
(* The rest of a server.                                                   *)
(***************************************************************************)
(* The ticker of an expiry worker: expired leases are marked.  The worker  *)
(* of dhcp.Server goes on to the deletion, the one of expiry_worker.go     *)
(* does not.                                                               *)
Expire(s) ==
    /\ s \notin sweeping
    /\ leases' = ExpireLeases(leases)
    /\ \/ Deletes /\ sweeping' = sweeping \cup {s}
       \/ UNCHANGED sweeping
    /\ UNCHANGED <<held, pc, req, job, offer, bound>>

Delete(s) ==
    /\ s \in sweeping
    /\ leases' = DeleteOldLeases(leases)
    /\ sweeping' = sweeping \ {s}
    /\ UNCHANGED <<held, pc, req, job, offer, bound>>

(* The connection c breaks while p's statement runs in it: the session     *)
(* ends and the statement fails.  Of an INSERT or UPDATE perhaps only the  *)
(* answer is lost; the error of an unlock is ignored.                      *)
QueryFails(p, c) ==
    /\ ServerOf[p] \in Fails /\ PoolOf[c] = ServerOf[p]
    /\ held' = Closed(held, {c})
    /\ \/ /\ pc[p] \in {"request", "lookup", "update"}
          /\ Stop(p)
          /\ UNCHANGED leases
       \/ /\ pc[p] = "expired"
          /\ NextPool(p)
          /\ UNCHANGED leases
       \/ /\ pc[p] = "lock"
          /\ \E ip \in Targets(p) : Return(p, [job[p] EXCEPT !.ip = ip])
          /\ UNCHANGED leases
       \/ /\ pc[p] \in {"check", "write"}
          /\ Goto(p, "unlock")
          /\ UNCHANGED <<leases, req, job>>
       \/ /\ pc[p] = "write"
          /\ Written(p)
          /\ Goto(p, "unlock")
          /\ UNCHANGED <<req, job>>
       \/ /\ pc[p] = "unlock"
          /\ Return(p, job[p])
          /\ UNCHANGED leases
    /\ UNCHANGED OfServer

(* A session of the pool is closed and replaced.                           *)
Recycle(c) ==
    /\ PoolOf[c] \in Fails
    /\ held' = Closed(held, {c})
    /\ UNCHANGED <<leases, pc, req, job, sweeping, offer, bound>>

(* A server dies: what its handlers and workers were doing is lost, and so *)
(* are its sessions; the rows stay.                                        *)
Crash(s) ==
    LET Dead == {p \in Handler : ServerOf[p] = s}
        Clear(f, null) == [p \in Handler |-> IF p \in Dead THEN null ELSE f[p]]
    IN  /\ held' = Closed(held, {c \in Conn : PoolOf[c] = s})
        /\ pc' = Clear(pc, "idle")
        /\ req' = Clear(req, NoReq)
        /\ job' = Clear(job, NoJob)
        /\ sweeping' = sweeping \ {s}
        /\ UNCHANGED <<leases, offer, bound>>

(* Time passes, but no packet takes more than MaxFlight ticks to serve.    *)
Tick ==
    /\ \A p \in Handler : req[p] # NoReq => req[p].age < MaxFlight
    /\ leases' = Later(leases)
    /\ req' = [p \in Handler |-> IF req[p] = NoReq THEN NoReq
                                 ELSE [req[p] EXCEPT !.age = @ + 1]]
    /\ LET Aged(b) == IF b = NoBinding \/ b.ttl = 1 THEN NoBinding
                      ELSE [b EXCEPT !.ttl = @ - 1]
       IN  /\ offer' = [m \in MAC |-> Aged(offer[m])]
           /\ bound' = [m \in MAC |-> Aged(bound[m])]
    /\ UNCHANGED <<held, pc, job, sweeping>>

Next == \/ \E m \in Present : Client(m)
        \/ \E p \in Handler : Handle(p) \/ \E c \in Conn : QueryFails(p, c)
        \/ \E s \in Worker : Expire(s) \/ Delete(s)
        \/ \E s \in Fails : Crash(s)
        \/ \E c \in Conn : Recycle(c)
        \/ Tick

Spec == Init /\ [][Next]_vars

(* The scheduler runs every handler that can go on, PostgreSQL grants a    *)
(* lock in the order it was asked for, and a pool that may lose a session  *)
(* closes each of them some day (MaxConnLifetime).                         *)
FairSpec == /\ Spec
            /\ \A p \in Handler : SF_vars(Handle(p))
            /\ \A c \in Conn : WF_vars(Recycle(c))
-----------------------------------------------------------------------------
(***************************************************************************)
(* Safety.                                                                 *)
(***************************************************************************)
(* The table implements Assignment: whatever the handlers, the workers and *)
(* the failures do, a row in force keeps its client and a row changes      *)
(* clients only by a DELETE and an INSERT, none of an address reserved for *)
(* another client (dhcp/allocator.go:157-204, 273-349, storage/leases.go). *)
Owner(t) == [ip \in IP |-> IF t[ip] = NoRow THEN NoRow ELSE t[ip].mac]
InForce(t) == {ip \in Rows(t) : IsActive(t[ip])}

A == INSTANCE Assignment WITH
        Party <- MAC, Address <- IP, Nobody <- NoRow,
        owner <- Owner(leases), inForce <- InForce(leases)

Implements == A!Spec

(* Two clients use one address at the same time only if one of them was    *)
(* acknowledged an address other than that of its lease, as long as no row *)
(* is deleted, whatever address the clients ask for and however packets    *)
(* and servers interleave (dhcp/handler.go:172-302, RFC 2131).             *)
NoConflict ==
    \A m, n \in MAC :
        /\ m # n /\ bound[m] # NoBinding /\ bound[n] # NoBinding
        /\ bound[m].ip = bound[n].ip
        => ~bound[m].own \/ ~bound[n].own

(* The address a client uses is recorded in a row of that client, so no    *)
(* server can give it to another one, unless a REQUEST for an address      *)
(* without a row was acknowledged though another address was allocated for *)
(* it (dhcp/handler.go:196-266).                                           *)
UserOwnsRow ==
    \A m \in MAC :
        bound[m] # NoBinding /\ bound[m].own =>
            /\ bound[m].ip \in Rows(leases)
            /\ leases[bound[m].ip].mac = m

(* The renewal of a lease by the id read under the lock changes no row of  *)
(* another client, although the row may be deleted and its address given   *)
(* away between the two statements (dhcp/allocator.go:438-453).            *)
RenewsOwnRow ==
    [][\A p \in Handler :
          pc[p] = "write" /\ job[p].fn = "renew" /\ pc'[p] = "unlock"
          => \A ip \in Rows(leases) :
                leases'[ip] # leases[ip] => leases[ip].mac = req[p].mac]_vars

(* No lease of ip can be created for m.                                    *)
Full(m, ip) == ip \in Rows(leases) \/ ReservedForOther(m, ip)

(* A client without a reservation is turned away by a server whose queries *)
(* do not fail only when every address of every pool has a row or is       *)
(* reserved for another client, as long as no row is deleted               *)
(* (dhcp/allocator.go:99-119).                                             *)
RefusedOnlyWhenFull ==
    [][\A p \in Handler :
          /\ ServerOf[p] \notin Fails
          /\ pc[p] = "unlock" /\ job[p].fn = "search" /\ pc'[p] = "idle"
          => \A i \in 1 .. Len(Pools) : \A ip \in Pools[i] : Full(req[p].mac, ip)]_vars

(* Every packet is done with some day, answered or not: the loops over     *)
(* expired leases, addresses and pools end although queries fail, and a    *)
(* hold that was released in the wrong session keeps a handler waiting no  *)
(* longer than its connection lives (dhcp/handler.go:21-81,                *)
(* dhcp/allocator.go:99-361).                                              *)
HandlersFinish == \A p \in Handler : pc[p] # "idle" ~> pc[p] = "idle"
-----------------------------------------------------------------------------
(***************************************************************************)
(* What the source says of the allocator and the code does not keep.       *)
(***************************************************************************)
(* An expired lease of the pool that passes the checks is taken over by    *)
(* the new client: "LRU: expired leases first" (dhcp/allocator.go:67).     *)
ExpiredReclaimed ==
    [][\A p \in Handler :
          pc[p] = "write" /\ job[p].fn = "claim" /\ pc'[p] = "unlock"
          => LET row == leases'[job[p].ip]
             IN  row # NoRow /\ row.mac = req[p].mac]_vars

(* A client with a reservation gets the reserved address when no other     *)
(* client has a lease of it: "Check for static reservation for this MAC"   *)
(* (dhcp/allocator.go:66).                                                 *)
ReservationServed ==
    \A p \in Handler :
        pc[p] = "unlock" /\ job[p].fn = "reserved"
        /\ leases[Reserved[req[p].mac]] = NoRow
        => job[p].ok

(* The address AllocateIP returns for a client is one of the client's      *)
(* rows: "allocates an IP address for a client" (dhcp/allocator.go:63).    *)
AllocatedToClient ==
    \A p \in Handler :
        pc[p] = "reply" /\ req[p].type = "discover"
        => /\ job[p].ip \in Rows(leases)
           /\ leases[job[p].ip].mac = req[p].mac
-----------------------------------------------------------------------------
(***************************************************************************)
(* The inductive invariant behind Implements and RenewsOwnRow.             *)
(***************************************************************************)
(* A handler at a stage, with packet r and local variables j: what it      *)
(* reads there has been set before, and what the checks under the lock     *)
(* found of the reservations still holds when the row is written.          *)
Ready(stage, r, j) ==
    /\ stage # "idle" => r \in Packet
    /\ stage \notin {"idle", "request", "nak"} =>
          r.type = "discover" \/ r.ip \in IP
    /\ stage = "expired" => j.pool \in 1 .. Len(Pools)
    /\ stage \in {"lock", "check", "write", "unlock"} =>
          /\ j.fn # "none"
          /\ j.fn = "renew" => r.ip \in IP
          /\ j.fn \in {"claim", "search"} => j.pool \in 1 .. Len(Pools)
          /\ j.fn = "claim" => j.queue # <<>> /\ j.first \in IP
          /\ j.fn = "reserved" => ~j.ok
    /\ stage \in {"check", "write", "unlock"} =>
          IF j.fn = "reserved" THEN j.ip = NoIP ELSE j.ip \in IP
    /\ stage = "write" =>
          \/ j.fn = "renew"
          \/ /\ j.fn \in {"claim", "search"}
             /\ ~ReservedForOther(r.mac, j.ip)
    /\ stage = "reply" => j.ip \in IP

(* The primary key.                                                        *)
UniqueIds == \A x, y \in Rows(leases) : leases[x].id = leases[y].id => x = y

(* The id a handler is about to renew is that of a row of its client, or   *)
(* of no row any more.                                                     *)
Owns(stage, r, j) ==
    stage = "write" /\ j.fn = "renew" =>
        \A ip \in Rows(leases) : leases[ip].id = j.id => leases[ip].mac = r.mac

IInv == /\ TypeOK
        /\ UniqueIds
        /\ \A p \in Handler : /\ Ready(pc[p], req[p], job[p])
                              /\ Owns(pc[p], req[p], job[p])
-----------------------------------------------------------------------------
(***************************************************************************)
(* What is also true while no row is deleted: the invariants behind        *)
(* UserOwnsRow, NoConflict, AllocatedToClient and RefusedOnlyWhenFull.     *)
(***************************************************************************)
HasRow(ip, m) == ip \in Rows(leases) /\ leases[ip].mac = m

(* The leases a handler wants to claim still have their rows, so the       *)
(* INSERT fails; what it has found or created is a row of its client.      *)
Backed(stage, r, j) ==
    /\ stage \in {"expired", "lock", "check", "write"} => ~j.ok
    /\ stage \in {"lock", "check", "write", "unlock"} /\ j.fn = "claim" =>
          /\ ~j.ok
          /\ \A i \in 1 .. Len(j.queue) : j.queue[i] \in Rows(leases)
          /\ stage # "lock" => j.ip \in Rows(leases)
    /\ \/ stage = "write" /\ j.fn = "renew"
       \/ stage = "unlock" /\ j.ok
       \/ stage = "reply"
       => HasRow(j.ip, r.mac)

HandlersBacked == sweeping = {} /\ \A p \in Handler : Backed(pc[p], req[p], job[p])

(* A client has the row of what it was offered, and of what it uses unless *)
(* it was acknowledged another address than that of its lease.             *)
ClientsBacked ==
    \A m \in MAC :
        /\ offer[m] # NoBinding => HasRow(offer[m].ip, m)
        /\ bound[m] # NoBinding /\ bound[m].own => HasRow(bound[m].ip, m)

(* The addresses a handler has passed over: those of the pools before its  *)
(* own, and of its own those no longer to be tried.                        *)
Searched(stage, r, j) ==
    /\ \/ stage = "expired"
       \/ stage \in {"lock", "check", "write", "unlock"} /\ j.fn \in {"claim", "search"}
       => \A i \in 1 .. j.pool - 1 : \A ip \in Pools[i] : Full(r.mac, ip)
    /\ stage \in {"lock", "check", "write", "unlock"} /\ j.fn = "search" =>
          \A ip \in Pools[j.pool] \ j.todo : Full(r.mac, ip)
    /\ stage = "unlock" /\ j.fn = "search" /\ ~j.ok => Full(r.mac, j.ip)

PassedOverFull == \A p \in Handler : ServerOf[p] \notin Fails =>
                     Searched(pc[p], req[p], job[p])

NothingDeleted == HandlersBacked /\ ClientsBacked /\ PassedOverFull

=============================================================================
